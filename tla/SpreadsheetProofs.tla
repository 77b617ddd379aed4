-------------------------- MODULE SpreadsheetProofs --------------------------
(***************************************************************************)
(* Proofs about SpreadsheetModel and SpreadsheetPass for every grid, every   *)
(* set of inputs, every memory limit and every sheet.                       *)
(*                                                                         *)
(* The sheet's methods come first. What a sheet evaluates to stays opaque     *)
(* there: those proofs are about who is told when. Their invariant says more  *)
(* than the properties, and more simply: marks are on all cells or on none,   *)
(* and without marks the cache is the evaluation.                           *)
(*                                                                         *)
(* Then the evaluation itself: its recursion has a solution, a path only      *)
(* turns values into errors, and so the value of a formula is that of its     *)
(* cells put together. With that, the depth-first pass finds the values of    *)
(* the evaluation, in whatever order it takes the cells; it ends, and it     *)
(* calls itself no deeper than the sheet has memory for formulas.            *)
(***************************************************************************)
EXTENDS SpreadsheetModel, SpreadsheetPass, FiniteSetTheorems, WellFoundedInduction, TLAPS

\* _commit_cells marks the complete sheet, or nothing.
AllOrNothing == dirty = {} \/ dirty = DOMAIN cells

\* Without marks, the cache is the evaluation of the sheet.
CacheIsEvaluation == dirty = {} => cache = Evaluated(cells, usedX)

\* The inductive invariant.
IInv ==
  /\ AllOrNothing
  /\ CacheIsEvaluation
  /\ MarksFitCells

\* A sheet's evaluation has a value for the cells of the sheet.
LEMMA EvaluatedDomain == \A c, v : DOMAIN Evaluated(c, v) = DOMAIN c
  BY DEF Evaluated

\* A calculation that raised nothing is the evaluation, without an error in it.
LEMMA CalculatedIsEvaluated ==
  ASSUME NEW c, NEW v, Calculated(c, v) # Error
  PROVE  /\ Calculated(c, v) = Evaluated(c, v)
         /\ DOMAIN Calculated(c, v) = DOMAIN c
         /\ \A a \in DOMAIN c : Calculated(c, v)[a] # Error
<1>1. ~ \E a \in DOMAIN c : Evaluated(c, v)[a] = Error
  BY DEF Calculated
<1>2. Calculated(c, v) = Evaluated(c, v)
  BY <1>1 DEF Calculated
<1> QED
  BY <1>1, <1>2, EvaluatedDomain

\* Restricting a cache to some of its cells keeps their values.
LEMMA RestrictKeeps ==
  ASSUME NEW f, NEW S
  PROVE  /\ DOMAIN Restrict(f, S) = S
         /\ \A a \in S : Restrict(f, S)[a] = f[a]
  BY DEF Restrict

\* Every step is a commit, a calculation, or leaves cells and cache alone.
LEMMA StepKinds ==
  ASSUME [Next]_vars
  PROVE  \/ \E c : Commit(c)
         \/ DeleteAll
         \/ Recalculate
         \/ UNCHANGED sheetVars
  BY DEF Next, vars, sheetVars, SetCell, Delete, Copy, Cut, FillValue, FillFormula,
         SwitchAutoCalc, StoreX

\* A calculation re-establishes the invariant, whatever it was before.
LEMMA TrustEstablishes ==
  ASSUME NEW c, cells' = c, Trust(c)
  PROVE  IInv'
<1>1. /\ cache' = Evaluated(c, x)
      /\ DOMAIN cache' = DOMAIN c
  BY CalculatedIsEvaluated DEF Trust
<1> QED
  BY <1>1 DEF Trust, IInv, AllOrNothing, CacheIsEvaluation, MarksFitCells

\* An evaluation of no cells, and a cache restricted to no cells, are the same.
LEMMA NothingToEvaluate ==
  ASSUME NEW c, NEW v, DOMAIN c = {}
  PROVE  /\ Evaluated(c, v) = NoCells
         /\ \A f : Restrict(f, {}) = NoCells
  BY DEF Evaluated, NoCells, Restrict

\* A commit without calculation establishes the invariant as well.
LEMMA MarkEstablishes ==
  ASSUME NEW c, cells' = c, Mark(c)
  PROVE  IInv'
<1>1. dirty' = DOMAIN c /\ (needs' <=> dirty' # {})
  BY DEF Mark
<1>2. DOMAIN cache' \subseteq DOMAIN c
  BY RestrictKeeps DEF Mark
<1>3. CacheIsEvaluation'
  <2> SUFFICES ASSUME dirty' = {}
               PROVE  cache' = Evaluated(cells', usedX')
    BY DEF CacheIsEvaluation
  <2>1. DOMAIN c = {}
    BY <1>1
  <2>2. cache' = Restrict(cache, {})
    BY <2>1 DEF Mark
  <2> QED
    BY <2>1, <2>2, NothingToEvaluate
<1> QED
  BY <1>1, <1>2, <1>3 DEF IInv, AllOrNothing, MarksFitCells

\* The empty sheet satisfies the invariant.
LEMMA InitIInv == Init => IInv
<1> SUFFICES ASSUME Init
             PROVE  IInv
  OBVIOUS
<1>1. DOMAIN cells = {}
  BY DEF Init, NoCells
<1> QED
  BY <1>1, NothingToEvaluate
     DEF Init, IInv, AllOrNothing, CacheIsEvaluation, MarksFitCells

\* Every call keeps the invariant.
LEMMA NextIInv == IInv /\ [Next]_vars => IInv'
<1> SUFFICES ASSUME IInv, [Next]_vars
             PROVE  IInv'
  OBVIOUS
<1>1. CASE \E c : Commit(c)
  <2>1. PICK c : Commit(c)
    BY <1>1
  <2>2. cells' = c /\ (Trust(c) \/ Mark(c))
    BY <2>1 DEF Commit
  <2> QED
    BY <2>2, TrustEstablishes, MarkEstablishes
<1>2. CASE DeleteAll
  <2>1. DOMAIN cells' = {}
    BY <1>2 DEF DeleteAll, NoCells
  <2> QED
    BY <1>2, <2>1, NothingToEvaluate
       DEF DeleteAll, IInv, AllOrNothing, CacheIsEvaluation, MarksFitCells
<1>3. CASE Recalculate
  BY <1>3, TrustEstablishes DEF Recalculate
<1>4. CASE UNCHANGED sheetVars
  BY <1>4 DEF IInv, AllOrNothing, CacheIsEvaluation, MarksFitCells, sheetVars
<1> QED
  BY <1>1, <1>2, <1>3, <1>4, StepKinds

\* Marks are on all cells or on none, or the unmarked ones would need a reason of
\* their own to be right.
LEMMA IInvImpliesUnmarkedIsRight == IInv => UnmarkedIsRight
<1> SUFFICES ASSUME IInv,
                    NEW a \in DOMAIN cells \ dirty
             PROVE  a \in DOMAIN cache /\ cache[a] = Evaluated(cells, usedX)[a]
  BY DEF UnmarkedIsRight
<1>1. dirty = {}
  BY DEF IInv, AllOrNothing
<1> QED
  BY <1>1, EvaluatedDomain DEF IInv, CacheIsEvaluation

\* The invariant holds in every reachable state.
LEMMA AlwaysIInv == Spec => []IInv
  BY InitIInv, NextIInv, PTL DEF Spec

\* Whatever is typed, copied, cut, filled or deleted, with Auto Calc on or off, a
\* cell that _commit_cells does not mark shows the value of its formula.
THEOREM UnmarkedValuesAreRight == Spec => []UnmarkedIsRight
  BY AlwaysIInv, IInvImpliesUnmarkedIsRight, PTL

\* dirty_cells, needs_recalculation and the keys of the cache agree with the
\* cells, also across delete_all and a calculation.
THEOREM MarksAgree == Spec => []MarksFitCells
<1>1. IInv => MarksFitCells
  BY DEF IInv
<1> QED
  BY <1>1, AlwaysIInv, PTL

\* With Auto Calc off, no call but recalculate puts a new value into the cache.
THEOREM OnlyRecalculateRefreshes == Spec => RefreshedOnlyByRecalculate
<1>1. ASSUME [Next]_vars, ~auto, needs' \/ cells' # cells
      PROVE  /\ DOMAIN cache' \subseteq DOMAIN cache
             /\ \A a \in DOMAIN cache' : cache'[a] = cache[a]
  <2>1. CASE \E c : Commit(c)
    <3>1. PICK c : Mark(c)
      BY <1>1, <2>1 DEF Commit
    <3> QED
      BY <3>1, RestrictKeeps DEF Mark
  <2>2. CASE DeleteAll
    BY <2>2 DEF DeleteAll, NoCells
  <2>3. CASE Recalculate
    BY <1>1, <2>3 DEF Recalculate, Trust
  <2>4. CASE UNCHANGED sheetVars
    BY <2>4 DEF sheetVars
  <2> QED
    BY <1>1, <2>1, <2>2, <2>3, <2>4, StepKinds
<1> QED
  BY <1>1, PTL DEF Spec, RefreshedOnlyByRecalculate

-----------------------------------------------------------------------------
(***************************************************************************)
(* Texts: no call puts a reference outside the grid into the sheet.         *)
(***************************************************************************)

\* Texts in cells of the grid.
IsSheet(c) ==
  /\ DOMAIN c \subseteq Addresses
  /\ \A a \in DOMAIN c : c[a] \in Texts

\* range_values and the fills stay within the grid their corners are in.
LEMMA RectangleInGrid ==
  ASSUME NEW a \in Addresses, NEW b \in Addresses
  PROVE  Rectangle(a, b) \subseteq Addresses
<1>1. \A i, j, k \in Nat : i <= k /\ j <= k => Span(i, j) \subseteq 0..k
  BY DEF Span
<1>2. /\ a[1] \in 0..Columns - 1 /\ b[1] \in 0..Columns - 1
      /\ a[2] \in 0..Rows - 1 /\ b[2] \in 0..Rows - 1
  BY DEF Addresses
<1>3. /\ Span(a[1], b[1]) \subseteq 0..Columns - 1
      /\ Span(a[2], b[2]) \subseteq 0..Rows - 1
  BY <1>1, <1>2, SpreadsheetAssumption
<1> QED
  BY <1>3 DEF Rectangle, Addresses

\* Putting texts into a sheet makes a sheet.
LEMMA WithIsSheet ==
  ASSUME IsSheet(cells), NEW t, IsSheet(t)
  PROVE  IsSheet(With(t))
  BY DEF IsSheet, With

\* One cell with a text is a sheet.
LEMMA OneCellIsSheet ==
  ASSUME NEW a \in Addresses, NEW t \in Texts
  PROVE  IsSheet(One(a, t))
  BY DEF IsSheet, One

\* Taking cells out of a sheet leaves a sheet.
LEMMA RestrictIsSheet ==
  ASSUME NEW c, IsSheet(c), NEW S, S \subseteq DOMAIN c
  PROVE  IsSheet(Restrict(c, S))
  BY RestrictKeeps DEF IsSheet

\* What a cell holds, or the text an empty one is copied as.
LEMMA RawIsText ==
  ASSUME IsSheet(cells), NEW a
  PROVE  Raw(a) \in Texts
  BY DEF IsSheet, Raw, Texts

\* Every commit is of a sheet.
LEMMA OnlySheetsAreCommitted ==
  ASSUME TypeOK, Next
  PROVE  \/ \E c : IsSheet(c) /\ Commit(c)
         \/ DeleteAll
         \/ Recalculate
         \/ SwitchAutoCalc
         \/ \E v \in Numbers : StoreX(v)
<1> DEFINE Committed == \E c : IsSheet(c) /\ Commit(c)
<1>1. IsSheet(cells)
  BY DEF TypeOK, IsSheet
<1>2. ASSUME NEW a \in Addresses, NEW t \in Inputs, SetCell(a, t)
      PROVE  Committed
  <2>1. IsSheet(With(One(a, t)))
    BY <1>1, InputAssumption, OneCellIsSheet, WithIsSheet
  <2> QED
    BY <1>2, <2>1 DEF SetCell
<1>3. ASSUME NEW a \in Addresses, Delete(a)
      PROVE  Committed
  <2>1. IsSheet(Restrict(cells, DOMAIN cells \ {a}))
    BY <1>1, RestrictIsSheet
  <2> QED
    BY <1>3, <2>1 DEF Delete
<1>4. ASSUME NEW a \in Addresses, NEW b \in Addresses, Copy(a, b)
      PROVE  Committed
  <2>1. PICK t \in Texts : Commit(With(One(b, t)))
    BY <1>1, <1>4, RawIsText DEF Copy, CanShift, Texts
  <2>2. IsSheet(With(One(b, t)))
    BY <1>1, OneCellIsSheet, WithIsSheet
  <2> QED
    BY <2>1, <2>2
<1>5. ASSUME NEW a \in Addresses, NEW b \in Addresses, Cut(a, b)
      PROVE  Committed
  <2> DEFINE c == With(One(b, Raw(a)))
             S == (DOMAIN cells \cup {b}) \ {a}
  <2>1. IsSheet(c)
    BY <1>1, RawIsText, OneCellIsSheet, WithIsSheet
  <2>2. DOMAIN c = DOMAIN cells \cup {b}
    BY DEF With, One
  <2>3. IsSheet(Restrict(c, S))
    BY <2>1, <2>2, RestrictIsSheet
  <2> QED
    BY <1>5, <2>3 DEF Cut
<1>6. ASSUME NEW a \in Addresses, NEW b \in Addresses, NEW t \in Inputs,
             FillValue(a, b, t)
      PROVE  Committed
  <2>1. IsSheet([d \in Rectangle(a, b) |-> t])
    BY RectangleInGrid, InputAssumption DEF IsSheet
  <2>2. IsSheet(With([d \in Rectangle(a, b) |-> t]))
    BY <1>1, <2>1, WithIsSheet
  <2> QED
    BY <1>6, <2>2 DEF FillValue
<1>7. ASSUME NEW a \in Addresses, NEW b \in Addresses, NEW f \in Inputs,
             FillFormula(a, b, f)
      PROVE  Committed
  <2> DEFINE t == [d \in Rectangle(a, b) |-> Shift(f, d[1] - a[1], d[2] - a[2])]
  <2>1. \A d \in DOMAIN t : t[d] \in Texts
    BY <1>7 DEF FillFormula, CanShift, Texts
  <2>2. IsSheet(t)
    BY <2>1, RectangleInGrid DEF IsSheet
  <2>3. IsSheet(With(t))
    BY <1>1, <2>2, WithIsSheet
  <2> QED
    BY <1>7, <2>3 DEF FillFormula
<1> QED
  BY <1>2, <1>3, <1>4, <1>5, <1>6, <1>7 DEF Next

\* A calculation leaves neither an error nor a cell that is not there in the cache.
LEMMA TrustKeepsTypes ==
  ASSUME TypeOK, NEW c, IsSheet(c), cells' = c, Trust(c), UNCHANGED <<auto, x>>
  PROVE  TypeOK'
<1>1. /\ DOMAIN cache' = DOMAIN c
      /\ \A a \in DOMAIN c : cache'[a] # Error
  BY CalculatedIsEvaluated DEF Trust
<1> QED
  BY <1>1 DEF TypeOK, IsSheet, Trust

\* Marking leaves a part of the cache.
LEMMA MarkKeepsTypes ==
  ASSUME TypeOK, NEW c, IsSheet(c), cells' = c, Mark(c), UNCHANGED <<auto, x>>
  PROVE  TypeOK'
<1>1. /\ DOMAIN cache' = DOMAIN c \cap DOMAIN cache
      /\ \A a \in DOMAIN cache' : cache'[a] = cache[a]
  BY RestrictKeeps DEF Mark
<1> QED
  BY <1>1 DEF TypeOK, IsSheet, Mark

\* Cells hold texts with references in the grid, however often they are copied
\* and filled, and _calculate_cache never leaves an error in the cache.
THEOREM TypeCorrect == Spec => []TypeOK
<1>1. Init => TypeOK
  BY InputAssumption DEF Init, TypeOK, NoCells
<1>2. ASSUME TypeOK, [Next]_vars
      PROVE  TypeOK'
  <2>1. CASE Next
    <3>1. CASE \E c : IsSheet(c) /\ Commit(c)
      BY <1>2, <3>1, TrustKeepsTypes, MarkKeepsTypes DEF Commit
    <3>2. CASE DeleteAll
      BY <1>2, <3>2 DEF DeleteAll, TypeOK, NoCells
    <3>3. CASE Recalculate
      <4>1. IsSheet(cells)
        BY <1>2 DEF TypeOK, IsSheet
      <4> QED
        BY <1>2, <3>3, <4>1, TrustKeepsTypes DEF Recalculate
    <3>4. CASE SwitchAutoCalc
      BY <1>2, <3>4 DEF SwitchAutoCalc, TypeOK, sheetVars
    <3>5. CASE \E v \in Numbers : StoreX(v)
      BY <1>2, <3>5 DEF StoreX, TypeOK, sheetVars
    <3> QED
      BY <1>2, <2>1, <3>1, <3>2, <3>3, <3>4, <3>5, OnlySheetsAreCommitted
  <2>2. CASE UNCHANGED vars
    BY <1>2, <2>2 DEF vars, sheetVars, TypeOK
  <2> QED
    BY <1>2, <2>1, <2>2
<1> QED
  BY <1>1, <1>2, PTL DEF Spec

-----------------------------------------------------------------------------
(***************************************************************************)
(* Finite sets: the smallest and the largest of a family of subsets, and      *)
(* induction on the natural numbers as a fact about a set of numbers.        *)
(***************************************************************************)

\* A set of numbers with 0 and the successor of each of its elements has them all.
LEMMA AllNumbers ==
  ASSUME NEW S, S \subseteq Nat, 0 \in S, \A n \in S : n + 1 \in S
  PROVE  S = Nat
<1> DEFINE R == OpToRel(<, Nat)
           T == Nat \ S
<1> SUFFICES ASSUME T # {} PROVE FALSE
  OBVIOUS
<1>1. IsWellFoundedOn(R, Nat)
  BY NatLessThanWellFounded
<1>2. \A a, b \in Nat : a < b => <<a, b>> \in R
  BY DEF OpToRel
<1> HIDE DEF R
<1>3. PICK n \in T : \A m \in T : ~(<<m, n>> \in R)
  BY <1>1, WFMin
<1>4. n # 0 /\ n \in Nat
  OBVIOUS
<1>5. n - 1 \in Nat /\ n - 1 < n
  BY <1>4
<1>6. n - 1 \notin T
  BY <1>2, <1>3, <1>5, <1>4
<1> QED
  BY <1>5, <1>6

\* Among subsets of a finite set one includes none of the others.
LEMMA SmallestSubset ==
  ASSUME NEW D, IsFiniteSet(D), NEW B, B \subseteq SUBSET D, B # {}
  PROVE  \E s \in B : \A t \in B : t \subseteq s => t = s
<1> DEFINE R == StrictSubsetOrdering(D)
<1>1. IsWellFoundedOn(R, SUBSET D)
  BY FS_StrictSubsetOrderingWellFounded, FS_FiniteSubsetsOfFinite
<1>2. \A s, t \in SUBSET D : t \subseteq s /\ t # s => <<t, s>> \in R
  BY DEF StrictSubsetOrdering
<1> HIDE DEF R
<1>3. PICK s \in B : \A t \in B : ~(<<t, s>> \in R)
  BY <1>1, WFMin
<1> QED
  BY <1>2, <1>3

\* And one is included in none of the others.
LEMMA LargestSubset ==
  ASSUME NEW D, IsFiniteSet(D), NEW B, B \subseteq SUBSET D, B # {}
  PROVE  \E s \in B : \A t \in B : s \subseteq t => t = s
<1> DEFINE C == {D \ s : s \in B}
<1>1. /\ C \subseteq SUBSET D
      /\ C # {}
  <2>1. PICK b : b \in B
    OBVIOUS
  <2>2. D \ b \in C
    BY <2>1
  <2>3. C \subseteq SUBSET D
    OBVIOUS
  <2> HIDE DEF C
  <2> QED
    BY <2>2, <2>3
<1>2. PICK u \in C : \A t \in C : t \subseteq u => t = u
  <2> HIDE DEF C
  <2> QED
    BY <1>1, SmallestSubset
<1>3. PICK s \in B : u = D \ s
  BY <1>2
<1>4. ASSUME NEW t \in B, s \subseteq t
      PROVE  t = s
  <2>1. D \ t \in C /\ D \ t \subseteq u
    BY <1>3, <1>4
  <2>2. D \ t = D \ s
    BY <2>1, <1>2, <1>3
  <2>3. t \subseteq D /\ s \subseteq D
    OBVIOUS
  <2> QED
    BY <2>2, <2>3
<1> QED
  BY <1>4

-----------------------------------------------------------------------------
(***************************************************************************)
(* Total: the sum of a function's values, in whatever order they are added.  *)
(***************************************************************************)

Chosen(s) == CHOOSE e \in s : TRUE

\* What Total calculates: the sums of f over the subsets of its domain.
AddUp(f, sums, s) == IF s = {} THEN 0 ELSE f[Chosen(s)] + sums[s \ {Chosen(s)}]
AddsUp(f, sums) == sums = [s \in SUBSET DOMAIN f |-> AddUp(f, sums, s)]
Sums(f) == CHOOSE sums : AddsUp(f, sums)

\* Total is the largest of them, if they exist.
LEMMA TotalIsSum == \A f : Total(f) = Sums(f)[DOMAIN f]
  BY Zenon DEF Total, MapThenSumSet, MapThenFoldSet, Sums, AddsUp, AddUp, Chosen

\* The element that is added next is one of the set.
LEMMA ChosenIsElement == \A s : s # {} => Chosen(s) \in s
  BY DEF Chosen

\* The sums exist: they can be calculated for sets of size n, then of size n + 1.
LEMMA SumsExist ==
  ASSUME NEW f, IsFiniteSet(DOMAIN f)
  PROVE  AddsUp(f, Sums(f))
<1> DEFINE D == DOMAIN f
           UpTo(sums, n) == \A s \in SUBSET D : Cardinality(s) <= n => sums[s] = AddUp(f, sums, s)
           Reached == {n \in Nat : \E sums : UpTo(sums, n)}
<1>1. \A s \in SUBSET D : IsFiniteSet(s) /\ Cardinality(s) \in Nat
  BY FS_Subset, FS_CardinalityType
<1>2. 0 \in Reached
  <2>1. \A s \in SUBSET D : Cardinality(s) <= 0 => s = {}
    BY <1>1, FS_EmptySet
  <2>2. UpTo([s \in SUBSET D |-> 0], 0)
    BY <2>1 DEF AddUp
  <2> QED
    BY <2>2
<1>3. ASSUME NEW n \in Reached
      PROVE  n + 1 \in Reached
  <2>1. PICK sums : UpTo(sums, n)
    OBVIOUS
  <2> DEFINE more == [s \in SUBSET D |-> AddUp(f, sums, s)]
  <2>2. ASSUME NEW s \in SUBSET D, Cardinality(s) <= n + 1
        PROVE  more[s] = AddUp(f, more, s)
    <3>1. CASE s = {}
      BY <3>1 DEF AddUp
    <3>2. CASE s # {}
      <4> DEFINE t == s \ {Chosen(s)}
      <4>1. Chosen(s) \in s
        BY <3>2, ChosenIsElement
      <4>2. t \in SUBSET D /\ Cardinality(t) = Cardinality(s) - 1
        BY <4>1, <1>1, FS_RemoveElement
      <4>3. Cardinality(t) <= n
        BY <4>2, <2>2, <1>1
      <4>4. sums[t] = AddUp(f, sums, t)
        BY <4>2, <4>3, <2>1
      <4>5. more[t] = sums[t]
        BY <4>2, <4>4
      <4>6. more[s] = f[Chosen(s)] + sums[t]
        BY <3>2 DEF AddUp
      <4>7. AddUp(f, more, s) = f[Chosen(s)] + more[t]
        BY <3>2 DEF AddUp
      <4> QED
        BY <4>5, <4>6, <4>7
    <3> QED
      BY <3>1, <3>2
  <2>3. UpTo(more, n + 1)
    BY <2>2
  <2>4. n + 1 \in Nat
    OBVIOUS
  <2>5. \E all : UpTo(all, n + 1)
    <3> HIDE DEF UpTo, more
    <3> QED
      BY <2>3
  <2> QED
    BY <2>4, <2>5
<1>4. Reached = Nat
  <2> HIDE DEF Reached
  <2>1. Reached \subseteq Nat
    BY DEF Reached
  <2> QED
    BY <2>1, <1>2, <1>3, AllNumbers
<1>5. PICK sums : UpTo(sums, Cardinality(D))
  BY <1>1, <1>4
<1> DEFINE all == [s \in SUBSET D |-> sums[s]]
<1>6. \A s \in SUBSET D : sums[s] = AddUp(f, sums, s)
  BY <1>1, <1>5, FS_Subset
<1>7. ASSUME NEW s \in SUBSET D
      PROVE  all[s] = AddUp(f, all, s)
  <2>1. s # {} => s \ {Chosen(s)} \in SUBSET D
    OBVIOUS
  <2>2. AddUp(f, all, s) = AddUp(f, sums, s)
    BY <2>1 DEF AddUp
  <2> QED
    BY <2>2, <1>6
<1>8. AddsUp(f, all)
  <2>1. all = [s \in SUBSET D |-> AddUp(f, all, s)]
    BY <1>7
  <2> QED
    BY <2>1 DEF AddsUp
<1> QED
  BY <1>8 DEF Sums

\* A sum over any subset, as Sums has it.
LEMMA SumsUnfold ==
  ASSUME NEW f, IsFiniteSet(DOMAIN f),
         NEW s \in SUBSET DOMAIN f
  PROVE  Sums(f)[s] = AddUp(f, Sums(f), s)
<1>1. Sums(f) = [t \in SUBSET DOMAIN f |-> AddUp(f, Sums(f), t)]
  BY SumsExist DEF AddsUp
<1> QED
  BY <1>1

\* Sums of natural numbers are natural numbers.
LEMMA SumsAreNumbers ==
  ASSUME NEW f, IsFiniteSet(DOMAIN f), \A d \in DOMAIN f : f[d] \in Nat
  PROVE  \A s \in SUBSET DOMAIN f : Sums(f)[s] \in Nat
<1> DEFINE B == {s \in SUBSET DOMAIN f : Sums(f)[s] \notin Nat}
<1> SUFFICES ASSUME B # {}
             PROVE  FALSE
  OBVIOUS
<1>1. PICK s \in B : \A t \in B : t \subseteq s => t = s
  <2>1. B \subseteq SUBSET DOMAIN f
    OBVIOUS
  <2> HIDE DEF B
  <2> QED
    BY <2>1, SmallestSubset
<1>2. Sums(f)[s] = AddUp(f, Sums(f), s)
  BY SumsUnfold
<1>3. s # {}
  BY <1>2 DEF AddUp
<1>4. Chosen(s) \in s
  BY <1>3, ChosenIsElement
<1> DEFINE t == s \ {Chosen(s)}
<1>5. t \in SUBSET DOMAIN f /\ t \notin B
  BY <1>1, <1>4
<1>6. Sums(f)[t] \in Nat /\ f[Chosen(s)] \in Nat
  BY <1>4, <1>5
<1>7. Sums(f)[s] = f[Chosen(s)] + Sums(f)[t]
  BY <1>2, <1>3 DEF AddUp
<1> QED
  BY <1>6, <1>7

\* Any element may be added last.
LEMMA SumsAddLast ==
  ASSUME NEW f, IsFiniteSet(DOMAIN f), \A d \in DOMAIN f : f[d] \in Nat
  PROVE  \A s \in SUBSET DOMAIN f : \A d \in s : Sums(f)[s] = f[d] + Sums(f)[s \ {d}]
<1> DEFINE B == {s \in SUBSET DOMAIN f : \E d \in s : Sums(f)[s] # f[d] + Sums(f)[s \ {d}]}
<1> SUFFICES ASSUME B # {}
             PROVE  FALSE
  OBVIOUS
<1>1. PICK s \in B : \A t \in B : t \subseteq s => t = s
  <2>1. B \subseteq SUBSET DOMAIN f
    OBVIOUS
  <2> HIDE DEF B
  <2> QED
    BY <2>1, SmallestSubset
<1>2. PICK d \in s : Sums(f)[s] # f[d] + Sums(f)[s \ {d}]
  OBVIOUS
<1> DEFINE e == Chosen(s)
<1>3. e \in s
  BY ChosenIsElement
<1>4. s \in SUBSET DOMAIN f
  OBVIOUS
<1>5. Sums(f)[s] = f[e] + Sums(f)[s \ {e}]
  <2>1. Sums(f)[s] = AddUp(f, Sums(f), s)
    BY <1>4, SumsUnfold
  <2> QED
    BY <2>1, <1>3 DEF AddUp
<1> HIDE DEF e
<1>6. d # e
  BY <1>2, <1>5
<1> DEFINE t == s \ {e}
           u == s \ {d}
<1>7. /\ t \in SUBSET DOMAIN f /\ d \in t /\ t \notin B
      /\ u \in SUBSET DOMAIN f /\ e \in u /\ u \notin B
      /\ t \ {d} = u \ {e}
      /\ t \ {d} \in SUBSET DOMAIN f
  BY <1>1, <1>3, <1>4, <1>6
<1>8. Sums(f)[t] = f[d] + Sums(f)[t \ {d}]
  BY <1>7
<1>9. Sums(f)[u] = f[e] + Sums(f)[t \ {d}]
  BY <1>7
<1>10. f[d] \in Nat /\ f[e] \in Nat /\ Sums(f)[t \ {d}] \in Nat
  BY <1>3, <1>4, <1>7, SumsAreNumbers
<1> HIDE DEF B
<1>11. f[e] + Sums(f)[t] = f[d] + Sums(f)[u]
  <2> HIDE DEF t, u
  <2> QED
    BY <1>8, <1>9, <1>10
<1> QED
  BY <1>2, <1>5, <1>11

\* More elements have a larger sum.
LEMMA SumsGrow ==
  ASSUME NEW f, IsFiniteSet(DOMAIN f), \A d \in DOMAIN f : f[d] \in Nat
  PROVE  \A t \in SUBSET DOMAIN f : \A s \in SUBSET t : Sums(f)[s] <= Sums(f)[t]
<1> DEFINE B == {t \in SUBSET DOMAIN f : \E s \in SUBSET t : ~(Sums(f)[s] <= Sums(f)[t])}
<1> SUFFICES ASSUME B # {}
             PROVE  FALSE
  OBVIOUS
<1>1. PICK t \in B : \A u \in B : u \subseteq t => u = t
  <2>1. B \subseteq SUBSET DOMAIN f
    OBVIOUS
  <2> HIDE DEF B
  <2> QED
    BY <2>1, SmallestSubset
<1>2. PICK s \in SUBSET t : ~(Sums(f)[s] <= Sums(f)[t])
  OBVIOUS
<1>3. t \in SUBSET DOMAIN f /\ s \in SUBSET DOMAIN f
  OBVIOUS
<1>4. Sums(f)[s] \in Nat /\ Sums(f)[t] \in Nat
  BY <1>3, SumsAreNumbers
<1>5. PICK d \in t : d \notin s
  BY <1>2, <1>4
<1> DEFINE u == t \ {d}
<1>6. u \in SUBSET DOMAIN f /\ u \notin B /\ s \in SUBSET u
  BY <1>1, <1>3, <1>5
<1>7. Sums(f)[s] <= Sums(f)[u]
  BY <1>6
<1>8. Sums(f)[t] = f[d] + Sums(f)[u]
  BY <1>3, SumsAddLast
<1>9. Sums(f)[u] \in Nat /\ f[d] \in Nat
  BY <1>3, <1>6, SumsAreNumbers
<1> HIDE DEF u
<1> QED
  BY <1>2, <1>4, <1>7, <1>8, <1>9

\* Elements that all have the same value are worth their number times that value.
LEMMA SumsOfEqual ==
  ASSUME NEW f, IsFiniteSet(DOMAIN f), \A d \in DOMAIN f : f[d] \in Nat,
         NEW k \in Nat
  PROVE  \A s \in SUBSET DOMAIN f :
           (\A d \in s : f[d] = k) => Sums(f)[s] = Cardinality(s) * k
<1> DEFINE B == {s \in SUBSET DOMAIN f : /\ \A d \in s : f[d] = k
                                       /\ Sums(f)[s] # Cardinality(s) * k}
<1> SUFFICES ASSUME B # {}
             PROVE  FALSE
  OBVIOUS
<1>1. PICK s \in B : \A t \in B : t \subseteq s => t = s
  <2>1. B \subseteq SUBSET DOMAIN f
    OBVIOUS
  <2> HIDE DEF B
  <2> QED
    BY <2>1, SmallestSubset
<1>2. /\ s \in SUBSET DOMAIN f
      /\ \A d \in s : f[d] = k
      /\ Sums(f)[s] # Cardinality(s) * k
  OBVIOUS
<1>3. s # {}
  <2>1. Sums(f)[{}] = 0
    BY SumsUnfold DEF AddUp
  <2>2. Cardinality({}) = 0
    BY FS_EmptySet
  <2>3. 0 * k = 0
    OBVIOUS
  <2> HIDE DEF B
  <2> QED
    BY <2>1, <2>2, <2>3, <1>2
<1>4. PICK d : d \in s
  BY <1>3
<1> DEFINE t == s \ {d}
<1>5. t \in SUBSET DOMAIN f /\ t \notin B /\ t # s /\ \A e \in t : f[e] = k
  BY <1>1, <1>2, <1>4
<1>6. Sums(f)[t] = Cardinality(t) * k
  BY <1>5
<1>7. Sums(f)[s] = k + Sums(f)[t]
  BY <1>2, <1>4, SumsAddLast
<1>8. Cardinality(t) = Cardinality(s) - 1 /\ Cardinality(s) \in Nat
  BY <1>2, <1>4, FS_Subset, FS_RemoveElement, FS_CardinalityType
<1> HIDE DEF B, t
<1>9. (Cardinality(s) - 1) * k = Cardinality(s) * k - k
  BY <1>8
<1>10. Cardinality(s) * k \in Nat
  BY <1>8
<1> QED
  BY <1>2, <1>6, <1>7, <1>8, <1>9, <1>10

\* A part of a function has the same sums.
LEMMA SumsOfPart ==
  ASSUME NEW f, IsFiniteSet(DOMAIN f), NEW S \in SUBSET DOMAIN f
  PROVE  \A s \in SUBSET S : Sums([d \in S |-> f[d]])[s] = Sums(f)[s]
<1> DEFINE g == [d \in S |-> f[d]]
           B == {s \in SUBSET S : Sums(g)[s] # Sums(f)[s]}
<1> SUFFICES ASSUME B # {}
             PROVE  FALSE
  OBVIOUS
<1>1. IsFiniteSet(S) /\ DOMAIN g = S
  BY FS_Subset
<1>2. PICK s \in B : \A t \in B : t \subseteq s => t = s
  <2>1. B \subseteq SUBSET S
    OBVIOUS
  <2> HIDE DEF B
  <2> QED
    BY <1>1, <2>1, SmallestSubset
<1>3. s \in SUBSET S /\ s \in SUBSET DOMAIN f
  OBVIOUS
<1>4. Sums(g)[s] = AddUp(g, Sums(g), s)
  <2> HIDE DEF g
  <2> QED
    BY <1>1, <1>3, SumsUnfold
<1>5. Sums(f)[s] = AddUp(f, Sums(f), s)
  BY <1>3, SumsUnfold
<1>6. Sums(g)[s] # Sums(f)[s]
  OBVIOUS
<1>7. s # {}
  BY <1>4, <1>5, <1>6 DEF AddUp
<1> DEFINE t == s \ {Chosen(s)}
<1>8. Chosen(s) \in s
  BY <1>7, ChosenIsElement
<1>9. Sums(g)[t] = Sums(f)[t]
  BY <1>2, <1>3, <1>8
<1>10. g[Chosen(s)] = f[Chosen(s)]
  BY <1>3, <1>8
<1> HIDE DEF g, B
<1> QED
  BY <1>4, <1>5, <1>6, <1>7, <1>9, <1>10 DEF AddUp

\* What Total returns: nothing for nothing, a natural number for natural numbers,
\* and one element's value more than for the others.
LEMMA TotalFacts ==
  ASSUME NEW f, IsFiniteSet(DOMAIN f), \A d \in DOMAIN f : f[d] \in Nat
  PROVE  /\ DOMAIN f = {} => Total(f) = 0
         /\ Total(f) \in Nat
         /\ \A d \in DOMAIN f : Total(f) = f[d] + Total([e \in DOMAIN f \ {d} |-> f[e]])
<1>1. DOMAIN f = {} => Total(f) = 0
  <2>1. Total(f) = AddUp(f, Sums(f), DOMAIN f)
    BY TotalIsSum, SumsUnfold
  <2> QED
    BY <2>1 DEF AddUp
<1>2. Total(f) \in Nat
  BY TotalIsSum, SumsAreNumbers
<1>3. ASSUME NEW d \in DOMAIN f
      PROVE  Total(f) = f[d] + Total([e \in DOMAIN f \ {d} |-> f[e]])
  <2> DEFINE S == DOMAIN f \ {d}
             g == [e \in S |-> f[e]]
  <2>1. Total(f) = f[d] + Sums(f)[S]
    BY TotalIsSum, SumsAddLast
  <2>2. DOMAIN g = S
    OBVIOUS
  <2>3. Total(g) = Sums(g)[S]
    BY <2>2, TotalIsSum
  <2>4. Sums(g)[S] = Sums(f)[S]
    BY SumsOfPart
  <2> QED
    BY <2>1, <2>3, <2>4
<1> QED
  BY <1>1, <1>2, <1>3

-----------------------------------------------------------------------------
(***************************************************************************)
(* Memory: no call makes a sheet that exceeds it.                           *)
(***************************************************************************)

\* A sheet without cells uses no memory.
LEMMA NothingUsed ==
  ASSUME NEW c, DOMAIN c = {}
  PROVE  MemoryUsed(c) = 0
<1> DEFINE f == [a \in DOMAIN c |-> IF IsFormula(c[a]) THEN FormulaBytes ELSE ValueBytes]
<1>1. DOMAIN f = {} /\ IsFiniteSet(DOMAIN f) /\ \A a \in DOMAIN f : f[a] \in Nat
  BY FS_EmptySet
<1>2. MemoryUsed(c) = Total(f)
  BY DEF MemoryUsed
<1> HIDE DEF f
<1>3. Total(f) = 0
  BY <1>1, TotalFacts
<1> QED
  BY <1>2, <1>3

\* Whatever is copied, filled, typed or deleted, the cells of a sheet fit into its
\* memory: _commit_cells measures every sheet before it is taken over.
THEOREM MemoryHolds == Spec => []FitsInMemory
<1>1. Init => FitsInMemory
  <2>1. DOMAIN NoCells = {}
    BY DEF NoCells
  <2> QED
    BY <2>1, NothingUsed, InputAssumption DEF Init, FitsInMemory
<1>2. ASSUME FitsInMemory, [Next]_vars
      PROVE  FitsInMemory'
  <2>1. CASE \E c : Commit(c)
    BY <2>1 DEF Commit, FitsInMemory
  <2>2. CASE DeleteAll
    <3>1. DOMAIN cells' = {}
      BY <2>2 DEF DeleteAll, NoCells
    <3> QED
      BY <3>1, NothingUsed, InputAssumption DEF FitsInMemory
  <2>3. CASE UNCHANGED cells
    BY <1>2, <2>3 DEF FitsInMemory
  <2> QED
    BY <1>2, <2>1, <2>2, <2>3, StepKinds DEF Recalculate, sheetVars
<1> QED
  BY <1>1, <1>2, PTL DEF Spec

-----------------------------------------------------------------------------
(***************************************************************************)
(* Value: the equation it was defined by, and what a path changes.          *)
(***************************************************************************)

\* The grid is finite.
LEMMA AddressesFinite == IsFiniteSet(Addresses)
<1>1. Columns \in Int /\ Rows \in Int
  BY SpreadsheetAssumption
<1>2. IsFiniteSet(0..Columns - 1) /\ IsFiniteSet(0..Rows - 1)
  BY <1>1, FS_Interval
<1> QED
  BY <1>2, FS_Product DEF Addresses

\* A range lies within the sheet.
LEMMA DependenciesOnSheet ==
  ASSUME NEW t \in Texts, IsFormula(t)
  PROVE  /\ Dependencies(t) \subseteq Addresses
         /\ IsFiniteSet(Dependencies(t))
<1>1. t \in Formulas
  BY DEF Texts, IsFormula, Constants, Empty, Broken
<1>2. /\ t.from.col \in 0..Columns - 1 /\ t.from.row \in 0..Rows - 1
      /\ t.to.col \in 0..Columns - 1 /\ t.to.row \in 0..Rows - 1
  BY <1>1 DEF Formulas, References
<1>3. /\ Span(t.from.col, t.to.col) \subseteq 0..Columns - 1
      /\ Span(t.from.row, t.to.row) \subseteq 0..Rows - 1
  BY <1>2, SpreadsheetAssumption DEF Span
<1>4. Dependencies(t) \subseteq Addresses
  BY <1>3 DEF Dependencies, Rectangle, Addresses
<1> QED
  BY <1>4, AddressesFinite, FS_Subset

\* A text that is no formula has a value.
LEMMA ConstantValue ==
  ASSUME NEW t \in Texts, ~IsFormula(t)
  PROVE  t.value \in Nat \cup {Error}
<1>1. t \notin Formulas
  BY DEF Formulas, IsFormula
<1>2. t \in Constants \/ t = Empty \/ t = Broken
  BY <1>1 DEF Texts
<1>3. ASSUME t \in Constants
      PROVE  t.value \in Nat
  BY <1>3, SpreadsheetAssumption DEF Constants
<1>4. Empty.value = 0 /\ Broken.value = Error
  BY DEF Empty, Broken
<1> QED
  BY <1>2, <1>3, <1>4

\* What Value calculates: the values by path, from those by longer paths, with x for
\* the formulas that have it.
Memory(t, v) == IF t.plusX THEN v ELSE 0
Below(c, value, path, a) == [d \in Dependencies(c[a]) |-> value[path \cup {a}][d]]
Worked(c, v, value, path, a) ==
  IF a \in path THEN Error
  ELSE IF a \notin DOMAIN c THEN 0
  ELSE IF ~IsFormula(c[a]) THEN c[a].value
  ELSE IF \E d \in DOMAIN Below(c, value, path, a) : Below(c, value, path, a)[d] = Error THEN Error
  ELSE Total(Below(c, value, path, a)) + Memory(c[a], v)
WorkedOut(c, v, value) ==
  value = [path \in SUBSET Addresses |-> [a \in Addresses |-> Worked(c, v, value, path, a)]]

\* Value is that solution, if there is one.
LEMMA ValueIsWorkedOut == \A c, v : Value(c, v) = CHOOSE value : WorkedOut(c, v, value)
  BY Zenon DEF Value, WorkedOut, Worked, Below, Memory

\* A value on a path rests on values on the path with one more cell.
LEMMA WorkedFromBelow ==
  ASSUME NEW c, IsSheet(c), NEW v, NEW f, NEW g,
         NEW path \in SUBSET Addresses, NEW a \in Addresses,
         a \notin path => \A d \in Addresses : f[path \cup {a}][d] = g[path \cup {a}][d]
  PROVE  Worked(c, v, f, path, a) = Worked(c, v, g, path, a)
<1>1. CASE a \notin path /\ a \in DOMAIN c /\ IsFormula(c[a])
  <2>1. Dependencies(c[a]) \subseteq Addresses
    BY <1>1, DependenciesOnSheet DEF IsSheet
  <2>2. Below(c, f, path, a) = Below(c, g, path, a)
    BY <1>1, <2>1 DEF Below
  <2> QED
    BY <2>2 DEF Worked
<1>2. CASE ~(a \notin path /\ a \in DOMAIN c /\ IsFormula(c[a]))
  BY <1>2 DEF Worked
<1> QED
  BY <1>1, <1>2

\* The values exist: they can be worked out for paths with all cells but n, then
\* for paths with all but n + 1.
LEMMA ValuesExist ==
  ASSUME NEW c, IsSheet(c), NEW v
  PROVE  WorkedOut(c, v, Value(c, v))
<1> DEFINE Size(path) == Cardinality(Addresses \ path)
           UpTo(value, n) ==
             \A path \in SUBSET Addresses : Size(path) <= n =>
               \A a \in Addresses : value[path][a] = Worked(c, v, value, path, a)
           Step(value) == [path \in SUBSET Addresses |-> [a \in Addresses |-> Worked(c, v, value, path, a)]]
           Reached == {n \in Nat : \E value : UpTo(value, n)}
<1>1. \A path \in SUBSET Addresses : IsFiniteSet(Addresses \ path) /\ Size(path) \in Nat
  BY AddressesFinite, FS_Subset, FS_CardinalityType
<1>2. \A path \in SUBSET Addresses : \A a \in Addresses \ path :
        path \cup {a} \in SUBSET Addresses /\ Size(path \cup {a}) = Size(path) - 1
  <2> SUFFICES ASSUME NEW path \in SUBSET Addresses, NEW a \in Addresses \ path
               PROVE  Size(path \cup {a}) = Size(path) - 1
    OBVIOUS
  <2>1. Addresses \ (path \cup {a}) = (Addresses \ path) \ {a}
    OBVIOUS
  <2>2. IsFiniteSet(Addresses \ path) /\ a \in Addresses \ path
    BY <1>1
  <2>3. Cardinality((Addresses \ path) \ {a}) = Cardinality(Addresses \ path) - 1
    BY <2>2, FS_RemoveElement
  <2> QED
    BY <2>1, <2>3
<1>3. 0 \in Reached
  <2> DEFINE none == Step(0)
  <2>1. ASSUME NEW path \in SUBSET Addresses, Size(path) <= 0, NEW a \in Addresses
        PROVE  none[path][a] = Worked(c, v, none, path, a)
    <3>1. a \in path
      BY <1>1, <2>1, FS_EmptySet
    <3>2. none[path][a] = Worked(c, v, 0, path, a)
      OBVIOUS
    <3> QED
      BY <3>1, <3>2 DEF Worked
  <2>2. UpTo(none, 0)
    <3> HIDE DEF none
    <3> QED
      BY <2>1
  <2>3. \E value : UpTo(value, 0)
    <3> HIDE DEF UpTo, none
    <3> QED
      BY <2>2
  <2> QED
    BY <2>3
<1>4. ASSUME NEW n \in Reached
      PROVE  n + 1 \in Reached
  <2>1. PICK value : UpTo(value, n)
    OBVIOUS
  <2>2. n \in Nat /\ n + 1 \in Nat
    OBVIOUS
  <2> DEFINE more == Step(value)
  <2>3. ASSUME NEW path \in SUBSET Addresses, Size(path) <= n + 1, NEW a \in Addresses
        PROVE  more[path][a] = Worked(c, v, more, path, a)
    <3>1. more[path][a] = Worked(c, v, value, path, a)
      OBVIOUS
    <3>2. ASSUME a \notin path, NEW d \in Addresses
          PROVE  more[path \cup {a}][d] = value[path \cup {a}][d]
      <4> DEFINE longer == path \cup {a}
      <4>1. longer \in SUBSET Addresses /\ Size(longer) <= n
        <5>1. a \in Addresses \ path
          BY <3>2
        <5>2. longer \in SUBSET Addresses /\ Size(longer) = Size(path) - 1 /\ Size(path) \in Nat
          BY <5>1, <1>1, <1>2
        <5> HIDE DEF Size, longer
        <5> QED
          BY <5>2, <2>2, <2>3
      <4>2. value[longer][d] = Worked(c, v, value, longer, d)
        BY <2>1, <4>1
      <4>3. more[longer][d] = Worked(c, v, value, longer, d)
        <5> HIDE DEF longer
        <5> QED
          BY <4>1
      <4> QED
        BY <4>2, <4>3
    <3> HIDE DEF more
    <3>3. Worked(c, v, more, path, a) = Worked(c, v, value, path, a)
      BY <3>2, WorkedFromBelow
    <3> QED
      BY <3>1, <3>3
  <2>4. \E all : UpTo(all, n + 1)
    <3>1. UpTo(more, n + 1)
      <4> HIDE DEF more, Size
      <4> QED
        BY <2>3
    <3> HIDE DEF UpTo, more
    <3> QED
      BY <3>1
  <2> QED
    BY <2>2, <2>4
<1>5. Reached = Nat
  <2>1. Reached \subseteq Nat
    OBVIOUS
  <2> HIDE DEF Reached
  <2> QED
    BY <2>1, <1>3, <1>4, AllNumbers
<1>6. Cardinality(Addresses) \in Nat
  BY AddressesFinite, FS_CardinalityType
<1>7. PICK value : UpTo(value, Cardinality(Addresses))
  BY <1>5, <1>6
<1>8. \A path \in SUBSET Addresses : \A a \in Addresses : value[path][a] = Worked(c, v, value, path, a)
  <2>1. \A path \in SUBSET Addresses : Size(path) <= Cardinality(Addresses)
    BY AddressesFinite, FS_Subset
  <2> HIDE DEF Size
  <2> QED
    BY <2>1, <1>7
<1> DEFINE all == Step(value)
<1>9. ASSUME NEW path \in SUBSET Addresses, NEW a \in Addresses
      PROVE  Worked(c, v, all, path, a) = Worked(c, v, value, path, a)
  <2>1. ASSUME a \notin path, NEW d \in Addresses
        PROVE  all[path \cup {a}][d] = value[path \cup {a}][d]
    <3> DEFINE longer == path \cup {a}
    <3>1. longer \in SUBSET Addresses
      OBVIOUS
    <3> HIDE DEF longer
    <3>2. all[longer][d] = value[longer][d]
      BY <3>1, <1>8
    <3> QED
      BY <3>2 DEF longer
  <2> HIDE DEF all
  <2> QED
    BY <2>1, WorkedFromBelow
<1>10. WorkedOut(c, v, all)
  <2>1. all = [path \in SUBSET Addresses |-> [a \in Addresses |-> Worked(c, v, all, path, a)]]
    BY <1>9
  <2> QED
    BY <2>1 DEF WorkedOut
<1> QED
  <2> HIDE DEF all
  <2> QED
    BY <1>10, ValueIsWorkedOut

\* What x adds is a number.
LEMMA MemoryType == \A t : \A v \in Nat : Memory(t, v) \in Nat
  BY DEF Memory

\* The value of a cell on a path, from the values of what it depends on.
LEMMA ValueUnfolds ==
  ASSUME NEW c, IsSheet(c), NEW v,
         NEW path \in SUBSET Addresses, NEW a \in Addresses
  PROVE  Value(c, v)[path][a] = Worked(c, v, Value(c, v), path, a)
<1>1. WorkedOut(c, v, Value(c, v))
  BY ValuesExist
<1> DEFINE value == Value(c, v)
<1> HIDE DEF value
<1>2. value = [p \in SUBSET Addresses |-> [b \in Addresses |-> Worked(c, v, value, p, b)]]
  BY <1>1 DEF WorkedOut, value
<1>3. value[path][a] = Worked(c, v, value, path, a)
  BY <1>2
<1> QED
  BY <1>3 DEF value

\* A value is a natural number or the error.
LEMMA ValueType ==
  ASSUME NEW c, IsSheet(c), NEW v \in Nat
  PROVE  \A path \in SUBSET Addresses : \A a \in Addresses :
           Value(c, v)[path][a] \in Nat \cup {Error}
<1> DEFINE B == {path \in SUBSET Addresses : \E a \in Addresses : Value(c, v)[path][a] \notin Nat \cup {Error}}
<1> SUFFICES ASSUME B # {}
             PROVE  FALSE
  OBVIOUS
<1>1. PICK path \in B : \A q \in B : path \subseteq q => q = path
  <2>1. B \subseteq SUBSET Addresses
    OBVIOUS
  <2> HIDE DEF B
  <2> QED
    BY <2>1, LargestSubset, AddressesFinite
<1>2. PICK a \in Addresses : Value(c, v)[path][a] \notin Nat \cup {Error}
  OBVIOUS
<1>3. path \in SUBSET Addresses
  OBVIOUS
<1>4. Value(c, v)[path][a] = Worked(c, v, Value(c, v), path, a)
  BY <1>3, ValueUnfolds
<1> DEFINE below == Below(c, Value(c, v), path, a)
<1>5. /\ a \notin path /\ a \in DOMAIN c /\ IsFormula(c[a])
      /\ \A d \in DOMAIN below : below[d] # Error
      /\ Value(c, v)[path][a] = Total(below) + Memory(c[a], v)
  <2>1. a \in DOMAIN c /\ ~IsFormula(c[a]) => c[a].value \in Nat \cup {Error}
    BY ConstantValue DEF IsSheet
  <2> QED
    BY <1>2, <1>4, <2>1 DEF Worked
<1>6. Dependencies(c[a]) \subseteq Addresses /\ IsFiniteSet(Dependencies(c[a]))
  BY <1>5, DependenciesOnSheet DEF IsSheet
<1> DEFINE longer == path \cup {a}
<1>7. longer \in SUBSET Addresses /\ longer \notin B
  BY <1>1, <1>3, <1>5
<1>8. \A d \in Addresses : Value(c, v)[longer][d] \in Nat \cup {Error}
  BY <1>7
<1>9. DOMAIN below = Dependencies(c[a]) /\ \A d \in DOMAIN below : below[d] = Value(c, v)[longer][d]
  BY DEF Below
<1> HIDE DEF below, longer, B
<1>10. \A d \in DOMAIN below : below[d] \in Nat
  BY <1>5, <1>6, <1>8, <1>9
<1>11. Total(below) \in Nat
  BY <1>6, <1>9, <1>10, TotalFacts
<1> QED
  BY <1>2, <1>5, <1>11, MemoryType

\* The values a formula finds on the path that leads to it can be added up, if none
\* of them is the error.
LEMMA BelowTotal ==
  ASSUME NEW c, IsSheet(c), NEW v \in Nat,
         NEW path \in SUBSET Addresses, NEW a \in DOMAIN c, IsFormula(c[a]),
         \A d \in Dependencies(c[a]) : Below(c, Value(c, v), path, a)[d] # Error
  PROVE  Total(Below(c, Value(c, v), path, a)) \in Nat
<1> DEFINE below == Below(c, Value(c, v), path, a)
           longer == path \cup {a}
<1>1. longer \in SUBSET Addresses
  BY DEF IsSheet
<1>2. Dependencies(c[a]) \subseteq Addresses /\ IsFiniteSet(Dependencies(c[a]))
  BY DependenciesOnSheet DEF IsSheet
<1>3. \A d \in Addresses : Value(c, v)[longer][d] \in Nat \cup {Error}
  BY <1>1, ValueType
<1>4. DOMAIN below = Dependencies(c[a]) /\ \A d \in Dependencies(c[a]) : below[d] = Value(c, v)[longer][d]
  BY DEF Below
<1> HIDE DEF below, longer
<1>5. \A d \in DOMAIN below : below[d] \in Nat
  BY <1>2, <1>3, <1>4 DEF below
<1> QED
  BY <1>2, <1>4, <1>5, TotalFacts DEF below

\* What a formula with a value depends on has values on the longer path.
LEMMA FormulaNeeds ==
  ASSUME NEW c, IsSheet(c), NEW v \in Nat,
         NEW path \in SUBSET Addresses, NEW a \in DOMAIN c, IsFormula(c[a]),
         NEW longer, longer = path \cup {a},
         Value(c, v)[path][a] # Error
  PROVE  /\ a \notin path
         /\ \A d \in Dependencies(c[a]) : Value(c, v)[longer][d] # Error
         /\ Value(c, v)[path][a] = Total(Below(c, Value(c, v), path, a)) + Memory(c[a], v)
<1>1. a \in Addresses
  BY DEF IsSheet
<1>2. Value(c, v)[path][a] = Worked(c, v, Value(c, v), path, a)
  BY <1>1, ValueUnfolds
<1>3. /\ a \notin path
      /\ \A d \in DOMAIN Below(c, Value(c, v), path, a) : Below(c, Value(c, v), path, a)[d] # Error
      /\ Value(c, v)[path][a] = Total(Below(c, Value(c, v), path, a)) + Memory(c[a], v)
  BY <1>2, Zenon DEF Worked
<1> QED
  BY <1>3 DEF Below

\* And a formula that is given them has a value.
LEMMA FormulaSums ==
  ASSUME NEW c, IsSheet(c), NEW v \in Nat,
         NEW path \in SUBSET Addresses, NEW a \in DOMAIN c, IsFormula(c[a]),
         NEW longer, longer = path \cup {a},
         a \notin path,
         \A d \in Dependencies(c[a]) : Value(c, v)[longer][d] # Error
  PROVE  Value(c, v)[path][a] # Error
<1>1. a \in Addresses
  BY DEF IsSheet
<1>2. Value(c, v)[path][a] = Worked(c, v, Value(c, v), path, a)
  BY <1>1, ValueUnfolds
<1> DEFINE below == Below(c, Value(c, v), path, a)
<1>3. /\ \A d \in Dependencies(c[a]) : below[d] # Error
      /\ DOMAIN below = Dependencies(c[a])
  BY DEF Below
<1>4. Total(below) \in Nat
  BY <1>3, BelowTotal
<1>5. Value(c, v)[path][a] = Total(below) + Memory(c[a], v)
  BY <1>2, <1>3 DEF Worked
<1>6. Total(below) + Memory(c[a], v) \in Nat
  <2> HIDE DEF below
  <2> QED
    BY <1>4, MemoryType
<1> QED
  BY <1>5, <1>6, SpreadsheetAssumption

\* A longer path makes errors, but changes no value.
LEMMA LongerPath ==
  ASSUME NEW c, IsSheet(c), NEW v \in Nat
  PROVE  \A p, q \in SUBSET Addresses : \A a \in Addresses :
           p \subseteq q /\ Value(c, v)[q][a] # Error => Value(c, v)[p][a] = Value(c, v)[q][a]
<1> DEFINE V == Value(c, v)
           B == {q \in SUBSET Addresses : \E p \in SUBSET q : \E a \in Addresses :
                   V[q][a] # Error /\ V[p][a] # V[q][a]}
<1> HIDE DEF V
<1> SUFFICES ASSUME B # {}
             PROVE  FALSE
  BY DEF V
<1>1. PICK q \in B : \A s \in B : q \subseteq s => s = q
  <2>1. B \subseteq SUBSET Addresses
    OBVIOUS
  <2> HIDE DEF B
  <2> QED
    BY <2>1, LargestSubset, AddressesFinite
<1>2. PICK p \in SUBSET q : \E a \in Addresses : V[q][a] # Error /\ V[p][a] # V[q][a]
  OBVIOUS
<1>3. PICK a \in Addresses : V[q][a] # Error /\ V[p][a] # V[q][a]
  BY <1>2
<1>4. p \in SUBSET Addresses /\ q \in SUBSET Addresses
  OBVIOUS
<1>5. V[q][a] = Worked(c, v, V, q, a) /\ V[p][a] = Worked(c, v, V, p, a)
  BY <1>4, ValueUnfolds DEF V
<1>6. a \notin q /\ a \notin p
  BY <1>3, <1>5 DEF Worked
<1>7. a \in DOMAIN c /\ IsFormula(c[a])
  BY <1>3, <1>5, <1>6 DEF Worked
<1> DEFINE qa == q \cup {a}
           pa == p \cup {a}
<1>8. qa \in SUBSET Addresses /\ qa \notin B /\ pa \in SUBSET qa
  BY <1>1, <1>4, <1>6
<1>9. \A d \in Dependencies(c[a]) : V[qa][d] # Error
  <2>1. qa = q \cup {a}
    OBVIOUS
  <2> HIDE DEF qa
  <2> QED
    BY <2>1, <1>3, <1>4, <1>7, FormulaNeeds DEF V
<1>10. Dependencies(c[a]) \subseteq Addresses
  BY <1>7, DependenciesOnSheet DEF IsSheet
<1>11. \A d \in Dependencies(c[a]) : V[pa][d] = V[qa][d]
  <2> HIDE DEF qa, pa
  <2> QED
    BY <1>8, <1>9, <1>10
<1>12. Below(c, V, q, a) = Below(c, V, p, a)
  BY <1>11 DEF Below
<1>13. Worked(c, v, V, q, a) = Worked(c, v, V, p, a)
  BY <1>6, <1>12 DEF Worked
<1> QED
  BY <1>3, <1>5, <1>13

\* A cell without a value is of no use to those that have one: with it on the
\* path, they still have one.
LEMMA UselessOnPath ==
  ASSUME NEW c, IsSheet(c), NEW v \in Nat,
         NEW b \in Addresses, Value(c, v)[{}][b] = Error
  PROVE  \A p \in SUBSET Addresses : \A a \in Addresses :
           Value(c, v)[p][a] # Error => Value(c, v)[p \cup {b}][a] # Error
<1> DEFINE V == Value(c, v)
           B == {p \in SUBSET Addresses : \E a \in Addresses :
                   V[p][a] # Error /\ V[p \cup {b}][a] = Error}
<1> HIDE DEF V
<1> SUFFICES ASSUME B # {}
             PROVE  FALSE
  BY DEF V
<1>1. PICK p \in B : \A s \in B : p \subseteq s => s = p
  <2>1. B \subseteq SUBSET Addresses
    OBVIOUS
  <2> HIDE DEF B
  <2> QED
    BY <2>1, LargestSubset, AddressesFinite
<1> DEFINE pb == p \cup {b}
<1>2. PICK a \in Addresses : V[p][a] # Error /\ V[pb][a] = Error
  OBVIOUS
<1>3. p \in SUBSET Addresses /\ pb \in SUBSET Addresses /\ {} \in SUBSET Addresses /\ {} \subseteq p
  OBVIOUS
<1>4. V[{}][a] = V[p][a]
  BY <1>2, <1>3, LongerPath DEF V
<1>5. a # b
  BY <1>2, <1>4 DEF V
<1>6. V[p][a] = Worked(c, v, V, p, a) /\ V[pb][a] = Worked(c, v, V, pb, a)
  BY <1>3, ValueUnfolds DEF V
<1>7. a \notin p /\ a \notin pb
  BY <1>2, <1>5, <1>6 DEF Worked
<1>8. a \in DOMAIN c /\ IsFormula(c[a])
  BY <1>2, <1>6, <1>7 DEF Worked
<1> DEFINE pa == p \cup {a}
<1>9. \A d \in Dependencies(c[a]) : V[pa][d] # Error
  <2>1. pa = p \cup {a}
    OBVIOUS
  <2> HIDE DEF pa
  <2> QED
    BY <2>1, <1>2, <1>3, <1>8, FormulaNeeds DEF V
<1>10. pa \in SUBSET Addresses /\ pa \notin B
  BY <1>1, <1>3, <1>7
<1>11. Dependencies(c[a]) \subseteq Addresses
  BY <1>8, DependenciesOnSheet DEF IsSheet
<1> DEFINE pab == pa \cup {b}
<1>12. \A d \in Dependencies(c[a]) : V[pab][d] # Error
  <2> HIDE DEF pa
  <2> QED
    BY <1>9, <1>10, <1>11
<1>13. pab = pb \cup {a}
  OBVIOUS
<1>14. V[pb][a] # Error
  <2> HIDE DEF pab, pb
  <2> QED
    BY <1>3, <1>7, <1>8, <1>12, <1>13, FormulaSums DEF V
<1> QED
  BY <1>2, <1>14

\* The value of a formula is the sum of the values its cells have on their own; it
\* has none exactly if one of them has none.
LEMMA FormulaFromCells ==
  ASSUME NEW c, IsSheet(c), NEW v \in Nat,
         NEW a \in DOMAIN c, IsFormula(c[a]),
         \A d \in Dependencies(c[a]) : Value(c, v)[{}][d] # Error
  PROVE  /\ Value(c, v)[{}][a] # Error
         /\ Value(c, v)[{}][a] = Total([d \in Dependencies(c[a]) |-> Value(c, v)[{}][d]])
                                 + Memory(c[a], v)
<1> DEFINE V == Value(c, v)
<1>1. a \in Addresses /\ {} \in SUBSET Addresses /\ {a} = {} \cup {a} /\ {a} \in SUBSET Addresses /\ a \notin {}
  BY DEF IsSheet
<1>2. Dependencies(c[a]) \subseteq Addresses
  BY DependenciesOnSheet DEF IsSheet
<1> HIDE DEF V
<1>3. V[{}][a] # Error
  <2> SUFFICES ASSUME V[{}][a] = Error
               PROVE  FALSE
    OBVIOUS
  <2>1. \A d \in Addresses : V[{}][d] # Error => V[{a}][d] # Error
    BY <1>1, UselessOnPath DEF V
  <2>2. \A d \in Dependencies(c[a]) : V[{a}][d] # Error
    BY <1>2, <2>1 DEF V
  <2> QED
    BY <1>1, <2>2, FormulaSums DEF V
<1>4. /\ \A d \in Dependencies(c[a]) : V[{a}][d] # Error
      /\ V[{}][a] = Total(Below(c, V, {}, a)) + Memory(c[a], v)
  BY <1>1, <1>3, FormulaNeeds DEF V
<1>5. \A d \in Dependencies(c[a]) : V[{a}][d] = V[{}][d]
  BY <1>1, <1>2, <1>4, LongerPath DEF V
<1>6. Below(c, V, {}, a) = [d \in Dependencies(c[a]) |-> V[{a}][d]]
  BY <1>1 DEF Below
<1>7. Below(c, V, {}, a) = [d \in Dependencies(c[a]) |-> V[{}][d]]
  BY <1>5, <1>6
<1>8. V[{}][a] = Total([d \in Dependencies(c[a]) |-> V[{}][d]]) + Memory(c[a], v)
  BY <1>4, <1>7
<1> QED
  BY <1>3, <1>8 DEF V

-----------------------------------------------------------------------------
(***************************************************************************)
(* The pass over a sheet c with v in the memory. Its invariant: the values    *)
(* found are those of the evaluation, and every formula begun has the sum of  *)
(* what it was given so far.                                               *)
(***************************************************************************)

\* The values in known are right, and none is an error.
Found(c, v, known) ==
  /\ known = [a \in DOMAIN known |-> known[a]]
  /\ DOMAIN known \subseteq DOMAIN c
  /\ \A a \in DOMAIN known : known[a] = Value(c, v)[{}][a] /\ known[a] # Error

Frames == [cell : Addresses, left : SUBSET Addresses, sum : Nat]

\* A formula begun was given right values, and has their sum.
FrameFits(c, v, f) ==
  /\ f \in Frames
  /\ f.cell \in DOMAIN c
  /\ IsFormula(c[f.cell])
  /\ f.left \subseteq Dependencies(c[f.cell])
  /\ \A d \in Dependencies(c[f.cell]) \ f.left : Value(c, v)[{}][d] # Error
  /\ f.sum = Total([d \in Dependencies(c[f.cell]) \ f.left |-> Value(c, v)[{}][d]])

\* A formula on the stack is what the one below it waits for.
Chained(s) == \A i \in 1..Len(s) - 1 : s[i + 1].cell \in s[i].left

OnceOnPath(s) == \A i, j \in DOMAIN s : s[i].cell = s[j].cell => i = j

\* If the first formula begun has a value, then so has every formula begun since, on
\* the path that leads to it: none of them waits for one that waits for it.
Before(s, i) == {s[j].cell : j \in 1..i - 1}
NoCircleYet(c, v, s) ==
  s # <<>> /\ Value(c, v)[{}][s[1].cell] # Error =>
    \A i \in DOMAIN s : Value(c, v)[Before(s, i)][s[i].cell] # Error

StackFits(c, v, s) ==
  /\ s \in Seq(Frames)
  /\ \A i \in DOMAIN s : FrameFits(c, v, s[i])
  /\ Chained(s)
  /\ OnceOnPath(s)
  /\ NoCircleYet(c, v, s)

\* The cells whose formulas are begun have no value yet.
NotFoundYet(s, known) == \A i \in DOMAIN s : s[i].cell \notin DOMAIN known

\* The inductive invariant of a pass.
PassInv ==
  /\ IsSheet(candidate)
  /\ memory \in Nat
  /\ pending \subseteq DOMAIN candidate
  /\ Found(candidate, memory, calculated)
  /\ DOMAIN candidate \ pending \subseteq DOMAIN calculated
  /\ StackFits(candidate, memory, stack)
  /\ NotFoundYet(stack, calculated)
  /\ raised => \E a \in DOMAIN candidate : Value(candidate, memory)[{}][a] = Error
  /\ evaluated = Cardinality(DOMAIN calculated)

\* What a formula begun is given next joins the sum.
LEMMA FrameAnswered ==
  ASSUME NEW c, IsSheet(c), NEW v \in Nat,
         NEW f, FrameFits(c, v, f), NEW a \in f.left,
         NEW n, n = Value(c, v)[{}][a], n # Error
  PROVE  FrameFits(c, v, [cell |-> f.cell, left |-> f.left \ {a}, sum |-> f.sum + n])
<1> DEFINE V == Value(c, v)[{}]
           deps == Dependencies(c[f.cell])
           done == deps \ f.left
           more == deps \ (f.left \ {a})
           h == [d \in more |-> V[d]]
           g == [cell |-> f.cell, left |-> f.left \ {a}, sum |-> f.sum + n]
<1>1. /\ f \in Frames /\ f.cell \in DOMAIN c /\ IsFormula(c[f.cell]) /\ f.left \subseteq deps
      /\ \A d \in done : V[d] # Error
      /\ f.sum = Total([d \in done |-> V[d]])
  BY DEF FrameFits
<1>2. /\ f.cell \in Addresses /\ f.left \in SUBSET Addresses /\ f.sum \in Nat
  BY <1>1 DEF Frames
<1>3. deps \subseteq Addresses /\ IsFiniteSet(deps)
  BY <1>1, DependenciesOnSheet DEF IsSheet
<1>4. \A d \in Addresses : V[d] \in Nat \cup {Error}
  BY ValueType
<1> HIDE DEF V, deps
<1>5. a \in Addresses /\ V[a] = n /\ n \in Nat
  BY <1>2, <1>4 DEF V
<1>6. /\ more \in SUBSET deps /\ a \in more
      /\ more \ {a} = done
      /\ \A d \in more : V[d] # Error
  BY <1>1, <1>5
<1>7. IsFiniteSet(more) /\ \A d \in more : V[d] \in Nat
  BY <1>3, <1>4, <1>6, FS_Subset
<1>8. DOMAIN h = more /\ h[a] = n /\ \A d \in DOMAIN h : h[d] \in Nat
  BY <1>5, <1>6, <1>7
<1>9. [e \in DOMAIN h \ {a} |-> h[e]] = [d \in done |-> V[d]]
  BY <1>6
<1>10. Total(h) = n + f.sum
  <2> HIDE DEF h, more, done
  <2>1. Total(h) = h[a] + Total([e \in DOMAIN h \ {a} |-> h[e]])
    BY <1>6, <1>7, <1>8, TotalFacts
  <2> QED
    BY <2>1, <1>1, <1>8, <1>9
<1>11. g.cell = f.cell /\ g.left = f.left \ {a} /\ g.sum = f.sum + n
  OBVIOUS
<1>12. g \in Frames
  <2>1. f.left \ {a} \in SUBSET Addresses /\ f.sum + n \in Nat
    BY <1>2, <1>5
  <2> QED
    BY <2>1, <1>2 DEF Frames
<1>13. g.sum = Total(h)
  <2> HIDE DEF h, g
  <2> QED
    BY <1>2, <1>5, <1>10, <1>11
<1>14. g.left \subseteq deps
  BY <1>1
<1>15. deps \ g.left = more
  OBVIOUS
<1>16. /\ \A d \in deps \ g.left : V[d] # Error
       /\ g.sum = Total([d \in deps \ g.left |-> V[d]])
  <2> HIDE DEF more, g
  <2> QED
    BY <1>6, <1>13, <1>15
<1> HIDE DEF g
<1>17. FrameFits(c, v, g)
  BY <1>1, <1>11, <1>12, <1>14, <1>16 DEF FrameFits, deps, V
<1> QED
  BY <1>17 DEF g

\* A formula just begun was given nothing.
LEMMA FrameBegun ==
  ASSUME NEW c, IsSheet(c), NEW v \in Nat,
         NEW a \in DOMAIN c, IsFormula(c[a])
  PROVE  FrameFits(c, v, [cell |-> a, left |-> Dependencies(c[a]), sum |-> 0])
<1> DEFINE deps == Dependencies(c[a])
           h == [d \in deps \ deps |-> Value(c, v)[{}][d]]
           g == [cell |-> a, left |-> deps, sum |-> 0]
<1>1. deps \subseteq Addresses /\ a \in Addresses
  BY DependenciesOnSheet DEF IsSheet
<1>2. DOMAIN h = {} /\ IsFiniteSet({})
  BY FS_EmptySet
<1>3. Total(h) = 0
  <2> HIDE DEF h
  <2> QED
    BY <1>2, TotalFacts
<1>4. g \in Frames /\ g.cell = a /\ g.left = deps /\ g.sum = 0
  BY <1>1 DEF Frames
<1> HIDE DEF g
<1>5. FrameFits(c, v, g)
  BY <1>3, <1>4 DEF FrameFits
<1> QED
  BY <1>5 DEF g

\* A formula that was given everything has its value.
LEMMA FrameDone ==
  ASSUME NEW c, IsSheet(c), NEW v \in Nat,
         NEW f, FrameFits(c, v, f), f.left = {}
  PROVE  /\ Value(c, v)[{}][f.cell] # Error
         /\ Value(c, v)[{}][f.cell] = f.sum + Memory(c[f.cell], v)
<1> DEFINE deps == Dependencies(c[f.cell])
<1>1. f.cell \in DOMAIN c /\ IsFormula(c[f.cell])
  BY DEF FrameFits
<1>2. deps \ f.left = deps
  OBVIOUS
<1>3. /\ \A d \in deps : Value(c, v)[{}][d] # Error
      /\ f.sum = Total([d \in deps |-> Value(c, v)[{}][d]])
  BY <1>2 DEF FrameFits
<1> QED
  BY <1>1, <1>3, FormulaFromCells

\* What is asked for by a formula of the stack that has a value on its path is not
\* on that path. So a circle shows that the first formula begun has no value.
LEMMA CircleShows ==
  ASSUME NEW c, IsSheet(c), NEW v \in Nat,
         NEW s, StackFits(c, v, s), s # <<>>,
         NEW a \in s[Len(s)].left, a \in {s[i].cell : i \in DOMAIN s}
  PROVE  s[1].cell \in DOMAIN c /\ Value(c, v)[{}][s[1].cell] = Error
<1> DEFINE n == Len(s)
           f == s[n]
           path == Before(s, n)
           longer == path \cup {f.cell}
<1>1. s \in Seq(Frames) /\ n \in Nat /\ n # 0 /\ DOMAIN s = 1..n
  BY DEF StackFits
<1>2. \A i \in 1..n : FrameFits(c, v, s[i]) /\ s[i].cell \in DOMAIN c /\ s[i].cell \in Addresses
  BY <1>1 DEF StackFits, FrameFits, IsSheet
<1>3. 1 \in 1..n /\ n \in 1..n
  BY <1>1
<1>4. /\ f.cell \in DOMAIN c /\ IsFormula(c[f.cell])
      /\ a \in Dependencies(c[f.cell]) /\ a \in Addresses
      /\ Dependencies(c[f.cell]) \subseteq Addresses
  <2>1. FrameFits(c, v, f)
    BY <1>2, <1>3
  <2>2. f.cell \in DOMAIN c /\ IsFormula(c[f.cell]) /\ f.left \subseteq Dependencies(c[f.cell])
    BY <2>1 DEF FrameFits
  <2> QED
    BY <2>2, DependenciesOnSheet DEF IsSheet
<1>5. path \in SUBSET Addresses /\ longer \in SUBSET Addresses
  BY <1>1, <1>2, <1>3 DEF Before
<1>6. a \in longer
  <2>1. PICK i \in 1..n : a = s[i].cell
    BY <1>1
  <2>2. i \in 1..n - 1 \/ i = n
    <3> HIDE DEF n
    <3> QED
      BY <1>1
  <2> QED
    BY <2>1, <2>2 DEF Before
<1>7. Value(c, v)[longer][a] = Error
  <2> HIDE DEF longer
  <2>1. Value(c, v)[longer][a] = Worked(c, v, Value(c, v), longer, a)
    BY <1>4, <1>5, ValueUnfolds
  <2> QED
    BY <2>1, <1>6 DEF Worked
<1>8. Value(c, v)[path][f.cell] = Error
  <2> SUFFICES ASSUME Value(c, v)[path][f.cell] # Error
               PROVE  FALSE
    OBVIOUS
  <2>1. longer = path \cup {f.cell}
    OBVIOUS
  <2> HIDE DEF longer, path, f
  <2>2. \A d \in Dependencies(c[f.cell]) : Value(c, v)[longer][d] # Error
    BY <2>1, <1>4, <1>5, FormulaNeeds
  <2> QED
    BY <2>2, <1>4, <1>7
<1>9. Value(c, v)[{}][s[1].cell] # Error => Value(c, v)[path][f.cell] # Error
  BY <1>1, <1>3 DEF StackFits, NoCircleYet
<1> QED
  BY <1>2, <1>3, <1>8, <1>9

-----------------------------------------------------------------------------
(***************************************************************************)
(* The stack of a pass.                                                    *)
(***************************************************************************)

\* What a formula's path is depends on the cells below it.
LEMMA BeforeSame ==
  ASSUME NEW s, NEW t, NEW m \in Nat, \A j \in 1..m : t[j].cell = s[j].cell,
         NEW i \in 1..m + 1
  PROVE  Before(t, i) = Before(s, i)
<1>1. \A j \in 1..i - 1 : t[j].cell = s[j].cell
  OBVIOUS
<1> QED
  BY <1>1 DEF Before

\* The indices of a stack.
LEMMA StackFacts ==
  ASSUME NEW s \in Seq(Frames)
  PROVE  /\ Len(s) \in Nat
         /\ DOMAIN s = 1..Len(s)
         /\ \A i \in 1..Len(s) : s[i] \in Frames
         /\ s # <<>> => Len(s) \in 1..Len(s) /\ 1 \in 1..Len(s) /\ Len(s) - 1 \in Nat
  OBVIOUS

\* Without its top, a stack fits as before.
LEMMA RestFits ==
  ASSUME NEW c, NEW v, NEW s, StackFits(c, v, s), s # <<>>
  PROVE  /\ StackFits(c, v, Rest(s))
         /\ Len(Rest(s)) = Len(s) - 1
         /\ \A i \in 1..Len(s) - 1 : Rest(s)[i] = s[i]
<1> DEFINE t == Rest(s)
<1>1. s \in Seq(Frames)
  BY DEF StackFits
<1>2. /\ t \in Seq(Frames)
      /\ Len(t) = Len(s) - 1
      /\ \A i \in 1..Len(s) - 1 : t[i] = s[i]
  BY <1>1 DEF Rest
<1>3. Len(s) \in Nat /\ DOMAIN s = 1..Len(s) /\ Len(t) \in Nat /\ DOMAIN t = 1..Len(t)
  BY <1>1, <1>2, StackFacts
<1> HIDE DEF t
<1>4. \A i \in DOMAIN t : i \in DOMAIN s /\ t[i] = s[i]
  BY <1>2, <1>3
<1>5. \A i \in DOMAIN t : FrameFits(c, v, t[i])
  BY <1>4 DEF StackFits
<1>6. Chained(t)
  <2>1. ASSUME NEW i \in 1..Len(t) - 1
        PROVE  t[i + 1].cell \in t[i].left
    <3>1. i \in 1..Len(s) - 1 /\ i \in DOMAIN t /\ i + 1 \in DOMAIN t
      BY <1>2, <1>3
    <3>2. s[i + 1].cell \in s[i].left
      BY <3>1 DEF StackFits, Chained
    <3> QED
      BY <3>1, <3>2, <1>4
  <2> QED
    BY <2>1 DEF Chained
<1>7. OnceOnPath(t)
  BY <1>4 DEF StackFits, OnceOnPath
<1>8. NoCircleYet(c, v, t)
  <2> SUFFICES ASSUME t # <<>>, Value(c, v)[{}][t[1].cell] # Error,
                      NEW i \in DOMAIN t
               PROVE  Value(c, v)[Before(t, i)][t[i].cell] # Error
    BY DEF NoCircleYet
  <2>1. 1 \in DOMAIN t
    BY <1>2, <1>3, StackFacts
  <2>2. Value(c, v)[{}][s[1].cell] # Error
    BY <2>1, <1>4
  <2>3. Value(c, v)[Before(s, i)][s[i].cell] # Error
    BY <2>2, <1>4 DEF StackFits, NoCircleYet
  <2>4. Before(t, i) = Before(s, i)
    <3>1. \A j \in 1..Len(t) : t[j].cell = s[j].cell
      BY <1>3, <1>4
    <3>2. i \in 1..Len(t) + 1
      BY <1>3
    <3> QED
      BY <1>3, <3>1, <3>2, BeforeSame
  <2> QED
    BY <2>3, <2>4, <1>4
<1>9. StackFits(c, v, t)
  BY <1>2, <1>5, <1>6, <1>7, <1>8 DEF StackFits
<1> QED
  BY <1>2, <1>9 DEF t

\* A formula begun, given n for a.
Given(f, a, n) == [cell |-> f.cell, left |-> f.left \ {a}, sum |-> f.sum + n]

\* A stack still fits when its top is given a right value it waits for.
LEMMA AnsweredFits ==
  ASSUME NEW c, IsSheet(c), NEW v \in Nat,
         NEW s, StackFits(c, v, s), s # <<>>,
         NEW a \in s[Len(s)].left,
         NEW n, n = Value(c, v)[{}][a], n # Error,
         NEW t, t = [s EXCEPT ![Len(s)] = Given(s[Len(s)], a, n)]
  PROVE  /\ StackFits(c, v, t)
         /\ DOMAIN t = DOMAIN s
         /\ \A i \in DOMAIN s : t[i].cell = s[i].cell
<1> DEFINE m == Len(s)
<1>1. /\ s \in Seq(Frames) /\ m \in Nat /\ DOMAIN s = 1..m /\ m \in 1..m /\ 1 \in 1..m
      /\ \A i \in 1..m : FrameFits(c, v, s[i])
  BY StackFacts DEF StackFits
<1>2. FrameFits(c, v, Given(s[m], a, n))
  BY <1>1, FrameAnswered DEF Given
<1>3. Given(s[m], a, n) \in Frames
  BY <1>2 DEF FrameFits
<1>4. Given(s[m], a, n).cell = s[m].cell
  BY DEF Given
<1>5. t \in Seq(Frames) /\ Len(t) = m
  BY <1>1, <1>3
<1>6. DOMAIN t = 1..m /\ t[m] = Given(s[m], a, n) /\ \A i \in 1..m : i # m => t[i] = s[i]
  BY <1>1
<1> HIDE DEF m
<1>7. \A i \in 1..m : FrameFits(c, v, t[i]) /\ t[i].cell = s[i].cell
  BY <1>1, <1>2, <1>4, <1>6
<1>8. Chained(t)
  <2>1. ASSUME NEW i \in 1..m - 1
        PROVE  t[i + 1].cell \in t[i].left
    <3>1. i \in 1..m /\ i + 1 \in 1..m /\ i # m
      BY <1>1
    <3>2. s[i + 1].cell \in s[i].left
      BY DEF StackFits, Chained, m
    <3>3. t[i] = s[i] /\ t[i + 1].cell = s[i + 1].cell
      BY <3>1, <1>6, <1>7
    <3> QED
      BY <3>2, <3>3
  <2> QED
    BY <2>1, <1>5 DEF Chained
<1>9. OnceOnPath(t)
  BY <1>1, <1>6, <1>7 DEF StackFits, OnceOnPath
<1>10. NoCircleYet(c, v, t)
  <2> SUFFICES ASSUME Value(c, v)[{}][t[1].cell] # Error,
                      NEW i \in DOMAIN t
               PROVE  Value(c, v)[Before(t, i)][t[i].cell] # Error
    BY DEF NoCircleYet
  <2>1. i \in DOMAIN s /\ t[i].cell = s[i].cell /\ t[1].cell = s[1].cell
    BY <1>1, <1>6, <1>7
  <2>2. Value(c, v)[Before(s, i)][s[i].cell] # Error
    BY <2>1 DEF StackFits, NoCircleYet
  <2>3. Before(t, i) = Before(s, i)
    <3>1. m \in Nat /\ i \in 1..m + 1
      BY <1>1, <1>6
    <3>2. \A j \in 1..m : t[j].cell = s[j].cell
      BY <1>7
    <3> QED
      <4>1. \A j \in 1..i - 1 : t[j].cell = s[j].cell
        BY <3>1, <3>2
      <4> QED
        BY <4>1 DEF Before
  <2> QED
    BY <2>1, <2>2, <2>3
<1>11. StackFits(c, v, t)
  BY <1>5, <1>6, <1>7, <1>8, <1>9, <1>10 DEF StackFits
<1> QED
  BY <1>1, <1>6, <1>7, <1>11

\* A formula not on the path, asked for by the top, is begun.
LEMMA BegunFits ==
  ASSUME NEW c, IsSheet(c), NEW v \in Nat,
         NEW s, StackFits(c, v, s),
         NEW a \in DOMAIN c, IsFormula(c[a]),
         a \notin {s[i].cell : i \in DOMAIN s},
         s # <<>> => a \in s[Len(s)].left,
         NEW f, f = [cell |-> a, left |-> Dependencies(c[a]), sum |-> 0]
  PROVE  StackFits(c, v, Append(s, f))
<1> DEFINE m == Len(s)
           t == Append(s, f)
           n == m + 1
<1>1. /\ s \in Seq(Frames) /\ m \in Nat /\ DOMAIN s = 1..m
      /\ \A i \in 1..m : FrameFits(c, v, s[i])
  BY StackFacts DEF StackFits
<1>2. FrameFits(c, v, f) /\ f.cell = a
  BY FrameBegun
<1>3. f \in Frames
  BY <1>2 DEF FrameFits
<1>4. t \in Seq(Frames) /\ Len(t) = n /\ DOMAIN t = 1..n /\ t[n] = f /\ \A i \in 1..m : t[i] = s[i]
  BY <1>1, <1>3
<1>5. n \in Nat /\ \A i \in 1..n : i \in 1..m \/ i = n
  BY <1>1
<1> HIDE DEF m, n, t
<1>6. \A i \in 1..n : FrameFits(c, v, t[i])
  BY <1>1, <1>2, <1>4, <1>5
<1>7. Chained(t)
  <2>1. ASSUME NEW i \in 1..n - 1
        PROVE  t[i + 1].cell \in t[i].left
    <3>1. i \in 1..m
      BY <1>1 DEF n
    <3>2. CASE i = m
      <4>1. s # <<>> /\ t[i] = s[Len(s)] /\ t[i + 1] = f
        BY <3>1, <3>2, <1>1, <1>4 DEF n, m
      <4> QED
        BY <4>1, <1>2
    <3>3. CASE i # m
      <4>1. i \in 1..m - 1 /\ i + 1 \in 1..m
        BY <3>1, <3>3, <1>1
      <4>2. s[i + 1].cell \in s[i].left
        BY <4>1 DEF StackFits, Chained, m
      <4> QED
        BY <3>1, <4>1, <4>2, <1>4
    <3> QED
      BY <3>2, <3>3
  <2> QED
    BY <2>1, <1>4 DEF Chained
<1>8. OnceOnPath(t)
  <2>1. \A i, j \in 1..m : t[i].cell = t[j].cell => i = j
    BY <1>1, <1>4 DEF StackFits, OnceOnPath
  <2>2. \A i \in 1..m : t[i].cell # a
    BY <1>1, <1>4
  <2> QED
    BY <2>1, <2>2, <1>2, <1>4, <1>5 DEF OnceOnPath
<1>9. NoCircleYet(c, v, t)
  <2> SUFFICES ASSUME Value(c, v)[{}][t[1].cell] # Error,
                      NEW i \in 1..n
               PROVE  Value(c, v)[Before(t, i)][t[i].cell] # Error
    BY <1>4 DEF NoCircleYet
  <2>1. \A j \in 1..m : t[j].cell = s[j].cell
    BY <1>4
  <2>2. \A j \in 1..n : Before(t, j) = Before(s, j)
    BY <2>1, <1>1, BeforeSame DEF n
  <2>3. CASE s = <<>>
    <3>1. i = 1 /\ n = 1
      BY <2>3, <1>1, <1>5 DEF m, n
    <3>2. Before(t, i) = {}
      BY <3>1 DEF Before
    <3> QED
      BY <3>1, <3>2
  <2>4. CASE s # <<>>
    <3>1. m \in 1..m /\ 1 \in 1..m
      BY <2>4, <1>1, StackFacts DEF m
    <3>2. \A j \in 1..m : Value(c, v)[Before(s, j)][s[j].cell] # Error
      BY <2>4, <3>1, <1>1, <1>4 DEF StackFits, NoCircleYet
    <3>3. CASE i \in 1..m
      BY <3>2, <3>3, <2>1, <2>2
    <3>4. CASE i = n
      <4> DEFINE path == Before(s, m)
                 longer == Before(s, n)
                 b == s[m].cell
      <4>1. longer = path \cup {b}
        BY <3>1, <1>1 DEF Before, n
      <4>2. /\ b \in DOMAIN c /\ IsFormula(c[b])
            /\ a \in Dependencies(c[b])
        <5>1. FrameFits(c, v, s[m]) /\ a \in s[m].left
          BY <3>1, <1>1, <2>4 DEF m
        <5> QED
          BY <5>1 DEF FrameFits
      <4>3. path \in SUBSET Addresses
        <5>1. \A j \in 1..m : s[j].cell \in Addresses
          BY <1>1 DEF FrameFits, IsSheet
        <5> QED
          BY <5>1, <1>1 DEF Before
      <4>4. Value(c, v)[path][b] # Error
        BY <3>1, <3>2
      <4> HIDE DEF path, longer, b
      <4>5. \A d \in Dependencies(c[b]) : Value(c, v)[longer][d] # Error
        BY <4>1, <4>2, <4>3, <4>4, FormulaNeeds
      <4>6. Value(c, v)[longer][a] # Error
        BY <4>2, <4>5
      <4>7. t[i].cell = a /\ Before(t, i) = longer
        BY <3>4, <1>2, <1>4, <2>2 DEF longer
      <4> QED
        BY <4>6, <4>7
    <3> QED
      BY <3>3, <3>4, <1>5
  <2> QED
    BY <2>3, <2>4
<1>10. StackFits(c, v, t)
  BY <1>4, <1>6, <1>7, <1>8, <1>9 DEF StackFits
<1> QED
  BY <1>10 DEF t

-----------------------------------------------------------------------------
(***************************************************************************)
(* The steps of a pass.                                                    *)
(***************************************************************************)

\* A value that was worked out joins those found.
LEMMA RememberFinds ==
  ASSUME NEW c, NEW v, NEW known, Found(c, v, known), IsFiniteSet(DOMAIN c),
         NEW a \in DOMAIN c, a \notin DOMAIN known,
         NEW n, n = Value(c, v)[{}][a], n # Error,
         NEW more, more = [b \in DOMAIN known \cup {a} |-> IF b = a THEN n ELSE known[b]]
  PROVE  /\ Found(c, v, more)
         /\ DOMAIN more = DOMAIN known \cup {a}
         /\ Cardinality(DOMAIN known) \in Nat
         /\ Cardinality(DOMAIN more) = Cardinality(DOMAIN known) + 1
<1>1. DOMAIN more = DOMAIN known \cup {a}
  OBVIOUS
<1>2. /\ DOMAIN known \subseteq DOMAIN c
      /\ \A b \in DOMAIN known : known[b] = Value(c, v)[{}][b] /\ known[b] # Error
  BY DEF Found
<1>3. IsFiniteSet(DOMAIN known)
  BY <1>2, FS_Subset
<1>4. /\ Cardinality(DOMAIN known) \in Nat
      /\ Cardinality(DOMAIN more) = Cardinality(DOMAIN known) + 1
  BY <1>1, <1>3, FS_CardinalityType, FS_AddElement
<1>5. Found(c, v, more)
  <2>1. more = [b \in DOMAIN more |-> more[b]]
    BY <1>1
  <2>2. \A b \in DOMAIN more : more[b] = Value(c, v)[{}][b] /\ more[b] # Error
    BY <1>1, <1>2
  <2>3. DOMAIN more \subseteq DOMAIN c
    BY <1>1, <1>2
  <2> QED
    BY <2>1, <2>2, <2>3 DEF Found
<1> QED
  BY <1>1, <1>4, <1>5

\* So is a sheet.
LEMMA SheetFinite ==
  ASSUME NEW c, IsSheet(c)
  PROVE  IsFiniteSet(DOMAIN c)
  BY AddressesFinite, FS_Subset DEF IsSheet

\* _value returns the right value for a to a caller that waits for it.
LEMMA ReturnKeeps ==
  ASSUME PassInv, ~raised, candidate' = candidate, memory' = memory, raised' = raised,
         Found(candidate, memory, calculated'),
         DOMAIN calculated \subseteq DOMAIN calculated',
         evaluated' = Cardinality(DOMAIN calculated'),
         NEW s, StackFits(candidate, memory, s), NotFoundYet(s, calculated'),
         NEW a, a \in DOMAIN candidate => a \in DOMAIN calculated',
         s # <<>> => a \in s[Len(s)].left,
         NEW n, n = Value(candidate, memory)[{}][a], n # Error,
         Return(s, a, n)
  PROVE  PassInv'
<1>1. /\ StackFits(candidate, memory, stack')
      /\ NotFoundYet(stack', calculated')
      /\ pending' \subseteq pending /\ pending \subseteq pending' \cup {a}
  <2>1. CASE s = <<>>
    BY <2>1 DEF Return
  <2>2. CASE s # <<>>
    <3>1. stack' = [s EXCEPT ![Len(s)] = Given(s[Len(s)], a, n)] /\ pending' = pending
      BY <2>2 DEF Return, Given
    <3>2. IsSheet(candidate) /\ memory \in Nat
      BY DEF PassInv
    <3> DEFINE t == [s EXCEPT ![Len(s)] = Given(s[Len(s)], a, n)]
    <3>3. /\ StackFits(candidate, memory, t)
          /\ DOMAIN t = DOMAIN s
          /\ \A i \in DOMAIN s : t[i].cell = s[i].cell
      BY <2>2, <3>2, AnsweredFits
    <3> HIDE DEF t
    <3>4. NotFoundYet(t, calculated')
      BY <3>3 DEF NotFoundYet
    <3>5. stack' = t
      BY <3>1 DEF t
    <3> QED
      BY <3>1, <3>3, <3>4, <3>5
  <2> QED
    BY <2>1, <2>2
<1>2. DOMAIN candidate \ pending' \subseteq DOMAIN calculated'
  BY <1>1 DEF PassInv
<1>3. pending' \subseteq DOMAIN candidate
  BY <1>1 DEF PassInv
<1> QED
  BY <1>1, <1>2, <1>3 DEF PassInv

\* _value raises for a cell of the sheet that has no value.
LEMMA RaiseKeeps ==
  ASSUME PassInv, Raise,
         NEW a \in DOMAIN candidate, Value(candidate, memory)[{}][a] = Error
  PROVE  PassInv'
  BY DEF PassInv, Raise

\* What is asked for is on the sheet.
LEMMA WantedOnSheet ==
  ASSUME PassInv, NEW a \in Wanted
  PROVE  /\ a \in Addresses
         /\ stack # <<>> => a \in stack[Len(stack)].left
<1>1. CASE stack = <<>>
  BY <1>1 DEF Wanted, PassInv, IsSheet
<1>2. CASE stack # <<>>
  <2>1. stack \in Seq(Frames)
    BY DEF PassInv, StackFits
  <2>2. stack[Len(stack)] \in Frames
    BY <1>2, <2>1, StackFacts
  <2>3. a \in stack[Len(stack)].left
    BY <1>2 DEF Wanted, Top
  <2> QED
    BY <2>2, <2>3 DEF Frames
<1> QED
  BY <1>1, <1>2

\* Reuse: a value found before is right.
LEMMA ReuseKeeps ==
  ASSUME PassInv, NEW a \in Wanted, Reuse(a)
  PROVE  PassInv'
<1>1. /\ calculated[a] = Value(candidate, memory)[{}][a] /\ calculated[a] # Error
      /\ a \in DOMAIN calculated
  BY DEF Reuse, PassInv, Found
<1>2. /\ ~raised /\ candidate' = candidate /\ memory' = memory /\ raised' = raised
      /\ calculated' = calculated /\ evaluated' = evaluated
      /\ Return(stack, a, calculated[a])
  BY DEF Reuse, Asked
<1>3. /\ Found(candidate, memory, calculated') /\ evaluated' = Cardinality(DOMAIN calculated')
      /\ StackFits(candidate, memory, stack) /\ NotFoundYet(stack, calculated')
      /\ DOMAIN calculated \subseteq DOMAIN calculated'
  BY <1>2 DEF PassInv
<1>4. stack # <<>> => a \in stack[Len(stack)].left
  BY WantedOnSheet
<1> QED
  BY <1>1, <1>2, <1>3, <1>4, ReturnKeeps

\* Circle: a circle shows a cell without a value.
LEMMA CircleKeeps ==
  ASSUME PassInv, NEW a \in Wanted, Circle(a)
  PROVE  PassInv'
<1>1. a \in {stack[i].cell : i \in DOMAIN stack} /\ Raise
  BY DEF Circle, Path
<1>2. stack # <<>>
  BY <1>1
<1>3. a \in stack[Len(stack)].left
  BY <1>2, WantedOnSheet
<1>4. IsSheet(candidate) /\ memory \in Nat /\ StackFits(candidate, memory, stack)
  BY DEF PassInv
<1>5. stack[1].cell \in DOMAIN candidate /\ Value(candidate, memory)[{}][stack[1].cell] = Error
  BY <1>1, <1>2, <1>3, <1>4, CircleShows
<1> QED
  BY <1>1, <1>5, RaiseKeeps

\* Blank: a cell without a text is worth nothing, and is not remembered.
LEMMA BlankKeeps ==
  ASSUME PassInv, NEW a \in Wanted, Blank(a)
  PROVE  PassInv'
<1>1. /\ ~raised /\ candidate' = candidate /\ memory' = memory /\ raised' = raised
      /\ calculated' = calculated /\ evaluated' = evaluated
      /\ Return(stack, a, 0) /\ a \notin DOMAIN candidate
  BY DEF Blank, Fresh, Asked, Remember
<1>2. /\ a \in Addresses
      /\ stack # <<>> => a \in stack[Len(stack)].left
  BY WantedOnSheet
<1>3. 0 = Value(candidate, memory)[{}][a] /\ 0 # Error
  <2>1. Value(candidate, memory)[{}][a] = Worked(candidate, memory, Value(candidate, memory), {}, a)
    BY <1>2, ValueUnfolds DEF PassInv
  <2> QED
    BY <2>1, <1>1, SpreadsheetAssumption DEF Worked
<1>4. /\ Found(candidate, memory, calculated') /\ evaluated' = Cardinality(DOMAIN calculated')
      /\ StackFits(candidate, memory, stack) /\ NotFoundYet(stack, calculated')
      /\ DOMAIN calculated \subseteq DOMAIN calculated'
  BY <1>1 DEF PassInv
<1> QED
  BY <1>1, <1>2, <1>3, <1>4, ReturnKeeps

\* The value of a cell that has a text and no formula is that of the text.
LEMMA ConstantIsRight ==
  ASSUME NEW c, IsSheet(c), NEW v, NEW a \in DOMAIN c, ~IsFormula(c[a])
  PROVE  Value(c, v)[{}][a] = c[a].value
<1>1. a \in Addresses
  BY DEF IsSheet
<1>2. Value(c, v)[{}][a] = Worked(c, v, Value(c, v), {}, a)
  BY <1>1, ValueUnfolds
<1> QED
  BY <1>2 DEF Worked

\* Constant: a text that is no formula is worth what it says.
LEMMA ConstantKeeps ==
  ASSUME PassInv, NEW a \in Wanted, Constant(a)
  PROVE  PassInv'
<1> DEFINE n == candidate[a].value
<1>1. /\ ~raised /\ candidate' = candidate /\ memory' = memory /\ raised' = raised
      /\ a \notin DOMAIN calculated /\ a \in DOMAIN candidate /\ ~IsFormula(candidate[a])
      /\ calculated' = [b \in DOMAIN calculated \cup {a} |-> IF b = a THEN n ELSE calculated[b]] /\ evaluated' = evaluated + 1
      /\ Return(stack, a, n) /\ n # Error
  BY Zenon DEF Constant, Fresh, Asked, Remember, Stored
<1>2. n = Value(candidate, memory)[{}][a]
  BY <1>1, ConstantIsRight DEF PassInv
<1> HIDE DEF n
<1>3. Found(candidate, memory, calculated) /\ IsFiniteSet(DOMAIN candidate)
  BY SheetFinite DEF PassInv
<1>4. /\ Found(candidate, memory, calculated')
      /\ DOMAIN calculated' = DOMAIN calculated \cup {a}
      /\ Cardinality(DOMAIN calculated') = Cardinality(DOMAIN calculated) + 1
  BY <1>1, <1>2, <1>3, RememberFinds
<1>5. evaluated' = Cardinality(DOMAIN calculated')
  BY <1>1, <1>4 DEF PassInv
<1>6. StackFits(candidate, memory, stack) /\ NotFoundYet(stack, calculated')
  <2>1. \A i \in DOMAIN stack : IsFormula(candidate[stack[i].cell])
    BY DEF PassInv, StackFits, FrameFits
  <2> QED
    BY <2>1, <1>1, <1>4 DEF PassInv, NotFoundYet
<1>7. stack # <<>> => a \in stack[Len(stack)].left
  BY WantedOnSheet
<1> QED
  BY <1>1, <1>2, <1>4, <1>5, <1>6, <1>7, ReturnKeeps

\* Unreadable: a text that cannot be read has no value.
LEMMA UnreadableKeeps ==
  ASSUME PassInv, NEW a \in Wanted, Unreadable(a)
  PROVE  PassInv'
<1>1. a \in DOMAIN candidate /\ ~IsFormula(candidate[a]) /\ candidate[a].value = Error /\ Raise
  BY DEF Unreadable
<1>2. Value(candidate, memory)[{}][a] = Error
  BY <1>1, ConstantIsRight DEF PassInv
<1> QED
  BY <1>1, <1>2, RaiseKeeps

\* Enter: a formula is begun, with all it depends on to ask for.
LEMMA EnterKeeps ==
  ASSUME PassInv, NEW a \in Wanted, Enter(a)
  PROVE  PassInv'
<1> DEFINE f == [cell |-> a, left |-> Dependencies(candidate[a]), sum |-> 0]
<1>1. /\ a \in DOMAIN candidate /\ IsFormula(candidate[a])
      /\ a \notin {stack[i].cell : i \in DOMAIN stack} /\ a \notin DOMAIN calculated
      /\ stack' = Append(stack, f)
      /\ UNCHANGED <<candidate, memory, pending, calculated, evaluated, raised>>
  BY DEF Enter, Fresh, Path
<1>2. stack # <<>> => a \in stack[Len(stack)].left
  BY WantedOnSheet
<1>3. StackFits(candidate, memory, stack')
  <2>1. IsSheet(candidate) /\ memory \in Nat /\ StackFits(candidate, memory, stack)
    BY DEF PassInv
  <2>2. StackFits(candidate, memory, Append(stack, f))
    BY <1>1, <1>2, <2>1, BegunFits
  <2> QED
    BY <1>1, <2>2
<1>4. NotFoundYet(stack', calculated)
  <2>1. stack \in Seq(Frames) /\ NotFoundYet(stack, calculated)
    BY DEF PassInv, StackFits
  <2>2. /\ DOMAIN Append(stack, f) = 1..Len(stack) + 1
        /\ Append(stack, f)[Len(stack) + 1] = f
        /\ \A i \in 1..Len(stack) : i \in DOMAIN stack /\ Append(stack, f)[i] = stack[i]
    BY <2>1
  <2>3. f.cell = a
    OBVIOUS
  <2>4. Len(stack) \in Nat
    BY <2>1
  <2> HIDE DEF f
  <2>5. \A i \in 1..Len(stack) + 1 : Append(stack, f)[i].cell \notin DOMAIN calculated
    BY <2>1, <2>2, <2>3, <2>4, <1>1 DEF NotFoundYet
  <2> QED
    BY <2>2, <2>5, <1>1 DEF NotFoundYet
<1> QED
  BY <1>1, <1>3, <1>4 DEF PassInv

\* Leave: a formula is done when it was given everything.
LEMMA LeaveKeeps ==
  ASSUME PassInv, Leave
  PROVE  PassInv'
<1> DEFINE m == Len(stack)
           f == stack[m]
           a == f.cell
           n == f.sum + Memory(candidate[a], memory)
           s == Rest(stack)
<1>1. /\ ~raised /\ candidate' = candidate /\ memory' = memory /\ raised' = raised
      /\ stack # <<>> /\ f.left = {}
      /\ Remember(a, n) /\ Return(s, a, n)
  BY Zenon DEF Leave, Top, Memory
<1>2. /\ stack \in Seq(Frames) /\ m \in Nat /\ DOMAIN stack = 1..m /\ m \in 1..m
      /\ IsSheet(candidate) /\ memory \in Nat /\ StackFits(candidate, memory, stack)
      /\ \A i \in 1..m : FrameFits(candidate, memory, stack[i])
  BY <1>1, StackFacts DEF PassInv, StackFits
<1>3. n = Value(candidate, memory)[{}][a] /\ n # Error
  BY <1>1, <1>2, FrameDone
<1>4. a \in DOMAIN candidate /\ a \notin DOMAIN calculated
  BY <1>2 DEF PassInv, NotFoundYet, FrameFits
<1>5. calculated' = [b \in DOMAIN calculated \cup {a} |-> IF b = a THEN n ELSE calculated[b]] /\ evaluated' = evaluated + 1
  <2> HIDE DEF a, n
  <2> QED
    BY <1>1, <1>4 DEF Remember, Stored
<1> HIDE DEF n
<1>6. Found(candidate, memory, calculated) /\ IsFiniteSet(DOMAIN candidate)
  BY SheetFinite DEF PassInv
<1>7. /\ Found(candidate, memory, calculated')
      /\ DOMAIN calculated' = DOMAIN calculated \cup {a}
      /\ Cardinality(DOMAIN calculated') = Cardinality(DOMAIN calculated) + 1
  <2> HIDE DEF a
  <2>1. calculated' = [b \in DOMAIN calculated \cup {a} |-> IF b = a THEN n ELSE calculated[b]]
    BY <1>5
  <2>2. n = Value(candidate, memory)[{}][a] /\ n # Error
    BY <1>3
  <2> QED
    BY <2>1, <2>2, <1>4, <1>6, RememberFinds
<1>8. evaluated' = Cardinality(DOMAIN calculated')
  BY <1>5, <1>7 DEF PassInv
<1>9. /\ StackFits(candidate, memory, s)
      /\ Len(s) = m - 1
      /\ \A i \in 1..m - 1 : s[i] = stack[i]
  BY <1>1, <1>2, RestFits
<1>10. s \in Seq(Frames) /\ DOMAIN s = 1..m - 1
  BY <1>9, StackFacts DEF StackFits
<1> HIDE DEF s
<1>11. NotFoundYet(s, calculated')
  <2>1. ASSUME NEW i \in 1..m - 1
        PROVE  s[i].cell \notin DOMAIN calculated'
    <3>1. i \in 1..m /\ i # m /\ s[i] = stack[i]
      <4> HIDE DEF m
      <4>1. i \in 1..m /\ i # m
        BY <1>2
      <4> QED
        BY <4>1, <1>9
    <3>2. stack[i].cell # a
      BY <3>1, <1>2 DEF StackFits, OnceOnPath
    <3>3. stack[i].cell \notin DOMAIN calculated
      BY <3>1, <1>2 DEF PassInv, NotFoundYet
    <3> QED
      BY <3>1, <3>2, <3>3, <1>7
  <2> QED
    BY <2>1, <1>10 DEF NotFoundYet
<1>12. s # <<>> => a \in s[Len(s)].left
  <2> SUFFICES ASSUME s # <<>>
               PROVE  a \in s[m - 1].left
    BY <1>9
  <2>1. m - 1 \in 1..m - 1
    BY <1>9, <1>10, StackFacts
  <2>2. stack[(m - 1) + 1].cell \in stack[m - 1].left
    BY <2>1, <1>2 DEF StackFits, Chained
  <2>3. (m - 1) + 1 = m
    BY <1>2
  <2> QED
    BY <2>1, <2>2, <2>3, <1>9
<1>13. a \in DOMAIN calculated' /\ DOMAIN calculated \subseteq DOMAIN calculated'
  BY <1>7
<1> HIDE DEF a
<1> QED
  BY <1>1, <1>3, <1>7, <1>8, <1>9, <1>11, <1>12, <1>13, ReturnKeeps

\* A pass begins with nothing found and nothing begun.
LEMMA PassStarts ==
  ASSUME NEW c \in Candidates, NEW v \in Numbers, PassInit(c, v)
  PROVE  PassInv
<1>1. IsSheet(c) /\ v \in Nat
  BY CandidateAssumption, SpreadsheetAssumption DEF IsSheet
<1>2. Found(c, v, NoValues) /\ DOMAIN NoValues = {}
  BY DEF Found, NoValues
<1>3. StackFits(c, v, <<>>) /\ NotFoundYet(<<>>, NoValues)
  BY DEF StackFits, Chained, OnceOnPath, NoCircleYet, NotFoundYet
<1> QED
  BY <1>1, <1>2, <1>3, FS_EmptySet DEF PassInit, PassInv

\* Every step of a pass keeps the invariant.
LEMMA PassStep ==
  ASSUME PassInv, [PassNext]_passVars
  PROVE  PassInv'
<1>1. ASSUME NEW a \in Wanted, Reuse(a)
      PROVE  PassInv'
  BY <1>1, ReuseKeeps
<1>2. ASSUME NEW a \in Wanted, Circle(a)
      PROVE  PassInv'
  BY <1>2, CircleKeeps
<1>3. ASSUME NEW a \in Wanted, Blank(a)
      PROVE  PassInv'
  BY <1>3, BlankKeeps
<1>4. ASSUME NEW a \in Wanted, Constant(a)
      PROVE  PassInv'
  BY <1>4, ConstantKeeps
<1>5. ASSUME NEW a \in Wanted, Unreadable(a)
      PROVE  PassInv'
  BY <1>5, UnreadableKeeps
<1>6. ASSUME NEW a \in Wanted, Enter(a)
      PROVE  PassInv'
  BY <1>6, EnterKeeps
<1>7. CASE Leave
  BY <1>7, LeaveKeeps
<1>8. CASE UNCHANGED passVars
  BY <1>8 DEF passVars, PassInv
<1> QED
  BY <1>1, <1>2, <1>3, <1>4, <1>5, <1>6, <1>7, <1>8 DEF PassNext

\* The invariant says of the end of a pass what it is for.
LEMMA PassInvIsRight == PassInv => PassIsRight
<1> SUFFICES ASSUME PassInv
             PROVE  PassIsRight
  OBVIOUS
<1> DEFINE right == Calculated(candidate, memory)
           V == Value(candidate, memory)[{}]
<1>1. \A a \in DOMAIN candidate : Evaluated(candidate, memory)[a] = V[a]
  BY DEF Evaluated
<1>2. \A a \in DOMAIN calculated : calculated[a] = V[a] /\ calculated[a] # Error
  BY DEF PassInv, Found
<1>3. raised => right = Error
  BY <1>1 DEF PassInv, Calculated
<1>4. ASSUME ~raised, pending = {}
      PROVE  /\ calculated = right
             /\ \A a \in DOMAIN candidate : calculated[a] # Error
             /\ evaluated = Cardinality(DOMAIN candidate)
  <2>1. DOMAIN calculated = DOMAIN candidate
    BY <1>4 DEF PassInv, Found
  <2>2. right = Evaluated(candidate, memory)
    BY <1>1, <1>2, <2>1 DEF Calculated
  <2>3. right = [a \in DOMAIN candidate |-> V[a]]
    BY <2>2 DEF Evaluated
  <2>4. calculated = [a \in DOMAIN calculated |-> calculated[a]]
    BY DEF PassInv, Found
  <2>5. calculated = right
    BY <1>2, <2>1, <2>3, <2>4
  <2> QED
    BY <1>2, <2>1, <2>5 DEF PassInv
<1> QED
  BY <1>2, <1>3, <1>4 DEF PassIsRight

\* It holds throughout a pass.
LEMMA AlwaysPassInv == PassSpec => []PassInv
<1>1. (\E c \in Candidates, v \in Numbers : PassInit(c, v)) => PassInv
  BY PassStarts
<1>2. PassInv /\ [PassNext]_passVars => PassInv'
  BY PassStep
<1> QED
  BY <1>1, <1>2, PTL DEF PassSpec

\* On every sheet, with any number in the memory and whatever order the cells are
\* taken in, a pass finds the values of the sheet's evaluation, each of them once, or
\* raises an error where that evaluation has one. (_value, _calculate_cache)
THEOREM PassHolds == PassSpec => []PassIsRight
  BY AlwaysPassInv, PassInvIsRight, PTL

-----------------------------------------------------------------------------
(***************************************************************************)
(* A pass comes to an end.                                                 *)
(***************************************************************************)

\* A caller that was told a value waits for one less, and nothing else changes.
LEMMA ReturnTells ==
  ASSUME PassInv, NEW a \in Wanted, NEW n, Return(stack, a, n)
  PROVE  /\ Len(stack') = Len(stack)
         /\ Path' = Path
         /\ Wanted' = Wanted \ {a}
<1>1. stack \in Seq(Frames)
  BY DEF PassInv, StackFits
<1>2. CASE stack = <<>>
  BY <1>2 DEF Return, Wanted, Path
<1>3. CASE stack # <<>>
  <2> DEFINE m == Len(stack)
             f == [cell |-> stack[m].cell, left |-> stack[m].left \ {a}, sum |-> stack[m].sum + n]
  <2>1. stack' = [stack EXCEPT ![m] = f]
    BY <1>3, Zenon DEF Return
  <2>2. m \in Nat /\ DOMAIN stack = 1..m /\ m \in 1..m
    BY <1>1, <1>3, StackFacts
  <2>3. f.cell = stack[m].cell /\ f.left = stack[m].left \ {a}
    OBVIOUS
  <2> HIDE DEF f
  <2>4. DOMAIN stack' = 1..m /\ Len(stack') = m
    BY <1>1, <2>1, <2>2
  <2>5. \A i \in 1..m : stack'[i].cell = stack[i].cell
    BY <2>1, <2>2, <2>3
  <2>6. stack'[m].left = stack[m].left \ {a}
    BY <2>1, <2>2, <2>3
  <2>7. Path' = Path
    BY <2>2, <2>4, <2>5 DEF Path
  <2>8. stack' # <<>>
    BY <2>2, <2>4
  <2> QED
    BY <1>3, <2>4, <2>6, <2>7, <2>8 DEF Wanted, Top
<1> QED
  BY <1>2, <1>3

\* A formula begun is on the path from then on.
LEMMA EnterLengthensPath ==
  ASSUME PassInv, NEW a \in Wanted, Enter(a)
  PROVE  Path' = Path \cup {a}
<1> DEFINE f == [cell |-> a, left |-> Dependencies(candidate[a]), sum |-> 0]
<1>1. stack \in Seq(Frames) /\ stack' = Append(stack, f)
  BY DEF PassInv, StackFits, Enter
<1>2. f.cell = a
  OBVIOUS
<1>3. /\ DOMAIN stack' = 1..Len(stack) + 1 /\ DOMAIN stack = 1..Len(stack)
      /\ stack'[Len(stack) + 1] = f
      /\ \A i \in 1..Len(stack) : stack'[i] = stack[i]
      /\ Len(stack) \in Nat
  BY <1>1
<1> HIDE DEF f
<1>4. Path' \subseteq Path \cup {a}
  BY <1>2, <1>3 DEF Path
<1>5. a \in Path'
  <2>1. Len(stack) + 1 \in DOMAIN stack'
    BY <1>3
  <2> QED
    BY <1>2, <1>3, <2>1 DEF Path
<1>6. Path \subseteq Path'
  <2>1. \A i \in DOMAIN stack : i \in DOMAIN stack' /\ stack'[i] = stack[i]
    BY <1>3
  <2> QED
    BY <2>1 DEF Path
<1> QED
  BY <1>4, <1>5, <1>6

\* A formula done leaves the path, and no other does.
LEMMA LeaveShortensPath ==
  ASSUME PassInv, Leave
  PROVE  /\ Len(stack') < Len(stack)
         /\ Top(stack).cell \in Path
         /\ Path' = Path \ {Top(stack).cell}
<1> DEFINE m == Len(stack)
           s == Rest(stack)
<1>1. StackFits(candidate, memory, stack) /\ stack \in Seq(Frames) /\ stack # <<>>
  BY DEF PassInv, StackFits, Leave
<1>2. m \in Nat /\ DOMAIN stack = 1..m /\ m \in 1..m
  BY <1>1, StackFacts
<1>3. /\ s \in Seq(Frames)
      /\ Len(s) = m - 1
      /\ \A i \in 1..m - 1 : s[i] = stack[i]
  BY <1>1, RestFits DEF StackFits
<1>4. DOMAIN s = 1..m - 1
  BY <1>3, StackFacts
<1>5. \E a, n : Return(s, a, n)
  BY DEF Leave
<1> HIDE DEF s
<1>6. /\ Len(stack') = m - 1 /\ DOMAIN stack' = 1..m - 1
      /\ \A i \in 1..m - 1 : stack'[i].cell = stack[i].cell
  <2>1. PICK a, n : Return(s, a, n)
    BY <1>5
  <2>2. CASE s = <<>>
    BY <2>1, <2>2, <1>3, <1>4 DEF Return
  <2>3. CASE s # <<>>
    <3> DEFINE f == [cell |-> s[Len(s)].cell, left |-> s[Len(s)].left \ {a}, sum |-> s[Len(s)].sum + n]
    <3>1. stack' = [s EXCEPT ![Len(s)] = f]
      BY <2>1, <2>3, Zenon DEF Return
    <3>2. f.cell = s[Len(s)].cell
      OBVIOUS
    <3> HIDE DEF f
    <3>3. Len(stack') = Len(s) /\ DOMAIN stack' = DOMAIN s
      BY <3>1, <1>3
    <3>4. \A i \in DOMAIN s : stack'[i].cell = s[i].cell
      BY <3>1, <3>2
    <3> QED
      BY <3>3, <3>4, <1>3, <1>4
  <2> QED
    BY <2>2, <2>3
<1> DEFINE a == stack[m].cell
<1>7. Top(stack).cell = a
  BY DEF Top
<1> HIDE DEF m
<1>8. \A i \in 1..m - 1 : i \in 1..m /\ stack[i].cell # a
  <2>1. \A i \in 1..m - 1 : i \in 1..m /\ i # m
    BY <1>2
  <2> QED
    BY <2>1, <1>1, <1>2 DEF StackFits, OnceOnPath
<1>9. \A i \in 1..m : i = m \/ i \in 1..m - 1
  BY <1>2
<1>10. a \in Path
  BY <1>2 DEF Path
<1>11. Path' = {stack'[i].cell : i \in 1..m - 1}
  BY <1>6 DEF Path
<1>12. Path = {stack[i].cell : i \in 1..m}
  BY <1>2 DEF Path
<1>13. Len(stack') < m
  BY <1>2, <1>6
<1>14. Path' = Path \ {a}
  BY <1>6, <1>8, <1>9, <1>11, <1>12
<1> QED
  BY <1>7, <1>10, <1>13, <1>14 DEF m

\* Each step of a pass leaves less to do.
LEMMA StepLeavesLess ==
  ASSUME PassInv, PassNext
  PROVE  ~raised /\ LessToDo
<1>1. ASSUME NEW a \in Wanted, Reuse(a) \/ Blank(a)
      PROVE  ~raised /\ LessToDo
  <2>1. PICK n : Return(stack, a, n)
    BY <1>1 DEF Reuse, Blank
  <2>2. ~raised /\ calculated' = calculated /\ candidate' = candidate
    BY <1>1 DEF Reuse, Blank, Fresh, Asked, Remember
  <2>3. Len(stack') = Len(stack) /\ Path' = Path /\ Wanted' = Wanted \ {a}
    BY <2>1, ReturnTells
  <2> QED
    BY <2>2, <2>3 DEF LessToDo, Unbegun
<1>2. ASSUME NEW a \in Wanted, Circle(a) \/ Unreadable(a)
      PROVE  ~raised /\ LessToDo
  BY <1>2 DEF Circle, Unreadable, Fresh, Asked, Raise, LessToDo
<1>3. ASSUME NEW a \in Wanted, Constant(a)
      PROVE  ~raised /\ LessToDo
  <2>1. PICK n : Return(stack, a, n)
    BY <1>3 DEF Constant
  <2>2. /\ ~raised /\ candidate' = candidate
        /\ a \in DOMAIN candidate /\ a \notin DOMAIN calculated /\ a \notin Path
    BY <1>3 DEF Constant, Fresh, Asked
  <2>3. DOMAIN calculated' = DOMAIN calculated \cup {a}
    BY <1>3 DEF Constant, Remember, Stored
  <2>4. Path' = Path
    BY <2>1, ReturnTells
  <2> QED
    BY <2>2, <2>3, <2>4 DEF LessToDo, Unbegun
<1>4. ASSUME NEW a \in Wanted, Enter(a)
      PROVE  ~raised /\ LessToDo
  <2>1. /\ ~raised /\ candidate' = candidate /\ calculated' = calculated
        /\ a \in DOMAIN candidate /\ a \notin DOMAIN calculated /\ a \notin Path
    BY <1>4 DEF Enter, Fresh, Asked
  <2>2. Path' = Path \cup {a}
    BY <1>4, EnterLengthensPath
  <2> QED
    BY <2>1, <2>2 DEF LessToDo, Unbegun
<1>5. CASE Leave
  <2> DEFINE a == Top(stack).cell
  <2>1. /\ Len(stack') < Len(stack)
        /\ a \in Path
        /\ Path' = Path \ {a}
    BY <1>5, LeaveShortensPath
  <2>2. ~raised /\ candidate' = candidate /\ \E n : Remember(a, n)
    BY <1>5 DEF Leave
  <2>3. a \in DOMAIN candidate
    BY <2>1 DEF Path, PassInv, StackFits, FrameFits
  <2> HIDE DEF a
  <2>4. DOMAIN calculated' = DOMAIN calculated \cup {a}
    BY <2>2, <2>3 DEF Remember, Stored
  <2>5. Unbegun' = Unbegun
    BY <2>1, <2>2, <2>4 DEF Unbegun
  <2> QED
    BY <2>1, <2>2, <2>5 DEF LessToDo
<1> QED
  BY <1>1, <1>2, <1>3, <1>4, <1>5 DEF PassNext

\* No order of the cells and no circle makes a pass go on for ever: on a finite grid
\* what is left to do cannot lessen for ever. (_value, _calculate_cache)
THEOREM PassEnds == PassSpec => PassComesToAnEnd
<1>1. PassInv /\ [PassNext]_passVars => [~raised /\ LessToDo]_passVars
  BY StepLeavesLess
<1> QED
  BY <1>1, AlwaysPassInv, PTL DEF PassSpec, PassComesToAnEnd

-----------------------------------------------------------------------------
(***************************************************************************)
(* How deep a pass calls itself.                                           *)
(***************************************************************************)

\* A path has as many cells as formulas were begun: each of them once.
LEMMA PathIsStack ==
  ASSUME PassInv
  PROVE  Cardinality(Path) = Len(stack)
<1> DEFINE n == Len(stack)
           f == [i \in 1..n |-> stack[i].cell]
<1>1. n \in Nat /\ DOMAIN stack = 1..n /\ OnceOnPath(stack)
  BY StackFacts DEF PassInv, StackFits
<1>2. f \in Surjection(1..n, Path)
  BY <1>1 DEF Surjection, Path
<1>3. f \in Injection(1..n, Path)
  BY <1>1, <1>2 DEF OnceOnPath, Injection, IsInjective, Path
<1>4. IsFiniteSet(1..n) /\ Cardinality(1..n) = n
  <2> HIDE DEF n
  <2> QED
    BY <1>1, FS_Interval
<1> HIDE DEF f
<1> QED
  BY <1>2, <1>3, <1>4, FS_Surjection

\* Each formula begun takes its share of the sheet's memory.
LEMMA PassInvIsBounded == PassInv => DepthIsBounded
<1> SUFFICES ASSUME PassInv
             PROVE  DepthIsBounded
  OBVIOUS
<1> DEFINE f == [a \in DOMAIN candidate |->
                   IF IsFormula(candidate[a]) THEN FormulaBytes ELSE ValueBytes]
<1>1. MemoryUsed(candidate) = Total(f)
  BY DEF MemoryUsed
<1>2. \A a \in Path : a \in DOMAIN candidate /\ IsFormula(candidate[a])
  BY DEF Path, PassInv, StackFits, FrameFits
<1>3. Path \in SUBSET DOMAIN f /\ \A a \in Path : f[a] = FormulaBytes
  BY <1>2
<1>4. IsFiniteSet(DOMAIN f) /\ \A a \in DOMAIN f : f[a] \in Nat
  BY SheetFinite, SpreadsheetAssumption DEF PassInv
<1>5. FormulaBytes \in Nat
  BY SpreadsheetAssumption
<1> HIDE DEF f
<1>6. Sums(f)[Path] = Cardinality(Path) * FormulaBytes
  BY <1>3, <1>4, <1>5, SumsOfEqual
<1>7. Sums(f)[Path] <= Sums(f)[DOMAIN f]
  BY <1>3, <1>4, SumsGrow
<1>8. Total(f) = Sums(f)[DOMAIN f]
  BY TotalIsSum
<1>9. Cardinality(Path) = Len(stack)
  BY PathIsStack
<1> QED
  BY <1>1, <1>6, <1>7, <1>8, <1>9 DEF DepthIsBounded

\* However the formulas of a sheet depend on one another, _value is never deeper in
\* calls of itself than the sheet has memory for formulas. (_value, _memory_used)
THEOREM PassDepth == PassSpec => []DepthIsBounded
  BY AlwaysPassInv, PassInvIsBounded, PTL
=============================================================================
