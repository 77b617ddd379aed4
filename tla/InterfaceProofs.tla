--------------------------- MODULE InterfaceProofs ---------------------------
(***************************************************************************)
(* Proofs about Interface for every set of tokens, modes and restored        *)
(* histories, and every bound, by three inductive invariants:                 *)
(*                                                                         *)
(* IInv       what opens what.  The keys have one owner, a form's slot        *)
(*            follows its index, the callback of a calculation meets the      *)
(*            template it was started from, and systems are solved from all   *)
(*            their coefficients.  A template of equations is open in         *)
(*            Equation mode only, where its solutions open a workflow again,  *)
(*            and neither the history nor a calculus form leads to one.       *)
(* TypedInv   what everything holds, on top of IInv: documents and the line   *)
(*            they belong to, the fields and answers of every stage of every  *)
(*            workflow, and what the next stage may take from them.           *)
(* PromiseInv what equals and AC leave behind, so that the up arrow recalls.  *)
(***************************************************************************)
EXTENDS Interface, ExpressionDocumentProofs, TLAPS

\* The fields of an open workflow that the proofs speak of.
FlowKeys == {"mode", "phase", "fields", "index", "slot", "draft", "values", "armed", "entries",
             "stage", "source", "line", "lines", "column", "row", "editing"}

\* A workflow before its first screen, or on one.
FlowShape(f) == FlowKeys \subseteq DOMAIN f /\ IsRecorded(f.entries)

\* Workflow w belongs to mode m: the second half of KeysHaveOneOwner.
Belongs(w, m) ==
  \/ w = m
  \/ w = "History" /\ m \in DocumentModes
  \/ w \in DOMAIN Owner /\ m = Owner[w]

CalculusModes == {"Integral", "ComplexIntegral"}

\* A calculus form has one field, a choice among kinds of integrals.
CalculusForm(f) ==
  f.phase = "form" /\ f.mode \in CalculusModes => f.fields \in {IntegralFields, ComplexIntegralFields}

Screen(m, f) ==
  /\ FlowShape(f)
  /\ f.phase \in {"form", "results", "sheet"}
  /\ f.phase = "form" => f.slot = CurrentSpec(f).key
  /\ CalculusForm(f)
  /\ Belongs(f.mode, m)

FlowInvariant == flow = NoFlow \/ Screen(mode, flow)

\* Templates of equations are open in Equation mode only.
Equations == {"polynomial", "simultaneous"}
FitsMode(t, m) ==
  /\ "kind" \in DOMAIN t
  /\ t = NoTemplate \/ t.kind \in Kinds
  /\ t.kind \in Equations => m = "Equation"

TemplateInvariant == FitsMode(template, mode)

\* KeysHaveOneOwner, as the induction needs it.
OneOwner == flow = NoFlow \/ template = NoTemplate

\* What a calculation may have been started from.
RunningKinds == RecordKinds \cup {"other"}

\* What the calculation that runs brings back can be recalled.
RecordInvariant ==
  /\ IsRecorded(history)
  /\ ~Idle => running.kind \in RunningKinds /\ IsRecorded(running.history)

\* The history cursor is a number.
Cursor(r) == "pos" \in DOMAIN r /\ r.pos \in Int

\* The inductive invariant.
IInv ==
  /\ FlowInvariant
  /\ TemplateInvariant
  /\ OneOwner
  /\ RecordInvariant
  /\ Cursor(recall)
  /\ CallbackMeetsItsTemplate

-----------------------------------------------------------------------------
(***************************************************************************)
(* Histories.                                                              *)
(***************************************************************************)

\* A sequence is one of its own elements.
LEMMA SequenceOfItsElements ==
  ASSUME NEW S, NEW h \in Seq(S)
  PROVE  h \in Seq(Range(h))
<1>1. Len(h) \in Nat /\ DOMAIN h = 1..Len(h)
  OBVIOUS
<1>2. \A i \in 1..Len(h) : h[i] \in Range(h)
  BY <1>1 DEF Range
<1>3. h = [i \in 1..Len(h) |-> h[i]]
  OBVIOUS
<1>4. h \in [1..Len(h) -> Range(h)]
  BY <1>2, <1>3
<1> QED
  BY <1>1, <1>4

\* No history at all, or one that loses or gains a record, or is turned around.
LEMMA NoRecords == IsRecorded(<<>>)
BY SequenceOfItsElements DEF IsRecorded

LEMMA OneRecordMore ==
  ASSUME NEW h, IsRecorded(h), NEW e, e.kind \in RecordKinds
  PROVE  IsRecorded(Append(h, e))
<1> DEFINE S == Range(h) \cup {e}
<1>1. h \in Seq(S)
  BY DEF IsRecorded
<1>2. Append(h, e) \in Seq(S)
  BY <1>1
<1>3. ASSUME NEW i \in DOMAIN Append(h, e) PROVE Append(h, e)[i].kind \in RecordKinds
  BY <1>1 DEF IsRecorded
<1> QED
  BY <1>2, <1>3, SequenceOfItsElements DEF IsRecorded

LEMMA OneRecordLess ==
  ASSUME NEW h, IsRecorded(h), h # <<>>
  PROVE  IsRecorded(Tail(h))
<1>1. Tail(h) \in Seq(Range(h))
  BY DEF IsRecorded
<1>2. ASSUME NEW i \in DOMAIN Tail(h) PROVE Tail(h)[i].kind \in RecordKinds
  BY DEF IsRecorded
<1> QED
  BY <1>1, <1>2, SequenceOfItsElements DEF IsRecorded

LEMMA RecordsReversed ==
  ASSUME NEW h, IsRecorded(h)
  PROVE  IsRecorded(Reverse(h))
<1>1. Len(h) \in Nat /\ DOMAIN h = 1..Len(h)
  BY DEF IsRecorded
<1>2. \A i \in 1..Len(h) : Len(h) - i + 1 \in 1..Len(h)
  BY <1>1
<1>3. Reverse(h) \in [1..Len(h) -> Range(h)]
  BY <1>1, <1>2 DEF Reverse, Range
<1>4. Reverse(h) \in Seq(Range(h))
  BY <1>1, <1>3
<1>5. ASSUME NEW i \in 1..Len(h) PROVE Reverse(h)[i].kind \in RecordKinds
  BY <1>1, <1>2 DEF Reverse, IsRecorded
<1> QED
  BY <1>1, <1>3, <1>4, <1>5, SequenceOfItsElements DEF IsRecorded

-----------------------------------------------------------------------------
(***************************************************************************)
(* What the operations of LcdForms do to a workflow.                       *)
(***************************************************************************)

\* Changes that leave mode, phase, fields, index and slot alone.
SameScreen(f, g) ==
  /\ DOMAIN g = DOMAIN f
  /\ \A k \in {"mode", "phase", "fields", "index", "slot", "entries"} : g[k] = f[k]

LEMMA SameScreenIsScreen ==
  ASSUME NEW m, NEW f, NEW g, Screen(m, f), SameScreen(f, g)
  PROVE  Screen(m, g)
<1>1. /\ g.mode = f.mode /\ g.phase = f.phase /\ g.fields = f.fields /\ g.index = f.index
      /\ g.slot = f.slot /\ g.entries = f.entries
  BY DEF SameScreen
<1>2. FlowShape(g)
  BY <1>1 DEF Screen, SameScreen, FlowShape
<1> QED
  BY <1>1, <1>2 DEF Screen, CurrentSpec, CalculusForm, Belongs

\* A screen is an open workflow.
LEMMA ScreenIsOpen ==
  ASSUME NEW m, NEW f, Screen(m, f)
  PROVE  f # NoFlow
BY DEF Screen, NoFlow

\* Any record keeps its screen when one of its other fields changes.
LEMMA SmallChanges ==
  ASSUME NEW m, NEW f, Screen(m, f), NEW v
  PROVE  /\ Screen(m, [f EXCEPT !.armed = v])
         /\ Screen(m, [f EXCEPT !.draft = v])
         /\ Screen(m, [f EXCEPT !.editing = v])
         /\ Screen(m, [f EXCEPT !.line = v])
         /\ Screen(m, [f EXCEPT !.column = v])
         /\ Screen(m, [f EXCEPT !.row = v])
<1>1. FlowKeys \subseteq DOMAIN f
  BY DEF Screen, FlowShape
<1>2. SameScreen(f, [f EXCEPT !.armed = v])
  BY <1>1 DEF SameScreen, FlowKeys
<1>3. SameScreen(f, [f EXCEPT !.draft = v])
  BY <1>1 DEF SameScreen, FlowKeys
<1>4. SameScreen(f, [f EXCEPT !.editing = v])
  BY <1>1 DEF SameScreen, FlowKeys
<1>5. SameScreen(f, [f EXCEPT !.line = v])
  BY <1>1 DEF SameScreen, FlowKeys
<1>6. SameScreen(f, [f EXCEPT !.column = v])
  BY <1>1 DEF SameScreen, FlowKeys
<1>7. SameScreen(f, [f EXCEPT !.row = v])
  BY <1>1 DEF SameScreen, FlowKeys
<1> QED
  BY <1>2, <1>3, <1>4, <1>5, <1>6, <1>7, SameScreenIsScreen

\* Rendering a field puts the slot where the index is.
LEMMA RenderedIsScreen ==
  ASSUME NEW m, NEW f, FlowShape(f), f.phase = "form", CalculusForm(f), Belongs(f.mode, m)
  PROVE  Screen(m, Render(f)) /\ Render(f).phase = "form"
<1> DEFINE g == Render(f)
<1>1. DOMAIN g = DOMAIN f
  BY DEF Render
<1>2. /\ g.mode = f.mode /\ g.phase = f.phase /\ g.fields = f.fields /\ g.index = f.index
      /\ g.slot = CurrentSpec(f).key /\ g.entries = f.entries
  BY DEF Render, FlowShape, FlowKeys
<1> HIDE DEF g
<1>3. FlowShape(g)
  BY <1>1, <1>2 DEF FlowShape
<1>4. Screen(m, g)
  BY <1>2, <1>3 DEF Screen, CurrentSpec, CalculusForm, Belongs
<1> QED
  BY <1>2, <1>4 DEF g

\* A form on its first field; a calculus form gets the fields of one.
LEMMA FormBegins ==
  ASSUME NEW m, NEW f, NEW stage, NEW fields, FlowShape(f), Belongs(f.mode, m),
         f.mode \in CalculusModes => fields \in {IntegralFields, ComplexIntegralFields}
  PROVE  Screen(m, BeginForm(f, stage, fields)) /\ BeginForm(f, stage, fields).phase = "form"
<1> DEFINE g == [f EXCEPT !.phase = "form", !.stage = stage, !.fields = fields, !.index = 1,
                          !.draft = NoTexts]
<1>1. DOMAIN g = DOMAIN f
  OBVIOUS
<1>2. g.mode = f.mode /\ g.phase = "form" /\ g.fields = fields /\ g.entries = f.entries
  BY DEF FlowShape, FlowKeys
<1>3. BeginForm(f, stage, fields) = Render(g)
  BY DEF BeginForm
<1> HIDE DEF g
<1>4. FlowShape(g) /\ CalculusForm(g) /\ Belongs(g.mode, m)
  BY <1>1, <1>2 DEF FlowShape, CalculusForm, Belongs
<1> QED
  BY <1>2, <1>3, <1>4, RenderedIsScreen

\* The fields that a calculus workflow is given, whatever the stage.
LEMMA CalculusFields ==
  ASSUME NEW m \in CalculusModes, NEW stage, NEW v, NEW fields \in Fields(m, stage, v)
  PROVE  fields \in {IntegralFields, ComplexIntegralFields}
BY DEF Fields, CalculusModes

\* A list of results and the sheet are screens of every workflow.
LEMMA OtherScreens ==
  ASSUME NEW m, NEW f, FlowShape(f), Belongs(f.mode, m), NEW n
  PROVE  /\ Screen(m, ShowResults(f, n)) /\ ShowResults(f, n).phase = "results"
         /\ Screen(m, StartSheet(f)) /\ StartSheet(f).phase = "sheet"
         /\ Screen(m, SheetReturn(f)) /\ SheetReturn(f).phase = "sheet"
         /\ Screen(m, EditCell(f)) /\ EditCell(f).phase = "sheet"
<1> DEFINE Elsewhere(g) == /\ DOMAIN g = DOMAIN f /\ g.mode = f.mode /\ g.entries = f.entries
                           /\ g.phase \in {"results", "sheet"}
<1>1. ASSUME NEW g, Elsewhere(g) PROVE Screen(m, g)
  BY <1>1 DEF Screen, FlowShape, CalculusForm, Belongs
<1>2. Elsewhere(ShowResults(f, n)) /\ ShowResults(f, n).phase = "results"
  BY DEF ShowResults, FlowShape, FlowKeys
<1>3. Elsewhere(StartSheet(f)) /\ StartSheet(f).phase = "sheet"
  BY DEF StartSheet, FlowShape, FlowKeys
<1>4. Elsewhere(SheetReturn(f)) /\ SheetReturn(f).phase = "sheet"
  BY DEF SheetReturn, FlowShape, FlowKeys
<1>5. Elsewhere(EditCell(f)) /\ EditCell(f).phase = "sheet"
  BY DEF EditCell, FlowShape, FlowKeys
<1> QED
  BY <1>1, <1>2, <1>3, <1>4, <1>5
\* Changing what a workflow has stored, drafted or captured.
LEMMA FormMoves ==
  ASSUME NEW m, NEW f, Screen(m, f), f.phase = "form", NEW text, NEW d
  PROVE  /\ Screen(m, Capture(f, text))
         /\ Screen(m, MoveField(f, text, d))
         /\ Screen(m, Cycle(f, text, d))
<1>1. FlowKeys \subseteq DOMAIN f /\ f.slot = CurrentSpec(f).key
  BY DEF Screen, FlowShape
<1>2. SameScreen(f, Capture(f, text))
  BY <1>1 DEF Capture, SameScreen, FlowKeys
<1>3. Screen(m, Capture(f, text))
  BY <1>2, SameScreenIsScreen
<1>4. Screen(m, MoveField(f, text, d))
  <2> DEFINE c == Capture(f, text)
             g == [c EXCEPT !.index = Clamped(1, Len(f.fields), @ + d)]
  <2>1. /\ DOMAIN c = DOMAIN f
        /\ c.mode = f.mode /\ c.phase = f.phase /\ c.fields = f.fields /\ c.entries = f.entries
    BY <1>2 DEF SameScreen
  <2>2. MoveField(f, text, d) = Render(g)
    BY DEF MoveField
  <2> HIDE DEF c
  <2>3. /\ DOMAIN g = DOMAIN f
        /\ g.mode = f.mode /\ g.phase = f.phase /\ g.fields = f.fields /\ g.entries = f.entries
    BY <1>1, <2>1 DEF FlowKeys
  <2> HIDE DEF g
  <2>4. FlowShape(g) /\ g.phase = "form" /\ CalculusForm(g) /\ Belongs(g.mode, m)
    BY <2>3 DEF Screen, FlowShape, CalculusForm, Belongs
  <2> QED
    BY <2>2, <2>4, RenderedIsScreen
<1>5. Screen(m, Cycle(f, text, d))
  <2>1. PICK v : Cycle(f, text, d) = Render([f EXCEPT !.draft = v])
    <3> DEFINE v == With(f.draft, CurrentSpec(f).key,
                         Code((((IF Accepts(CurrentSpec(f), IF text # Blank THEN text ELSE FieldText(f, CurrentSpec(f)))
                                 THEN ValueOf(IF text # Blank THEN text ELSE FieldText(f, CurrentSpec(f))) ELSE 1)
                                - 1 + d) % Len(CurrentSpec(f).options)) + 1))
    <3>1. Cycle(f, text, d) = Render([f EXCEPT !.draft = v])
      BY <1>1, Zenon DEF Cycle
    <3> QED
      BY <3>1
  <2>2. Screen(m, [f EXCEPT !.draft = v]) /\ [f EXCEPT !.draft = v].phase = "form"
    BY <1>1, SmallChanges DEF FlowKeys
  <2> QED
    BY <2>1, <2>2, RenderedIsScreen DEF Screen
<1> QED
  BY <1>3, <1>4, <1>5
\* What = stores leaves the screen as it is.
LEMMA StoredIsScreen ==
  ASSUME NEW m, NEW f, Screen(m, f), NEW text
  PROVE  /\ Screen(m, Stored(f, text))
         /\ Stored(f, text).phase = f.phase /\ Stored(f, text).mode = f.mode
         /\ Stored(f, text).fields = f.fields
<1>1. SameScreen(f, Stored(f, text))
  BY DEF Screen, FlowShape, Stored, SameScreen, FlowKeys
<1> QED
  BY <1>1, SameScreenIsScreen DEF SameScreen
-----------------------------------------------------------------------------
(***************************************************************************)
(* What the parts of the handlers do.                                      *)
(***************************************************************************)

\* A cursor stays a number when other fields of its record change.
LEMMA CursorStays ==
  ASSUME NEW r, Cursor(r), NEW v
  PROVE  /\ Cursor([r EXCEPT !.available = v])
         /\ IsRecorded(history) => Cursor(AtNewest(r))
         /\ IsRecorded(history) => Cursor([r EXCEPT !.pos = Len(history)])
<1>1. Cursor([r EXCEPT !.available = v])
  BY DEF Cursor
<1>2. ASSUME IsRecorded(history) PROVE Len(history) \in Int
  BY <1>2 DEF IsRecorded
<1> QED
  BY <1>1, <1>2 DEF Cursor, AtNewest

\* set_expr closes the template and keeps the workflow it is given.
LEMMA SetExprKeeps ==
  ASSUME NEW m, NEW text, NEW f, NEW r, SetExpr(text, f, r), f = NoFlow \/ Screen(m, f), Cursor(r)
  PROVE  /\ template' = NoTemplate
         /\ flow' = NoFlow \/ Screen(m, flow')
         /\ f = NoFlow => flow' = NoFlow
         /\ Cursor(recall')
<1>1. template' = NoTemplate /\ recall' = [r EXCEPT !.available = FALSE]
  BY DEF SetExpr
<1>2. Cursor(recall')
  BY <1>1, CursorStays
<1>3. CASE f # NoFlow /\ f.phase = "form"
  BY <1>1, <1>2, <1>3, SmallChanges DEF SetExpr
<1>4. CASE ~(f # NoFlow /\ f.phase = "form")
  BY <1>1, <1>2, <1>4 DEF SetExpr
<1> QED
  BY <1>3, <1>4

\* A form, a list and the sheet on display.
LEMMA ShowFormKeeps ==
  ASSUME NEW m, NEW f, NEW stage, NEW fields, NEW r, ShowForm(f, stage, fields, r),
         FlowShape(f), Belongs(f.mode, m), Cursor(r),
         f.mode \in CalculusModes => fields \in {IntegralFields, ComplexIntegralFields}
  PROVE  Screen(m, flow') /\ flow'.phase = "form" /\ Cursor(recall')
<1>1. flow' = BeginForm(f, stage, fields) /\ recall' = [r EXCEPT !.available = FALSE]
  BY DEF ShowForm
<1> QED
  BY <1>1, FormBegins, CursorStays

LEMMA ShowCellKeeps ==
  ASSUME NEW m, NEW f, NEW r, ShowCell(f, r), Screen(m, f), Cursor(r)
  PROVE  Screen(m, flow') /\ flow' = f /\ Cursor(recall')
BY DEF ShowCell

LEMMA ShowResultListKeeps ==
  ASSUME NEW m, NEW f, NEW n, NEW r, ShowResultList(f, n, r), FlowShape(f), Belongs(f.mode, m), Cursor(r)
  PROVE  Screen(m, flow') /\ Cursor(recall')
BY OtherScreens DEF ShowResultList

\* A workflow that was just created.
LEMMA FreshFlowShape ==
  ASSUME NEW w, NEW source
  PROVE  FlowShape(FreshFlow(w, source)) /\ FreshFlow(w, source).mode = w
BY NoRecords DEF FlowShape, FlowKeys, FreshFlow

\* _start_lcd_flow closes the template and ends on a form or on the sheet.
LEMMA StartFlowKeeps ==
  ASSUME NEW m, NEW w, NEW source, NEW r, StartFlow(w, source, r), Belongs(w, m), Cursor(r)
  PROVE  /\ template' = NoTemplate
         /\ Screen(m, flow') /\ flow'.phase # "results"
         /\ Cursor(recall')
<1> DEFINE f == FreshFlow(w, source)
<1>1. FlowShape(f) /\ f.mode = w
  BY FreshFlowShape
<1>2. template' = NoTemplate
  BY DEF StartFlow
<1> HIDE DEF f
<1>3. CASE w = "Spreadsheet"
  <2>1. ShowCell(StartSheet(f), r)
    BY <1>3 DEF StartFlow, f
  <2>2. Screen(m, StartSheet(f)) /\ StartSheet(f).phase = "sheet"
    BY <1>1, OtherScreens
  <2> QED
    BY <1>2, <2>1, <2>2, ShowCellKeeps
<1>4. CASE w # "Spreadsheet"
  <2>1. PICK fields \in Fields(w, FirstStage[w], NoTexts) : ShowForm(f, FirstStage[w], fields, r)
    BY <1>4 DEF StartFlow, f
  <2>2. w \in CalculusModes => fields \in {IntegralFields, ComplexIntegralFields}
    BY CalculusFields
  <2> QED
    BY <1>1, <1>2, <2>1, <2>2, ShowFormKeeps
<1> QED
  BY <1>3, <1>4

\* The first screen of a mode.
LEMMA HomeKeeps ==
  ASSUME NEW m, NEW spans, Home(m, spans), Cursor(recall), IsRecorded(history)
  PROVE  /\ template' = NoTemplate
         /\ flow' = NoFlow \/ (Screen(m, flow') /\ flow'.phase # "results")
         /\ Cursor(recall')
<1>1. Cursor(AtNewest(recall))
  BY CursorStays
<1>2. CASE m \in DocumentModes \cup {"BaseN"}
  BY <1>1, <1>2 DEF Home
<1>3. CASE m \notin DocumentModes \cup {"BaseN"}
  <2>1. StartFlow(m, Blank, AtNewest(recall)) /\ Belongs(m, m)
    BY <1>3 DEF Home, Belongs
  <2> QED
    BY <1>1, <2>1, StartFlowKeeps
<1> QED
  BY <1>2, <1>3

\* A template of the calculus menu.
LEMMA OpenIntegralKeeps ==
  ASSUME NEW m, NEW choice, NEW source, OpenIntegral(choice, source), Cursor(recall)
  PROVE  flow' = NoFlow /\ FitsMode(template', m) /\ Cursor(recall')
<1>1. /\ flow' = NoFlow
      /\ template'.kind \in {"complex_integral", "integral", "multiple_integral"}
      /\ "kind" \in DOMAIN template'
      /\ recall' = Unavailable
  BY DEF OpenIntegral, Open
<1> QED
  BY <1>1, CursorStays DEF FitsMode, Equations, Unavailable, Kinds

\* A template that history restores is not one of equations.
LEMMA RestoredKeeps ==
  ASSUME NEW m, NEW record, record.kind \in RecordKinds \ {"evaluate"}
  PROVE  FitsMode(Restored(record), m)
<1>1. "kind" \in DOMAIN Restored(record)
  BY DEF Restored, Open
<1>2. Restored(record).kind \in Kinds \ Equations
  <2>1. record.kind \in Kinds /\ record.kind \notin Equations
    BY DEF RecordKinds, InBackground, Equations
  <2>2. Restored(record).kind \in {record.kind, "complex_integral", "integral", "ode_details"}
    BY DEF Restored, Open
  <2> QED
    BY <2>1, <2>2 DEF Kinds, Equations
<1> QED
  BY <1>1, <1>2 DEF FitsMode

\* A record on its way back to the keys: a template, a kept document or a text.
LEMMA RecalledKeeps ==
  ASSUME NEW record, NEW r, Recalled(record, NoFlow, r), record.kind \in RecordKinds,
         FitsMode(template, mode), Cursor(r)
  PROVE  flow' = NoFlow /\ FitsMode(template', mode) /\ Cursor(recall')
<1>1. CASE record.kind # "evaluate"
  BY <1>1, RestoredKeeps DEF Recalled
<1>2. CASE SetExpr(record.source, NoFlow, r)
  <2>1. flow' = NoFlow /\ template' = NoTemplate /\ Cursor(recall')
    BY <1>2, SetExprKeeps
  <2> QED
    BY <2>1 DEF FitsMode, NoTemplate, Equations
<1>3. CASE flow' = NoFlow /\ template' = template /\ recall' = r
  BY <1>3
<1> QED
  BY <1>1, <1>2, <1>3 DEF Recalled

\* A complete form opens a template in the calculus menus and in Equation only.
LEMMA FormsThatOpenTemplates ==
  ASSUME NEW w, NEW stage, NEW fields, NEW v,
         NEW outcome \in Completions(w, stage, fields, v), outcome.to = "template"
  PROVE  \/ w = "Equation" /\ outcome.at \in {"ode"} \cup Equations
         \/ w \in CalculusModes /\ outcome = Template(v["calculus_action"])
<1> DEFINE Goes(to, at) == [to |-> to, at |-> at]
<1>1. outcome \notin Answered /\ outcome # Failure /\ \A at : outcome # Form(at)
  <2>1. Failure.to = "error" /\ Results.to = "results" /\ \A at : Form(at).to = "form"
    BY DEF Results, Failure, Form
  <2> QED
    BY <2>1 DEF Answered
<1>2. ~(\E i \in DOMAIN fields : fields[i].key \notin DOMAIN v \cup Optional)
  BY <1>1, Zenon DEF Completions
<1>3. CASE w \in CalculusModes
  <2>1. outcome \in IntegralNext(v)
    BY <1>2, <1>3 DEF Completions, CalculusModes
  <2> QED
    BY <1>3, <2>1 DEF IntegralNext
<1>4. CASE w = "Matrix"
  <2>1. outcome \in MatrixNext(stage, v)
    BY <1>2, <1>4 DEF Completions
  <2>2. stage # "matrix_action" /\ stage # "matrix_shape" => MatrixNext(stage, v) = Answered
    BY DEF MatrixNext
  <2>3. stage \in {"matrix_action", "matrix_shape"} => \E at : MatrixNext(stage, v) = {Form(at)}
    BY DEF MatrixNext
  <2> QED
    BY <1>1, <2>1, <2>2, <2>3
<1>5. CASE w = "Vector"
  <2>1. outcome \in VectorNext(stage, v)
    BY <1>2, <1>5 DEF Completions
  <2>2. stage # "vector_action" /\ stage # "vector_shape" => VectorNext(stage, v) = Answered
    BY DEF VectorNext
  <2>3. stage \in {"vector_action", "vector_shape"} => \E at : VectorNext(stage, v) = {Form(at)}
    BY DEF VectorNext
  <2> QED
    BY <1>1, <2>1, <2>2, <2>3
<1>6. CASE w \in {"Statistics", "Distribution", "Inequality", "Ratio"}
  <2>1. \/ outcome \in StatisticsNext(stage) \/ outcome \in DistributionNext(stage)
        \/ outcome \in InequalityNext(stage) \/ outcome \in RatioNext(stage)
    BY <1>2, <1>6 DEF Completions
  <2> QED
    BY <1>1, <2>1 DEF StatisticsNext, DistributionNext, InequalityNext, RatioNext
<1>7. CASE w = "Spreadsheet"
  <2>1. outcome \in SheetNext(stage, v)
    BY <1>2, <1>7 DEF Completions
  <2>2. \A to, at : Goes(to, at).to = to
    OBVIOUS
  <2>3. \/ outcome \in Answered
        \/ \E at : outcome = Form(at)
        \/ \E at : outcome = Goes("sheet", at)
        \/ \E at : outcome = Goes("edit", at)
    <3>1. CASE stage # "sheet_tool"
      BY <2>1, <3>1 DEF SheetNext, Answered
    <3> DEFINE tool == v["sheet_tool"]
    <3>2. CASE stage = "sheet_tool" /\ tool = "Copy cell"
      BY <2>1, <3>2 DEF SheetNext
    <3>3. CASE stage = "sheet_tool" /\ tool = "Edit cell"
      BY <2>1, <3>3 DEF SheetNext
    <3>4. CASE stage = "sheet_tool" /\ tool = "Insert reference"
      BY <2>1, <3>4 DEF SheetNext
    <3>5. CASE stage = "sheet_tool" /\ tool = "Fill value"
      BY <2>1, <3>5 DEF SheetNext
    <3>6. CASE stage = "sheet_tool" /\ tool = "Free space"
      BY <2>1, <3>6 DEF SheetNext, Answered
    <3>7. CASE stage = "sheet_tool" /\ tool = "Delete all"
      BY <2>1, <3>7 DEF SheetNext
    <3>8. CASE stage = "sheet_tool" /\ tool = "Delete cell"
      BY <2>1, <3>8 DEF SheetNext, Answered
    <3>9. CASE /\ stage = "sheet_tool"
               /\ tool \notin {"Copy cell", "Edit cell", "Insert reference", "Fill value", "Free space",
                               "Delete all", "Delete cell"}
      BY <2>1, <3>9 DEF SheetNext, Answered
    <3> QED
      BY <3>1, <3>2, <3>3, <3>4, <3>5, <3>6, <3>7, <3>8, <3>9
  <2> QED
    BY <1>1, <2>2, <2>3
<1>8. CASE w = "Equation"
  <2>1. outcome \in EquationNext(stage, v)
    BY <1>2, <1>8 DEF Completions
  <2>2. \/ \E at : EquationNext(stage, v) = {Form(at)}
        \/ \E at \in {"ode"} \cup Equations : EquationNext(stage, v) = {Template(at)}
    BY DEF EquationNext, Equations
  <2>3. \A at : Template(at).at = at
    BY DEF Template
  <2> QED
    BY <1>1, <1>8, <2>1, <2>2, <2>3
<1>9. CASE w \notin CalculusModes \cup {"Matrix", "Vector", "Statistics", "Distribution", "Equation",
                                        "Inequality", "Ratio", "Spreadsheet"}
  <2>1. outcome \in Answered
    BY <1>2, <1>9 DEF Completions, CalculusModes
  <2> QED
    BY <1>1, <2>1
<1> QED
  BY <1>3, <1>4, <1>5, <1>6, <1>7, <1>8, <1>9

\* Where a complete form leads: every outcome leaves one owner.
LEMMA CompletedKeeps ==
  ASSUME NEW f, NEW outcome, Completed(f, outcome), Screen(mode, f), f.phase = "form",
         template = NoTemplate, Cursor(recall),
         outcome.to = "template" =>
           (f.mode = "Equation" /\ outcome.at \in {"ode"} \cup Equations) \/ outcome.at \in Range(IntegralKinds)
  PROVE  /\ flow' = NoFlow \/ Screen(mode, flow')
         /\ flow' = NoFlow \/ template' = NoTemplate
         /\ FitsMode(template', mode)
         /\ Cursor(recall')
<1>1. FlowShape(f) /\ Belongs(f.mode, mode)
  BY DEF Screen
<1>2. FitsMode(NoTemplate, mode)
  BY DEF FitsMode, NoTemplate, Equations
<1>3. CASE outcome.to = "form"
  <2>1. PICK fields \in Fields(f.mode, outcome.at, f.values) : ShowForm(f, outcome.at, fields, recall)
    BY <1>3 DEF Completed
  <2>2. template' = NoTemplate
    BY <1>3 DEF Completed
  <2>3. f.mode \in CalculusModes => fields \in {IntegralFields, ComplexIntegralFields}
    BY CalculusFields
  <2> QED
    BY <1>1, <1>2, <2>1, <2>2, <2>3, ShowFormKeeps
<1>4. CASE outcome.to = "template" /\ outcome.at \in Range(IntegralKinds)
  <2>1. OpenIntegral(outcome.at, f.source)
    BY <1>4 DEF Completed
  <2> QED
    BY <2>1, OpenIntegralKeeps
<1>5. CASE outcome.to = "template" /\ outcome.at \notin Range(IntegralKinds)
  <2>1. OpenEquation(outcome.at, f)
    BY <1>5 DEF Completed
  <2>2. /\ flow' = NoFlow /\ recall' = recall
        /\ "kind" \in DOMAIN template' /\ template'.kind = outcome.at
    BY <2>1 DEF OpenEquation, Open
  <2>3. mode = "Equation"
    BY <1>1, <1>5 DEF Belongs, Owner
  <2> QED
    BY <1>5, <2>2, <2>3 DEF FitsMode, Equations, Kinds
<1>6. CASE outcome.to = "results"
  <2>1. PICK n \in 1..MaxLines : ShowResultList(f, n, recall)
    BY <1>6 DEF Completed
  <2>2. template' = NoTemplate
    BY <1>6 DEF Completed
  <2> QED
    BY <1>1, <1>2, <2>1, <2>2, ShowResultListKeeps
<1>7. CASE outcome.to = "sheet"
  <2>1. ShowCell(SheetReturn(f), recall) /\ template' = NoTemplate
    BY <1>7 DEF Completed
  <2>2. Screen(mode, SheetReturn(f))
    BY <1>1, OtherScreens
  <2> QED
    BY <1>2, <2>1, <2>2, ShowCellKeeps
<1>8. CASE outcome.to = "edit"
  <2>1. flow' = EditCell(f) /\ template' = NoTemplate /\ recall' = recall
    BY <1>8 DEF Completed
  <2> QED
    BY <1>1, <1>2, <2>1, OtherScreens
<1>9. CASE outcome.to \notin {"form", "template", "results", "sheet", "edit"}
  <2>1. FormError(f)
    BY <1>9 DEF Completed
  <2>2. PICK g : SetExpr(Blank, g, recall) /\ Screen(mode, g)
    BY <2>1, SmallChanges DEF FormError
  <2> QED
    BY <1>2, <2>2, SetExprKeeps
<1> QED
  BY <1>3, <1>4, <1>5, <1>6, <1>7, <1>8, <1>9
\* A menu of integrals offers integrals.
LEMMA IntegralOptions ==
  ASSUME NEW fields \in {IntegralFields, ComplexIntegralFields}
  PROVE  /\ Len(fields) = 1
         /\ fields[1].key = "calculus_action" /\ fields[1].type = "choice"
         /\ \A i \in DOMAIN fields[1].options : fields[1].options[i] \in Range(IntegralKinds)
<1> DEFINE From(options) == <<Choice("calculus_action", options)>>
<1>1. ASSUME NEW options
      PROVE  /\ Len(From(options)) = 1
             /\ From(options)[1].key = "calculus_action" /\ From(options)[1].type = "choice"
             /\ From(options)[1].options = options
  BY DEF Choice, Field
<1>2. IntegralFields = From(SubSeq(IntegralKinds, 1, MaxLayers))
      /\ ComplexIntegralFields = From(<<"definite">>)
  BY DEF IntegralFields, ComplexIntegralFields
<1> HIDE DEF From
<1>3. IntegralKinds \in Seq({"definite", "double", "triple"}) /\ Len(IntegralKinds) = 3 /\ IntegralKinds[1] = "definite"
  <2>1. IntegralKinds \in Seq({"definite", "double", "triple"})
    BY DEF IntegralKinds
  <2>2. Len(IntegralKinds) = 3
    BY DEF IntegralKinds
  <2>3. IntegralKinds[1] = "definite"
    BY DEF IntegralKinds
  <2> QED
    BY <2>1, <2>2, <2>3
<1>4. \A i \in 1..3 : IntegralKinds[i] \in Range(IntegralKinds)
  BY <1>3 DEF Range
<1>5. ASSUME NEW n \in 1..3
      PROVE  \A i \in DOMAIN SubSeq(IntegralKinds, 1, n) :
               SubSeq(IntegralKinds, 1, n)[i] \in Range(IntegralKinds)
  <2>1. /\ DOMAIN SubSeq(IntegralKinds, 1, n) = 1..n
        /\ \A i \in 1..n : i \in 1..3 /\ SubSeq(IntegralKinds, 1, n)[i] = IntegralKinds[i]
    BY <1>3
  <2> QED
    BY <1>4, <2>1
<1>6. \A i \in DOMAIN <<"definite">> : <<"definite">>[i] = "definite"
  OBVIOUS
<1>7. "definite" \in Range(IntegralKinds)
  BY <1>3, <1>4
<1>8. CASE fields = From(SubSeq(IntegralKinds, 1, MaxLayers))
  <2> DEFINE options == SubSeq(IntegralKinds, 1, MaxLayers)
  <2>1. MaxLayers \in 1..3
    BY FormsAssumption
  <2>2. \A i \in DOMAIN options : options[i] \in Range(IntegralKinds)
    BY <1>5, <2>1
  <2>3. fields = From(options)
    BY <1>8
  <2> HIDE DEF options
  <2>4. Len(fields) = 1 /\ fields[1].options = options
    BY <1>1, <2>3
  <2>5. fields[1].key = "calculus_action" /\ fields[1].type = "choice"
    BY <1>1, <2>3
  <2> QED
    BY <2>2, <2>4, <2>5
<1>9. CASE fields = From(<<"definite">>)
  BY <1>1, <1>6, <1>7, <1>9
<1> QED
  BY <1>2, <1>8, <1>9

\* What = on a form may open, when the form is on the screen of its workflow.
LEMMA OutcomesOpen ==
  ASSUME FlowInvariant, NEW outcome \in FormOutcomes, outcome.to = "template"
  PROVE  \/ flow.mode = "Equation" /\ outcome.at \in {"ode"} \cup Equations
         \/ outcome.at \in Range(IntegralKinds)
<1> DEFINE f == Stored(flow, Text)
           field == CurrentSpec(flow)
           text == Submitted(flow, Text)
<1>1. InForm /\ Screen(mode, flow)
  BY DEF FormOutcomes, FlowInvariant, InForm
<1>2. /\ flow.index = Len(flow.fields)
      /\ Accepts(field, text)
      /\ outcome \in Completions(f.mode, f.stage, f.fields, f.values)
  BY DEF FormOutcomes
<1>3. f.mode = flow.mode
  BY <1>1, StoredIsScreen
<1>4. \/ f.mode = "Equation" /\ outcome.at \in {"ode"} \cup Equations
      \/ (f.mode \in CalculusModes /\ outcome = Template(f.values["calculus_action"]))
  BY <1>2, FormsThatOpenTemplates
<1>5. ASSUME flow.mode \in CalculusModes, outcome = Template(f.values["calculus_action"])
      PROVE  outcome.at \in Range(IntegralKinds)
  <2>1. flow.fields \in {IntegralFields, ComplexIntegralFields}
    BY <1>1, <1>5 DEF Screen, CalculusForm, InForm
  <2>2. flow.index = 1 /\ field = flow.fields[1]
    BY <1>2, <2>1, IntegralOptions DEF CurrentSpec
  <2>3. field.key = "calculus_action" /\ field.type = "choice"
    BY <2>1, <2>2, IntegralOptions
  <2>4. ValueOf(text) \in DOMAIN field.options
    BY <1>2, <2>3 DEF Accepts
  <2>5. Parsed(field, text) = field.options[ValueOf(text)]
    BY <2>3 DEF Parsed
  <2>6. Parsed(field, text) \in Range(IntegralKinds)
    BY <2>1, <2>2, <2>4, <2>5, IntegralOptions
  <2>7. f.values["calculus_action"] = Parsed(field, text)
    <3>1. f.values = With(flow.values, field.key, Parsed(field, text))
      BY <1>1 DEF Stored, Screen, FlowShape, FlowKeys
    <3> QED
      BY <2>3, <3>1 DEF With
  <2> QED
    BY <1>5, <2>6, <2>7 DEF Template
<1> QED
  BY <1>3, <1>4, <1>5
-----------------------------------------------------------------------------
(***************************************************************************)
(* The inductive invariant, action by action.                              *)
(***************************************************************************)

\* Nothing is open, or everything fits.
LEMMA NothingFits == \A m : FitsMode(NoTemplate, m)
BY DEF FitsMode, NoTemplate, Equations

\* A handler that starts no calculation and lets none go on.
LEMMA IdleStep ==
  ASSUME IInv, history' = history, running' = NoCalculation,
         flow' = NoFlow \/ Screen(mode', flow'),
         flow' = NoFlow \/ template' = NoTemplate,
         FitsMode(template', mode'), Cursor(recall')
  PROVE  IInv'
<1>1. running'.kind \notin Kinds /\ Idle'
  BY DEF NoCalculation, Kinds, Idle
<1> QED
  BY <1>1 DEF IInv, FlowInvariant, TemplateInvariant, OneOwner, RecordInvariant, CallbackMeetsItsTemplate

\* A handler that changes only what workflow and template are not concerned with, or
\* the current workflow in place.
LEMMA EditStep ==
  ASSUME IInv, UNCHANGED <<mode, template, history, running>>,
         flow = NoFlow => flow' = NoFlow,
         flow # NoFlow => Screen(mode, flow'),
         Cursor(recall')
  PROVE  IInv'
BY DEF IInv, FlowInvariant, TemplateInvariant, OneOwner, RecordInvariant, CallbackMeetsItsTemplate, Idle

\* The first key in a form or on the grid.
LEMMA EditedFlow ==
  ASSUME FlowInvariant
  PROVE  /\ flow = NoFlow => Editing(Disarmed) = NoFlow /\ Editing(flow) = NoFlow
         /\ flow # NoFlow => Screen(mode, Editing(Disarmed)) /\ Screen(mode, Editing(flow))
<1>1. CASE flow = NoFlow
  BY <1>1 DEF Disarmed, Armed, Editing, OnSheet
<1>2. CASE flow # NoFlow
  <2>1. Screen(mode, flow)
    BY <1>2 DEF FlowInvariant
  <2>2. Screen(mode, Disarmed)
    BY <2>1, SmallChanges DEF Disarmed
  <2>3. \A f : Screen(mode, f) => Screen(mode, Editing(f))
    BY SmallChanges DEF Editing
  <2> QED
    BY <1>2, <2>1, <2>2, <2>3
<1> QED
  BY <1>1, <1>2

\* The keys of the entry keep the first invariant.
LEMMA EntryKeys ==
  ASSUME IInv,
         \/ \E token \in Tokens : Type(token)
         \/ \E symbol \in EngineerKeys : InsertPrefix(symbol)
         \/ Delete \/ ToggleOverwrite \/ Undo
         \/ \E d \in {-1, 1} : MoveCaret(d)
  PROVE  IInv'
<1>1. Cursor(recall) /\ Cursor(Unavailable) /\ FlowInvariant
  BY CursorStays DEF IInv, Unavailable
<1>2. ASSUME NEW token \in Tokens, Type(token) PROVE IInv'
  <2>1. flow' = Editing(Disarmed) /\ recall' = Unavailable /\ UNCHANGED <<mode, template, history, running>>
    BY <1>2 DEF Type
  <2> QED
    BY <1>1, <2>1, EditedFlow, EditStep
<1>3. ASSUME NEW symbol \in EngineerKeys, InsertPrefix(symbol) PROVE IInv'
  <2>1. recall' = Unavailable /\ UNCHANGED <<mode, flow, template, history, running>>
    BY <1>3 DEF InsertPrefix
  <2> QED
    BY <1>1, <2>1, EditStep DEF FlowInvariant
<1>4. CASE Delete
  <2>1. flow' = Editing(Disarmed) /\ recall' = Unavailable /\ UNCHANGED <<mode, template, history, running>>
    BY <1>4 DEF Delete
  <2> QED
    BY <1>1, <2>1, EditedFlow, EditStep
<1>5. CASE ToggleOverwrite
  <2>1. flow' = Editing(flow) /\ UNCHANGED <<mode, template, history, running, recall>>
    BY <1>5 DEF ToggleOverwrite
  <2> QED
    BY <1>1, <2>1, EditedFlow, EditStep
<1>6. CASE Undo
  <2>1. /\ flow' \in {Editing(flow), Editing(Disarmed)}
        /\ recall' \in {recall, Unavailable}
        /\ UNCHANGED <<mode, template, history, running>>
    BY <1>6 DEF Undo
  <2> QED
    BY <1>1, <2>1, EditedFlow, EditStep
<1>7. ASSUME NEW d \in {-1, 1}, MoveCaret(d) PROVE IInv'
  <2>1. UNCHANGED <<mode, flow, template, history, running, recall>>
    BY <1>7 DEF MoveCaret
  <2> QED
    BY <1>1, <2>1, EditStep DEF FlowInvariant
<1> QED
  BY <1>2, <1>3, <1>4, <1>5, <1>6, <1>7
\* The keys of a form do.
LEMMA FormKeys ==
  ASSUME IInv,
         \/ RefuseField \/ StoreField
         \/ \E outcome \in FormOutcomes : CompleteForm(outcome)
         \/ \E d \in {-1, 1} : MoveFormField(d) \/ MoveAcross(d)
  PROVE  IInv'
<1>1. InForm /\ Idle /\ UNCHANGED <<mode, history, running>>
  BY DEF RefuseField, StoreField, CompleteForm, MoveFormField, MoveAcross, FormOutcomes
<1>2. /\ flow # NoFlow /\ Screen(mode, flow) /\ flow.phase = "form"
      /\ template = NoTemplate /\ running = NoCalculation
      /\ Cursor(recall)
  BY <1>1 DEF IInv, FlowInvariant, OneOwner, InForm, Idle
<1>3. CASE RefuseField
  <2>1. PICK v : SetExpr(Blank, [flow EXCEPT !.draft = v], recall)
    BY <1>3 DEF RefuseField, FormError
  <2>2. Screen(mode, [flow EXCEPT !.draft = v])
    BY <1>2, SmallChanges
  <2>3. /\ template' = NoTemplate /\ Cursor(recall')
        /\ flow' = NoFlow \/ Screen(mode, flow')
    BY <1>2, <2>1, <2>2, SetExprKeeps
  <2> QED
    BY <1>1, <1>2, <2>3, NothingFits, IdleStep
<1>4. CASE StoreField
  <2> DEFINE f == Stored(flow, Text)
             g == [f EXCEPT !.index = @ + 1]
  <2>1. /\ Screen(mode, f)
        /\ f.phase = "form" /\ f.mode = flow.mode /\ f.fields = flow.fields
    BY <1>2, StoredIsScreen
  <2>2. flow' = Render(g) /\ UNCHANGED <<template, recall>>
    BY <1>4 DEF StoreField
  <2> HIDE DEF f
  <2>3. /\ DOMAIN g = DOMAIN f
        /\ g.mode = f.mode /\ g.phase = f.phase /\ g.fields = f.fields /\ g.entries = f.entries
    BY <2>1 DEF Screen, FlowShape, FlowKeys
  <2> HIDE DEF g
  <2>4. FlowShape(g) /\ g.phase = "form" /\ CalculusForm(g) /\ Belongs(g.mode, mode)
    BY <2>1, <2>3 DEF Screen, FlowShape, CalculusForm
  <2>5. Screen(mode, flow')
    BY <2>2, <2>4, RenderedIsScreen
  <2> QED
    BY <1>1, <1>2, <2>2, <2>5, EditStep
<1>5. ASSUME NEW outcome \in FormOutcomes, CompleteForm(outcome) PROVE IInv'
  <2> DEFINE f == Stored(flow, Text)
  <2>1. Screen(mode, f) /\ f.phase = "form" /\ f.mode = flow.mode
    BY <1>2, StoredIsScreen
  <2>2. Completed(f, outcome)
    BY <1>5 DEF CompleteForm
  <2> HIDE DEF f
  <2>3. outcome.to = "template" =>
          (f.mode = "Equation" /\ outcome.at \in {"ode"} \cup Equations) \/ outcome.at \in Range(IntegralKinds)
    BY <2>1, OutcomesOpen DEF IInv
  <2>4. /\ flow' = NoFlow \/ Screen(mode, flow')
        /\ flow' = NoFlow \/ template' = NoTemplate
        /\ FitsMode(template', mode)
        /\ Cursor(recall')
    BY <1>2, <2>1, <2>2, <2>3, CompletedKeeps
  <2> QED
    BY <1>1, <1>2, <2>4, IdleStep
<1>6. ASSUME NEW d \in {-1, 1}, MoveFormField(d) \/ MoveAcross(d) PROVE IInv'
  <2>1. /\ flow' \in {MoveField(flow, Text, d), Cycle(flow, Text, d), Capture(flow, Text)}
        /\ UNCHANGED <<template, recall>>
    BY <1>6 DEF MoveFormField, MoveAcross
  <2>2. Screen(mode, flow')
    BY <1>2, <2>1, FormMoves
  <2> QED
    BY <1>1, <1>2, <2>1, <2>2, EditStep
<1> QED
  BY <1>3, <1>4, <1>5, <1>6

\* The keys of results, sheet and history do.
LEMMA WorkflowKeys ==
  ASSUME IInv,
         \/ \E d \in {-1, 1} : MoveResultLine(d) \/ \E column \in BOOLEAN : MoveSheet(column, d)
         \/ SubmitSheet \/ RestartFlow \/ SheetOptions
  PROVE  IInv'
<1>1. flow # NoFlow /\ Idle /\ UNCHANGED <<mode, history, running>>
  BY DEF MoveResultLine, MoveSheet, SubmitSheet, RestartFlow, SheetOptions, InResults, InForm, OnSheet
<1>2. /\ Screen(mode, flow)
      /\ template = NoTemplate /\ running = NoCalculation
      /\ Cursor(recall)
  BY <1>1 DEF IInv, FlowInvariant, OneOwner, Idle
<1>3. FlowShape(flow) /\ Belongs(flow.mode, mode)
  BY <1>2 DEF Screen
<1>4. ASSUME NEW d \in {-1, 1}, MoveResultLine(d) PROVE IInv'
  <2>1. PICK v : flow' = [flow EXCEPT !.line = v]
    BY <1>4 DEF MoveResultLine
  <2>2. UNCHANGED <<template, recall>>
    BY <1>4 DEF MoveResultLine
  <2> QED
    BY <1>1, <1>2, <2>1, <2>2, SmallChanges, EditStep
<1>5. ASSUME NEW d \in {-1, 1}, NEW column \in BOOLEAN, MoveSheet(column, d) PROVE IInv'
  <2>1. PICK f \in {MoveColumn(flow, d), MoveRow(flow, d)} : ShowCell(f, recall)
    BY <1>5 DEF MoveSheet
  <2>2. Screen(mode, f)
    <3>1. \A v : Screen(mode, [flow EXCEPT !.column = v]) /\ Screen(mode, [flow EXCEPT !.row = v])
      BY <1>2, SmallChanges
    <3> QED
      BY <2>1, <3>1 DEF MoveColumn, MoveRow
  <2>3. UNCHANGED template
    BY <1>5 DEF MoveSheet
  <2> QED
    BY <1>1, <1>2, <2>1, <2>2, <2>3, ShowCellKeeps, EditStep
<1>6. CASE SubmitSheet
  <2>1. PICK b \in BOOLEAN : flow' = [flow EXCEPT !.editing = b]
    BY <1>6 DEF SubmitSheet, ShowCell
  <2>2. UNCHANGED <<template, recall>>
    BY <1>6 DEF SubmitSheet, ShowCell
  <2> QED
    BY <1>1, <1>2, <2>1, <2>2, SmallChanges, EditStep
<1>7. CASE RestartFlow
  <2>1. StartFlow(flow.mode, Text, recall)
    BY <1>7 DEF RestartFlow
  <2>2. template' = NoTemplate /\ Screen(mode, flow') /\ Cursor(recall')
    BY <1>2, <1>3, <2>1, StartFlowKeeps
  <2> QED
    BY <1>1, <1>2, <2>2, NothingFits, IdleStep
<1>8. CASE SheetOptions
  <2>1. CASE InResults
    <3>1. ShowCell(StartSheet(flow), recall) /\ UNCHANGED template
      BY <1>8, <2>1 DEF SheetOptions
    <3>2. Screen(mode, StartSheet(flow))
      BY <1>3, OtherScreens
    <3> QED
      BY <1>1, <1>2, <3>1, <3>2, ShowCellKeeps, EditStep
  <2>2. CASE ~InResults /\ flow.editing
    <3>1. SetExpr(Blank, flow, recall)
      BY <1>8, <2>2 DEF SheetOptions
    <3>2. /\ template' = NoTemplate /\ Cursor(recall')
          /\ flow' = NoFlow \/ Screen(mode, flow')
      BY <1>2, <3>1, SetExprKeeps
    <3> QED
      BY <1>1, <1>2, <3>2, NothingFits, IdleStep
  <2>3. CASE ~InResults /\ ~flow.editing
    <3>1. ShowForm(flow, "sheet_tool", SheetFields("sheet_tool"), recall) /\ UNCHANGED template
      BY <1>8, <2>3 DEF SheetOptions
    <3>2. flow.mode \notin CalculusModes
      BY <1>8 DEF SheetOptions, CalculusModes
    <3>3. Screen(mode, flow') /\ Cursor(recall')
      BY <1>2, <1>3, <3>1, <3>2, ShowFormKeeps
    <3> QED
      BY <1>1, <1>2, <3>1, <3>3, EditStep
  <2> QED
    BY <2>1, <2>2, <2>3
<1> QED
  BY <1>4, <1>5, <1>6, <1>7, <1>8
\* OPTN and the ∫ keys, and the list of MENU.
LEMMA MenuKeys ==
  ASSUME IInv, OpenFromMenu \/ IntegralKey \/ DerivativeKey \/ ShowHistory
  PROVE  IInv'
<1>1. Idle /\ UNCHANGED <<mode, history, running>>
  BY DEF OpenFromMenu, IntegralKey, DerivativeKey, ShowHistory
<1>2. running' = NoCalculation /\ Cursor(recall) /\ IsRecorded(history)
  BY <1>1 DEF IInv, RecordInvariant, Idle
<1>3. Cursor([recall EXCEPT !.pos = Len(history), !.available = FALSE])
  <2>1. Cursor([recall EXCEPT !.pos = Len(history)])
    BY <1>2, CursorStays
  <2>2. Cursor([[recall EXCEPT !.pos = Len(history)] EXCEPT !.available = FALSE])
    BY <2>1, CursorStays
  <2> QED
    BY <2>2 DEF Cursor
<1>4. ASSUME NEW w, NEW source, NEW r, StartFlow(w, source, r), Belongs(w, mode), Cursor(r) PROVE IInv'
  <2>1. template' = NoTemplate /\ Screen(mode, flow') /\ Cursor(recall')
    BY <1>4, StartFlowKeeps
  <2> QED
    BY <1>1, <1>2, <2>1, NothingFits, IdleStep
<1>5. Belongs(mode, mode) /\ (mode = "Complex" => Belongs("ComplexIntegral", mode))
      /\ (mode = "Calculate" => Belongs("Integral", mode))
  BY DEF Belongs, Owner
<1>6. CASE OpenFromMenu
  BY <1>2, <1>4, <1>5, <1>6 DEF OpenFromMenu
<1>7. CASE IntegralKey
  <2> DEFINE r == [recall EXCEPT !.pos = Len(history), !.available = FALSE]
  <2>1. /\ StartFlow(IF mode = "Calculate" THEN "Integral" ELSE "ComplexIntegral", Text, r)
        /\ mode \in {"Calculate", "Complex"}
    BY <1>7 DEF IntegralKey, DocumentModes
  <2>2. Belongs(IF mode = "Calculate" THEN "Integral" ELSE "ComplexIntegral", mode)
    BY <1>5, <2>1
  <2> HIDE DEF r
  <2> QED
    BY <1>3, <1>4, <2>1, <2>2 DEF r
<1>8. CASE DerivativeKey
  <2>1. /\ flow' = NoFlow
        /\ "kind" \in DOMAIN template' /\ template'.kind = "derivative"
        /\ recall' = [recall EXCEPT !.pos = Len(history), !.available = FALSE]
    BY <1>8 DEF DerivativeKey, Open
  <2>2. FitsMode(template', mode')
    BY <2>1 DEF FitsMode, Equations, Kinds
  <2> QED
    BY <1>1, <1>2, <1>3, <2>1, <2>2, IdleStep
<1>9. CASE ShowHistory
  <2> DEFINE f == [FreshFlow("History", Blank) EXCEPT !.entries = Reverse(history)]
             n == IF history = <<>> THEN 1 ELSE Len(history)
  <2>1. ShowResultList(f, n, recall) /\ template' = NoTemplate /\ mode \in DocumentModes
    BY <1>9 DEF ShowHistory
  <2>2. DOMAIN f = DOMAIN FreshFlow("History", Blank) /\ f.mode = "History" /\ f.entries = Reverse(history)
    BY DEF FreshFlow
  <2>3. FlowShape(f)
    BY <1>2, <2>2, FreshFlowShape, RecordsReversed DEF FlowShape
  <2>4. Belongs(f.mode, mode)
    BY <2>1, <2>2 DEF Belongs
  <2> HIDE DEF f, n
  <2>5. Screen(mode, flow') /\ Cursor(recall')
    BY <1>2, <2>1, <2>3, <2>4, ShowResultListKeeps
  <2> QED
    BY <1>1, <1>2, <2>1, <2>5, NothingFits, IdleStep
<1> QED
  BY <1>6, <1>7, <1>8, <1>9

\* The keys that bring a record back.
LEMMA RecallKeys ==
  ASSUME IInv, RecallFromList \/ UpKey \/ BrowseHistory(1)
  PROVE  IInv'
<1>1. Idle /\ UNCHANGED <<mode, history, running>>
  BY DEF RecallFromList, UpKey, RestoreSubmitted, BrowseHistory, KeysReachEntry
<1>2. running' = NoCalculation /\ Cursor(recall) /\ IsRecorded(history) /\ FitsMode(template, mode)
  BY <1>1 DEF IInv, RecordInvariant, TemplateInvariant, Idle
<1>3. ASSUME NEW record, NEW r, Recalled(record, NoFlow, r), record.kind \in RecordKinds, Cursor(r)
      PROVE  IInv'
  <2>1. flow' = NoFlow /\ FitsMode(template', mode) /\ Cursor(recall')
    BY <1>2, <1>3, RecalledKeeps
  <2> QED
    BY <1>1, <1>2, <2>1, IdleStep
<1>4. CASE RecallFromList
  <2> DEFINE r == [recall EXCEPT !.pos = Len(history)]
  <2>1. /\ flow # NoFlow /\ flow.line \in DOMAIN flow.entries
        /\ Recalled(flow.entries[flow.line], NoFlow, r)
    BY <1>4 DEF RecallFromList, InHistory
  <2>2. IsRecorded(flow.entries)
    BY <2>1 DEF IInv, FlowInvariant, Screen, FlowShape
  <2>3. flow.entries[flow.line].kind \in RecordKinds
    BY <2>1, <2>2 DEF IsRecorded
  <2>4. Cursor(r)
    BY <1>2, CursorStays
  <2> QED
    BY <1>3, <2>1, <2>3, <2>4
<1>5. CASE RestoreSubmitted
  <2>1. SetExpr(recall.last, flow, recall) /\ flow = NoFlow
    BY <1>5 DEF RestoreSubmitted, KeysReachEntry
  <2>2. flow' = NoFlow /\ template' = NoTemplate /\ Cursor(recall')
    BY <1>2, <2>1, SetExprKeeps
  <2> QED
    BY <1>1, <1>2, <2>2, NothingFits, IdleStep
<1>6. ASSUME NEW d \in {-1, 1}, BrowseHistory(d) PROVE IInv'
  <2> DEFINE pos == HistoryCursor(d)
             r == [recall EXCEPT !.pos = pos]
  <2>1. /\ flow = NoFlow /\ template = NoTemplate
        /\ \/ pos = Len(history) /\ recall' = r /\ UNCHANGED <<flow, template>>
           \/ pos # Len(history) /\ Recalled(history[pos + 1], flow, r)
    BY <1>6 DEF BrowseHistory, KeysReachEntry
  <2>2. pos \in 0..Len(history) /\ pos \in Int
    <3>1. recall.pos \in Int /\ Len(history) \in Nat
      BY <1>2 DEF Cursor, IsRecorded
    <3> QED
      BY <3>1 DEF HistoryCursor, Clamped
  <2> HIDE DEF pos
  <2>3. Cursor(r)
    BY <1>2, <2>2 DEF Cursor
  <2>4. CASE pos = Len(history)
    BY <1>1, <1>2, <2>1, <2>3, <2>4, NothingFits, IdleStep
  <2>5. CASE pos # Len(history)
    <3>1. pos + 1 \in DOMAIN history
      BY <1>2, <2>2, <2>5 DEF IsRecorded
    <3>2. history[pos + 1].kind \in RecordKinds
      BY <1>2, <3>1 DEF IsRecorded
    <3> QED
      BY <1>3, <2>1, <2>3, <2>5, <3>2
  <2> QED
    BY <2>4, <2>5
<1> QED
  BY <1>4, <1>5, <1>6 DEF UpKey
\* A template keeps its kind while it is filled in.
LEMMA SameKind ==
  ASSUME IInv, UNCHANGED <<mode, flow, recall, history, running>>, template # NoTemplate,
         "kind" \in DOMAIN template', template'.kind = template.kind
  PROVE  IInv'
<1>1. flow = NoFlow /\ FitsMode(template, mode)
  BY DEF IInv, OneOwner, TemplateInvariant
<1>2. FitsMode(template', mode')
  BY <1>1 DEF FitsMode
<1> QED
  BY <1>1, <1>2 DEF IInv, FlowInvariant, TemplateInvariant, OneOwner, RecordInvariant,
                    CallbackMeetsItsTemplate, Idle

\* The keys of a template do.
LEMMA TemplateKeys ==
  ASSUME IInv,
         \/ \E letter \in BOOLEAN : TypeInTemplate(letter)
         \/ \E d \in {-1, 1} : MoveInTemplate(d)
         \/ EraseInTemplate \/ EscapeTemplate \/ EvaluateTemplate \/ TemplateStartFails
         \/ AcceptEquation \/ SolveTemplate
  PROVE  IInv'
<1>1. template # NoTemplate /\ UNCHANGED <<mode, history>>
  BY DEF TypeInTemplate, MoveInTemplate, EraseInTemplate, EscapeTemplate, EvaluateTemplate,
         TemplateStartFails, AcceptEquation, SolveTemplate, NoTemplate
<1>2. /\ flow = NoFlow /\ FitsMode(template, mode) /\ template.kind \in Kinds
      /\ Cursor(recall) /\ IsRecorded(history)
  BY <1>1 DEF IInv, OneOwner, TemplateInvariant, RecordInvariant, FitsMode
<1>3. CASE \/ \E letter \in BOOLEAN : TypeInTemplate(letter)
           \/ \E d \in {-1, 1} : MoveInTemplate(d)
           \/ EraseInTemplate \/ AcceptEquation
  <2>1. UNCHANGED <<mode, flow, recall, history, running>>
    BY <1>3 DEF TypeInTemplate, MoveInTemplate, EraseInTemplate, AcceptEquation
  <2>2. \/ \E letter \in BOOLEAN : template' = FillSlot(template, letter)
        \/ \E d \in {-1, 1} : template' = MoveSlot(template, d)
        \/ template' = EraseSlot(template) \/ template' = AcceptRow(template)
    BY <1>3 DEF TypeInTemplate, MoveInTemplate, EraseInTemplate, AcceptEquation
  <2>3. "kind" \in DOMAIN template
    BY <1>2 DEF FitsMode
  <2>4. "kind" \in DOMAIN template' /\ template'.kind = template.kind
    BY <2>2, <2>3 DEF FillSlot, MoveSlot, EraseSlot, AcceptRow
  <2> QED
    BY <1>1, <2>1, <2>4, SameKind
<1>4. CASE EscapeTemplate
  <2>1. SetExpr(Blank, flow, recall) /\ running' = running
    BY <1>4 DEF EscapeTemplate
  <2>2. flow' = NoFlow /\ template' = NoTemplate /\ Cursor(recall')
    BY <1>2, <2>1, SetExprKeeps
  <2> QED
    BY <1>1, <2>1, <2>2, NothingFits
    DEF IInv, FlowInvariant, TemplateInvariant, OneOwner, RecordInvariant, CallbackMeetsItsTemplate,
        Idle, NoTemplate
<1>5. CASE EvaluateTemplate
  <2>1. /\ InBackground(template.kind) /\ UNCHANGED <<flow, template, recall>>
        /\ running'.kind = template.kind /\ running'.history = history
    BY <1>5 DEF EvaluateTemplate, Start
  <2>2. running'.kind \in RunningKinds
    BY <1>2, <2>1 DEF RunningKinds, RecordKinds
  <2> QED
    BY <1>1, <1>2, <2>1, <2>2
    DEF IInv, FlowInvariant, TemplateInvariant, OneOwner, RecordInvariant, CallbackMeetsItsTemplate
<1>6. CASE TemplateStartFails
  <2>1. Idle /\ running' = running /\ template' = NoTemplate /\ UNCHANGED <<flow, recall>>
    BY <1>6 DEF TemplateStartFails
  <2> QED
    BY <1>1, <1>2, <2>1, NothingFits, IdleStep DEF Idle
<1>7. CASE SolveTemplate
  <2>1. PICK n \in 1..MaxLines : ShowResultList(FreshFlow("Equation", Blank), n, recall)
    BY <1>7 DEF SolveTemplate
  <2>2. /\ Idle /\ running' = running /\ template' = NoTemplate
        /\ template.kind \in Equations
    BY <1>7 DEF SolveTemplate, Equations
  <2>3. Belongs("Equation", mode)
    BY <1>2, <2>2 DEF FitsMode, Belongs
  <2>4. Screen(mode, flow') /\ Cursor(recall')
    BY <1>2, <2>1, <2>3, FreshFlowShape, ShowResultListKeeps
  <2> QED
    BY <1>1, <2>2, <2>4, NothingFits, IdleStep DEF Idle
<1> QED
  BY <1>3, <1>4, <1>5, <1>6, <1>7

\* A calculation that starts from the keys, and the history that is thrown away.
LEMMA OtherStarts ==
  ASSUME IInv, EvaluateEntry \/ EvaluateOther \/ ForgetHistory
  PROVE  IInv'
<1>1. UNCHANGED <<mode, flow, template>>
  BY DEF EvaluateEntry, EvaluateOther, ForgetHistory
<1>2. CASE EvaluateEntry \/ EvaluateOther
  <2>1. /\ running'.kind \in {"evaluate", "other"} /\ running'.history = history
        /\ UNCHANGED <<recall, history>>
    BY <1>2 DEF EvaluateEntry, EvaluateOther, Start
  <2>2. running'.kind \in RunningKinds /\ running'.kind \notin Kinds
    BY <2>1 DEF RunningKinds, RecordKinds, Kinds
  <2> QED
    BY <1>1, <2>1, <2>2
    DEF IInv, FlowInvariant, TemplateInvariant, OneOwner, RecordInvariant, CallbackMeetsItsTemplate
<1>3. CASE ForgetHistory
  <2>1. history' = <<>> /\ running' = running /\ recall' \in {recall, [recall EXCEPT !.pos = 0]}
    BY <1>3 DEF ForgetHistory
  <2>2. Cursor(recall')
    BY <2>1 DEF IInv, Cursor
  <2> QED
    BY <1>1, <2>1, <2>2, NoRecords
    DEF IInv, FlowInvariant, TemplateInvariant, OneOwner, RecordInvariant, CallbackMeetsItsTemplate, Idle
<1> QED
  BY <1>2, <1>3
\* The history that a calculation brings back.
LEMMA ExtendedHistory ==
  ASSUME IInv, ~Idle, NEW kind \in RecordKinds
  PROVE  IsRecorded(Extended(kind)) /\ IsRecorded(running.history)
<1> DEFINE e == Entry(kind, running.size, running.source, running.filled)
           h == Append(running.history, e)
<1>1. IsRecorded(running.history)
  BY DEF IInv, RecordInvariant
<1>2. e.kind \in RecordKinds
  BY DEF Entry
<1>3. Extended(kind) \in {h, Tail(h)}
  BY DEF Extended
<1> HIDE DEF e
<1>4. IsRecorded(h)
  BY <1>1, <1>2, OneRecordMore
<1>5. h # <<>>
  BY <1>1 DEF IsRecorded
<1> HIDE DEF h
<1>6. IsRecorded(Tail(h))
  BY <1>4, <1>5, OneRecordLess
<1> QED
  BY <1>1, <1>3, <1>4, <1>6

\* What was submitted is recorded behind the newest entry.
LEMMA RecordKeepsCursor ==
  ASSUME NEW r, Cursor(r), NEW source, IsRecorded(history')
  PROVE  Cursor(Record(source, r))
<1>1. Len(history') \in Int
  BY DEF IsRecorded
<1>2. DOMAIN Record(source, r) = DOMAIN r /\ Record(source, r).pos = Len(history')
  BY DEF Record, Cursor
<1> QED
  BY <1>1, <1>2 DEF Cursor

\* The end of a calculation.
LEMMA Endings ==
  ASSUME IInv, SucceedEntry \/ SucceedOther \/ SucceedTemplate \/ Fail
  PROVE  IInv'
<1>1. ~Idle /\ running' = NoCalculation /\ mode' = mode
  BY DEF SucceedEntry, SucceedOther, SucceedTemplate, Fail, Idle, NoCalculation, Kinds
<1>2. /\ Cursor(recall) /\ IsRecorded(history)
      /\ flow = NoFlow \/ Screen(mode, flow)
      /\ FitsMode(template, mode)
      /\ flow = NoFlow \/ template = NoTemplate
      /\ running.kind \in RunningKinds
  BY <1>1 DEF IInv, RecordInvariant, FlowInvariant, TemplateInvariant, OneOwner
<1>3. ASSUME IsRecorded(history'), Cursor(recall'), FitsMode(template', mode),
             flow' = NoFlow \/ Screen(mode, flow'), flow' = NoFlow \/ template' = NoTemplate
      PROVE  IInv'
  <2>1. running'.kind \notin Kinds /\ Idle'
    BY <1>1 DEF NoCalculation, Kinds, Idle
  <2> QED
    BY <1>1, <1>3, <2>1
    DEF IInv, FlowInvariant, TemplateInvariant, OneOwner, RecordInvariant, CallbackMeetsItsTemplate
<1>4. "evaluate" \in RecordKinds
  BY DEF RecordKinds
<1>5. CASE SucceedEntry
  <2>1. history' = Extended("evaluate") /\ recall' = Record(running.source, recall)
        /\ UNCHANGED <<flow, template>>
    BY <1>5 DEF SucceedEntry
  <2>2. IsRecorded(history')
    BY <1>1, <1>4, <2>1, ExtendedHistory
  <2>3. Cursor(recall')
    BY <1>2, <2>1, <2>2, RecordKeepsCursor
  <2> QED
    BY <1>2, <1>3, <2>1, <2>2, <2>3
<1>6. CASE SucceedOther
  <2>1. history' = Extended("evaluate") /\ UNCHANGED <<flow, template, recall>>
    BY <1>6 DEF SucceedOther
  <2>2. IsRecorded(history')
    BY <1>1, <1>4, <2>1, ExtendedHistory
  <2> QED
    BY <1>2, <1>3, <2>1, <2>2
<1>7. CASE SucceedTemplate
  <2>1. /\ running.kind \in Kinds /\ history' \in {running.history, Extended(running.kind)}
        /\ template' = NoTemplate /\ UNCHANGED <<flow, recall>>
    BY <1>7 DEF SucceedTemplate
  <2>2. running.kind \in RecordKinds
    BY <1>2, <2>1 DEF RunningKinds, Kinds
  <2>3. IsRecorded(history')
    BY <1>1, <2>1, <2>2, ExtendedHistory
  <2> QED
    BY <1>2, <1>3, <2>1, <2>3, NothingFits
<1>8. CASE Fail
  <2>1. history' = history
    BY <1>8 DEF Fail
  <2>2. CASE template # NoTemplate
    BY <1>2, <1>3, <1>8, <2>1, <2>2 DEF Fail
  <2>3. CASE template = NoTemplate
    <3>1. PICK f : SetExpr(Blank, f, recall) /\ (f = flow \/ (InForm /\ \E v : f = [flow EXCEPT !.draft = v]))
      BY <1>8, <2>3 DEF Fail
    <3>2. f = NoFlow \/ Screen(mode, f)
      <4>1. ASSUME Screen(mode, flow) PROVE \A v : Screen(mode, [flow EXCEPT !.draft = v])
        BY <4>1, SmallChanges
      <4> QED
        BY <1>2, <3>1, <4>1 DEF InForm
    <3>3. template' = NoTemplate /\ Cursor(recall') /\ (flow' = NoFlow \/ Screen(mode, flow'))
      BY <1>2, <3>1, <3>2, SetExprKeeps
    <3> QED
      BY <1>2, <1>3, <2>1, <3>3, NothingFits
  <2> QED
    BY <2>2, <2>3
<1> QED
  BY <1>5, <1>6, <1>7, <1>8

\* = in Base-N, AC and MENU.
LEMMA ModeKeys ==
  ASSUME IInv, EvaluateBase \/ Ac \/ \E m \in Modes : SelectMode(m)
  PROVE  IInv'
<1>1. Cursor(recall) /\ IsRecorded(history) /\ history' = history /\ running' = NoCalculation
  BY DEF IInv, RecordInvariant, EvaluateBase, KeysReachEntry, Ac, SelectMode, Idle
<1>2. CASE EvaluateBase
  <2>1. /\ flow = NoFlow /\ template = NoTemplate /\ mode' = mode
        /\ \/ recall' = Record(Text, recall) /\ UNCHANGED <<flow, template>>
           \/ SetExpr(Blank, flow, recall)
    BY <1>2 DEF EvaluateBase, KeysReachEntry
  <2>2. CASE recall' = Record(Text, recall) /\ UNCHANGED <<flow, template>>
    <3>1. Cursor(recall')
      BY <1>1, <2>2, RecordKeepsCursor
    <3> QED
      BY <1>1, <2>1, <2>2, <3>1, NothingFits, IdleStep
  <2>3. CASE SetExpr(Blank, flow, recall)
    <3>1. flow' = NoFlow /\ template' = NoTemplate /\ Cursor(recall')
      BY <1>1, <2>1, <2>3, SetExprKeeps
    <3> QED
      BY <1>1, <2>1, <3>1, NothingFits, IdleStep
  <2> QED
    BY <2>1, <2>2, <2>3
<1>3. ASSUME NEW spans, Home(mode', spans) PROVE IInv'
  <2>1. template' = NoTemplate /\ (flow' = NoFlow \/ Screen(mode', flow')) /\ Cursor(recall')
    BY <1>1, <1>3, HomeKeeps
  <2> QED
    BY <1>1, <2>1, NothingFits, IdleStep
<1>4. CASE Ac
  BY <1>3, <1>4 DEF Ac
<1>5. ASSUME NEW m \in Modes, SelectMode(m) PROVE IInv'
  BY <1>3, <1>5 DEF SelectMode
<1> QED
  BY <1>2, <1>4, <1>5
-----------------------------------------------------------------------------
(***************************************************************************)
(* Theorems.                                                               *)
(***************************************************************************)

\* It holds at launch...
LEMMA InitIInv == Init => IInv
<1> SUFFICES ASSUME Init PROVE IInv
  OBVIOUS
<1>1. flow = NoFlow /\ template = NoTemplate /\ running = NoCalculation /\ IsRecorded(history)
  BY HistoryAssumption DEF Init
<1>2. Cursor(recall)
  BY <1>1 DEF Init, Cursor, IsRecorded
<1>3. running.kind \notin Kinds /\ Idle
  BY <1>1 DEF NoCalculation, Kinds, Idle
<1> QED
  BY <1>1, <1>2, <1>3, NothingFits
  DEF IInv, FlowInvariant, TemplateInvariant, OneOwner, RecordInvariant, CallbackMeetsItsTemplate

LEMMA OtherKeyIInv == IInv /\ OtherKey => IInv'
BY EntryKeys, FormKeys, WorkflowKeys, MenuKeys, RecallKeys, TemplateKeys, OtherStarts, Endings, ModeKeys
DEF OtherKey

\* ...and every step keeps it.
LEMMA NextIInv == IInv /\ [Next]_vars => IInv'
<1> SUFFICES ASSUME IInv, [Next]_vars PROVE IInv'
  OBVIOUS
<1>1. CASE UNCHANGED vars
  BY <1>1 DEF vars, IInv, FlowInvariant, TemplateInvariant, OneOwner, RecordInvariant,
              CallbackMeetsItsTemplate, Idle
<1>2. CASE Ac \/ \E m \in Modes : SelectMode(m)
  BY <1>2, ModeKeys
<1>3. CASE SucceedEntry
  BY <1>3, Endings
<1>4. CASE UpKey
  BY <1>4, RecallKeys
<1>5. CASE OtherKey
  BY <1>5, OtherKeyIInv
<1> QED
  BY <1>1, <1>2, <1>3, <1>4, <1>5 DEF Next

\* The inductive invariant holds in every reachable state, whatever the modes, the
\* keys, the bounds and the histories that were restored at launch.
THEOREM InvariantHolds == Spec => []IInv
<1> QED
  BY InitIInv, NextIInv, PTL DEF Spec

\* A workflow and a template never claim the keys together, and a workflow belongs
\* to the mode it runs in, however the handlers of app.py follow each other.
THEOREM OneOwnerHolds == Spec => []KeysHaveOneOwner
<1>1. IInv => KeysHaveOneOwner
  BY DEF IInv, OneOwner, FlowInvariant, Screen, Belongs, KeysHaveOneOwner
<1> QED
  BY <1>1, InvariantHolds, PTL

\* The field that the linear template has active is the one at the form's index,
\* after every arrow, =, refused value and failed calculation.
THEOREM SlotHolds == Spec => []SlotFollowsIndex
<1>1. IInv => SlotFollowsIndex
  BY DEF IInv, FlowInvariant, Screen, SlotFollowsIndex, InForm
<1> QED
  BY <1>1, InvariantHolds, PTL

\* The callback of a template's calculation finds the template it was started from,
\* or none that is open.
THEOREM CallbackHolds == Spec => []CallbackMeetsItsTemplate
<1>1. IInv => CallbackMeetsItsTemplate
  BY DEF IInv
<1> QED
  BY <1>1, InvariantHolds, PTL

\* No key but the = that finds every coefficient leads from an open system of
\* equations to a list of results.
LEMMA SystemStep ==
  ASSUME IInv, [Next]_vars, template.kind = "simultaneous", flow' # NoFlow, flow'.phase = "results"
  PROVE  template.filled = 1..template.count
<1>1. template # NoTemplate /\ flow = NoFlow /\ mode = "Equation"
  BY DEF IInv, OneOwner, TemplateInvariant, FitsMode, NoTemplate, Equations
<1>2. Cursor(recall) /\ IsRecorded(history)
  BY DEF IInv, RecordInvariant
<1>3. flow' # flow
  BY <1>1
<1>4. ~UNCHANGED vars
  BY <1>3 DEF vars
<1>5. ~ \E m, spans : Home(m, spans)
  BY <1>2, HomeKeeps
<1>6. ~(Ac \/ \E m \in Modes : SelectMode(m))
  BY <1>5 DEF Ac, SelectMode
<1>7. ~(SucceedEntry \/ SucceedOther \/ SucceedTemplate \/ Fail)
  BY <1>1, <1>3 DEF SucceedEntry, SucceedOther, SucceedTemplate, Fail
<1>8. ~(UpKey \/ BrowseHistory(1) \/ RecallFromList \/ EvaluateBase)
  BY <1>1 DEF UpKey, RestoreSubmitted, BrowseHistory, KeysReachEntry, RecallFromList, InHistory, EvaluateBase
<1>9. ~(EvaluateEntry \/ EvaluateOther \/ ForgetHistory)
  BY <1>3 DEF EvaluateEntry, EvaluateOther, ForgetHistory
<1>10. /\ ~ \E token \in Tokens : Type(token)
       /\ ~ \E symbol \in EngineerKeys : InsertPrefix(symbol)
       /\ ~(Delete \/ ToggleOverwrite \/ Undo)
       /\ ~ \E d \in {-1, 1} : MoveCaret(d)
  BY <1>1, <1>3 DEF Type, InsertPrefix, Delete, ToggleOverwrite, Undo, MoveCaret
<1>11. /\ ~(RefuseField \/ StoreField)
       /\ ~ \E outcome \in FormOutcomes : CompleteForm(outcome)
       /\ ~ \E d \in {-1, 1} : MoveFormField(d) \/ MoveAcross(d)
  BY <1>1 DEF RefuseField, StoreField, CompleteForm, FormOutcomes, MoveFormField, MoveAcross, InForm
<1>12. /\ ~ \E d \in {-1, 1} : MoveResultLine(d) \/ \E column \in BOOLEAN : MoveSheet(column, d)
       /\ ~(SubmitSheet \/ RestartFlow \/ SheetOptions)
  BY <1>1 DEF MoveResultLine, MoveSheet, SubmitSheet, RestartFlow, SheetOptions, InResults, InForm, OnSheet
<1>13. ~(IntegralKey \/ DerivativeKey \/ ShowHistory)
  BY <1>1 DEF IntegralKey, DerivativeKey, ShowHistory, DocumentModes
<1>14. ~OpenFromMenu
  <2>1. Belongs(mode, mode)
    BY DEF Belongs
  <2>2. ~StartFlow(mode, Text, recall)
    BY <1>2, <2>1, StartFlowKeeps
  <2> QED
    BY <1>1, <2>2 DEF OpenFromMenu
<1>15. ~EscapeTemplate
  <2>1. ~SetExpr(Blank, flow, recall)
    BY <1>1, <1>2, SetExprKeeps
  <2> QED
    BY <2>1 DEF EscapeTemplate
<1>16. /\ ~ \E letter \in BOOLEAN : TypeInTemplate(letter)
       /\ ~ \E d \in {-1, 1} : MoveInTemplate(d)
       /\ ~(EraseInTemplate \/ EvaluateTemplate \/ TemplateStartFails \/ AcceptEquation)
  BY <1>3 DEF TypeInTemplate, MoveInTemplate, EraseInTemplate, EvaluateTemplate, TemplateStartFails,
              AcceptEquation
<1>17. SolveTemplate
  BY <1>4, <1>6, <1>7, <1>8, <1>9, <1>10, <1>11, <1>12, <1>13, <1>14, <1>15, <1>16 DEF Next, OtherKey
<1> QED
  BY <1>17 DEF SolveTemplate, Solvable

\* A system of equations is solved only when every coefficient has a text, whatever
\* was erased after its equation had been accepted.
THEOREM SystemsHold == Spec => SolvedSystemsAreComplete
<1>1. IInv /\ [Next]_vars =>
        [template.kind = "simultaneous" /\ flow' # NoFlow /\ flow'.phase = "results"
           => template.filled = 1..template.count]_vars
  BY SystemStep
<1> QED
  BY <1>1, InvariantHolds, PTL DEF Spec, SolvedSystemsAreComplete

-----------------------------------------------------------------------------
(***************************************************************************)
(* What the state is made of. Texts, cells and lists are sequences, documents  *)
(* are documents, and a form knows its fields: a value that was stored under  *)
(* a key is one the later stages of the workflow can use.                    *)
(***************************************************************************)

\* The undo list: a document is kept with the cells it stands for.
UndoItem(item) ==
  /\ IsSeq(item.cells)
  /\ item.document => IsDocument(item.spans) /\ CellsOfSpans(item.spans) = item.cells
UndoList(u) == IsSeq(u) /\ Len(u) <= MaxUndo /\ \A i \in 1..Len(u) : UndoItem(u[i])

EntryShape(e) == {"cells", "cursor", "spans", "undo", "overwrite"} \subseteq DOMAIN e
EntryTyped(e) ==
  /\ EntryShape(e)
  /\ IsSeq(e.cells)
  /\ e.cursor \in 0..Len(e.cells)
  /\ IsDocument(e.spans)
  /\ UndoList(e.undo)
  /\ e.overwrite \in BOOLEAN

\* The cells are those of the document, or plain characters if another text is on
\* display than the document's.
Faithful(e) ==
  IF Display(e.spans) = Shown(e.cells) THEN CellsOfSpans(e.spans) = e.cells
  ELSE e.cells = CellsOfText(Shown(e.cells))

\* Where the entry is the document's, or will be without being touched again.
AtEntry(m, f) == m \in DocumentModes /\ (f = NoFlow \/ f.mode = "History")

\* The documents that were kept, each for the line it was submitted as.
KeptDocument(d) ==
  /\ "source" \in DOMAIN d /\ "spans" \in DOMAIN d
  /\ IsDocument(d.spans)
  /\ Source(d.spans) = d.source
Known(documents) ==
  /\ IsSeq(documents)
  /\ Len(documents) <= DocumentLimit
  /\ \A i \in 1..Len(documents) : KeptDocument(documents[i])
  /\ \A i, j \in 1..Len(documents) : documents[i].source = documents[j].source => i = j
RecallShape(r) == {"pos", "last", "available", "documents"} \subseteq DOMAIN r
RecallTyped(r) == RecallShape(r) /\ IsSeq(r.last) /\ Known(r.documents)

HistoryTyped(h) == IsRecorded(h) /\ Len(h) <= HistoryLimit /\ RecordsFit(h)

RunningTyped ==
  ~Idle =>
    /\ IsSeq(running.source)
    /\ HistoryTyped(running.history)
    /\ running.kind # "other" => RecordFits(running)

\* The sizes that a workflow asks for, and the values that are texts. Whether the x
\* of a distribution is a text or a number depends on the distribution.
Sizes == [matrix_rows |-> 1..4, vector_dimension |-> 2..3, inequality_degree |-> 1..4,
          polynomial_degree |-> 2..4, simultaneous_size |-> 2..4]
TextKeys ==
  {"matrix_row_0", "matrix_row_1", "matrix_row_2", "matrix_row_3", "vector_0", "vector_1", "vector_2",
   "inequality_0", "inequality_1", "inequality_2", "inequality_3", "inequality_4", "vector_scalar",
   "stat_x", "stat_y", "stat_frequency", "stat_t", "stat_target", "sigma", "mu", "lower", "upper", "lam",
   "table_f", "table_g", "table_start", "table_end", "table_step",
   "ratio_A", "ratio_B", "ratio_C", "ratio_D", "sheet_reference_prefix", "sheet_fill_text"}
HoldsText(field) == field.type \notin {"choice", "integer"}

ValueFits(key, value) ==
  /\ key \in TextKeys => IsSeq(value)
  /\ key \in DOMAIN Sizes => value \in Sizes[key]
FlowValues(m, s, values) ==
  /\ \A key \in DOMAIN values : ValueFits(key, values[key])
  /\ "x" \in DOMAIN values => m = "Distribution" /\ s = "distribution_run"
FlowDrafts(draft) == \A key \in DOMAIN draft : IsSeq(draft[key])

\* A field of a stage, and the fields that its successors rely on.
ProperField(m, s, field) ==
  /\ IsSeq(field.default)
  /\ field.key \in TextKeys => HoldsText(field)
  /\ HoldsText(field) => field.key \in TextKeys \cup {"x"}
  /\ field.key = "x" => m = "Distribution" /\ s = "distribution_run"
  /\ field.key \in DOMAIN Sizes =>
       field.type = "integer" /\ \A n \in field.min..field.max : n \in Sizes[field.key]
Asks(fields, key) == \E i \in 1..Len(fields) : fields[i].key = key
Asked(m, s) ==
  CASE m = "Matrix" /\ s = "matrix_shape" -> {"matrix_rows"}
    [] m = "Vector" /\ s = "vector_shape" -> {"vector_dimension"}
    [] m = "Inequality" /\ s = "inequality_degree" -> {"inequality_degree"}
    [] m = "Spreadsheet" /\ s = "sheet_grab" -> {"sheet_reference_prefix"}
    [] m = "Spreadsheet" /\ s = "sheet_fill" -> {"sheet_fill_text"}
    [] m = "Equation" /\ s = "equation_poly_degree" -> {"polynomial_degree"}
    [] m = "Equation" /\ s \notin {"equation_kind", "equation_poly_degree"} -> {"simultaneous_size"}
    [] OTHER -> {}
ProperFields(m, s, fields) ==
  /\ IsSeq(fields)
  /\ Len(fields) > 0
  /\ \A i \in 1..Len(fields) : ProperField(m, s, fields[i]) /\ (fields[i].key = "x" => i = 1)
  /\ \A key \in Asked(m, s) : Asks(fields, key)

Workflows == DOMAIN FirstStage \cup {"Spreadsheet"}
FlowForm(m, phase, s, fields, index, values) ==
  phase = "form" =>
    /\ m \in Workflows
    /\ ProperFields(m, s, fields)
    /\ index \in 1..Len(fields)
    /\ HoldsText(fields[1]) /\ fields[1].key = "x" /\ "x" \in DOMAIN values => IsSeq(values["x"])

FlowPlace(column, row, line, lines) ==
  /\ column \in 0..LastColumn /\ row \in 0..LastRow
  /\ lines \in Nat /\ line \in 1..lines

FlowOrigin(m, phase, source, entries) ==
  /\ m \in Workflows \cup {"History"}
  /\ phase = "form" => m # "History"
  /\ phase = "sheet" => m = "Spreadsheet"
  /\ IsSeq(source)
  /\ RecordsFit(entries)

FlowTyped(f) ==
  /\ FlowKeys \subseteq DOMAIN f
  /\ FlowOrigin(f.mode, f.phase, f.source, f.entries)
  /\ FlowPlace(f.column, f.row, f.line, f.lines)
  /\ FlowDrafts(f.draft)
  /\ FlowValues(f.mode, f.stage, f.values)
  /\ FlowForm(f.mode, f.phase, f.stage, f.fields, f.index, f.values)

SizeFits(kind, size) ==
  /\ kind = "multiple_integral" => size \in 1..3
  /\ kind \in Equations => size \in 2..4
TemplateShape(t) == {"kind", "size", "count", "filled", "index", "completed"} \subseteq DOMAIN t
TemplateTyped(t) ==
  /\ TemplateShape(t)
  /\ t.kind \in Kinds
  /\ SizeFits(t.kind, t.size)
  /\ t.count = SlotCount(t.kind, t.size)
  /\ t.filled \subseteq 1..t.count
  /\ t.index \in 1..t.count
  /\ t.completed \in Nat

SheetTyped(s) == DOMAIN s = Addresses /\ \A a \in Addresses : IsSeq(s[a])

\* The second inductive invariant, on top of the first, without what the user did last.
StateTyped ==
  /\ mode \in Modes
  /\ effort \in 0..MaxEffort
  /\ EntryTyped(entry)
  /\ AtEntry(mode, flow) => Faithful(entry)
  /\ RecallTyped(recall)
  /\ HistoryTyped(history)
  /\ RunningTyped
  /\ flow = NoFlow \/ FlowTyped(flow)
  /\ template = NoTemplate \/ TemplateTyped(template)
  /\ SheetTyped(sheet)

\* The second invariant: StateTyped, and a key that was pressed is one of the four that matter.
TypedInv == StateTyped /\ lastKey \in {"ac", "equals", "up", "other"}

\* What AC and a successful = leave for the next up arrow.
PromiseInv ==
  /\ lastKey = "ac" => recall.pos = Len(history) /\ ~recall.available
  /\ lastKey = "equals" =>
       /\ recall.available
       /\ recall.last # Blank
       /\ history # <<>>
       /\ Last(history).kind = "evaluate"
       /\ Last(history).source = recall.last

-----------------------------------------------------------------------------
(***************************************************************************)
(* Sequences that lose or gain an element.                                 *)
(***************************************************************************)

\* The tail of a sequence.
LEMMA TailFacts ==
  ASSUME NEW s, IsSeq(s), s # <<>>
  PROVE  /\ IsSeq(Tail(s)) /\ Len(Tail(s)) = Len(s) - 1 /\ Len(s) \in Nat \ {0}
         /\ \A i \in 1..Len(s) - 1 : Tail(s)[i] = s[i + 1] /\ i + 1 \in 1..Len(s)
<1>1. Len(s) \in Nat \ {0}
  BY SeqFacts, NoElements
<1>2. Tail(s) \in Seq(Range(s)) /\ Len(Tail(s)) = Len(s) - 1
  BY HeadTailProperties DEF IsSeq
<1>3. \A i \in 1..Len(s) - 1 : Tail(s)[i] = s[i + 1]
  BY <1>1, <1>2, HeadTailProperties DEF IsSeq
<1>4. IsSeq(Tail(s))
  BY <1>2, SeqIsSeq
<1>5. \A i \in 1..Len(s) - 1 : i + 1 \in 1..Len(s)
  BY <1>1
<1> QED
  BY <1>1, <1>2, <1>3, <1>4, <1>5

\* A list that takes one more and drops the oldest when it is longer than its limit.
LEMMA LimitedList ==
  ASSUME NEW s, IsSeq(s), NEW limit \in Nat \ {0}, Len(s) <= limit, NEW e
  PROVE  LET t == Append(s, e)
             u == IF Len(t) > limit THEN Tail(t) ELSE t
         IN /\ IsSeq(u) /\ Len(u) <= limit /\ Len(u) > 0
            /\ \A i \in 1..Len(u) : u[i] = e \/ \E j \in 1..Len(s) : u[i] = s[j]
            /\ u[Len(u)] = e
<1> DEFINE t == Append(s, e)
           u == IF Len(t) > limit THEN Tail(t) ELSE t
<1>1. /\ Len(s) \in Nat /\ IsSeq(t) /\ t # <<>> /\ Len(t) = Len(s) + 1
      /\ \A i \in 1..Len(s) : t[i] = s[i]
      /\ t[Len(s) + 1] = e
  <2>1. Len(s) \in Nat
    BY SeqFacts
  <2>2. /\ IsSeq(t) /\ t # <<>> /\ Len(t) = Len(s) + 1 /\ t[Len(s) + 1] = e
        /\ \A i \in 1..Len(s) : t[i] = s[i]
    BY AppendSeqs, ZenonT(40)
  <2> QED
    BY <2>1, <2>2, Zenon
<1> HIDE DEF t
<1>2. \A i \in 1..Len(t) : t[i] = e \/ \E j \in 1..Len(s) : t[i] = s[j]
  BY <1>1
<1>3. CASE Len(t) > limit
  <2>1. /\ IsSeq(Tail(t)) /\ Len(Tail(t)) = Len(s) /\ Len(s) > 0
        /\ \A i \in 1..Len(s) : Tail(t)[i] = t[i + 1] /\ i + 1 \in 1..Len(t)
    BY <1>1, <1>3, TailFacts
  <2>2. Tail(t)[Len(s)] = e
    BY <1>1, <2>1
  <2> QED
    BY <1>1, <1>2, <1>3, <2>1, <2>2 DEF t
<1>4. CASE ~(Len(t) > limit)
  BY <1>1, <1>2, <1>4 DEF t
<1> QED
  BY <1>3, <1>4 DEF t

\* Typing at a caret, and deleting before or after it.
LEMMA CutFacts ==
  ASSUME NEW s, IsSeq(s)
  PROVE  /\ \A e : \A p \in 0..Len(s) : IsSeq(InsertAt(s, p + 1, e)) /\ Len(InsertAt(s, p + 1, e)) = Len(s) + 1
         /\ \A p \in 1..Len(s) : IsSeq(RemoveAt(s, p)) /\ Len(RemoveAt(s, p)) = Len(s) - 1
<1>1. Len(s) \in Nat
  BY SeqFacts
<1>2. ASSUME NEW p \in 0..Len(s), NEW e
      PROVE  IsSeq(InsertAt(s, p + 1, e)) /\ Len(InsertAt(s, p + 1, e)) = Len(s) + 1
  <2> DEFINE a == SubSeq(s, 1, p)
             z == SubSeq(s, p + 1, Len(s))
  <2>1. IsSeq(a) /\ Len(a) = p /\ IsSeq(z) /\ Len(z) = Len(s) - p
    BY SplitSeq
  <2>2. InsertAt(s, p + 1, e) = (a \o <<e>>) \o z
    <3>1. (p + 1) - 1 = p
      BY <1>1
    <3> QED
      BY <3>1 DEF InsertAt
  <2> HIDE DEF a, z
  <2>3. IsSeq(a \o <<e>>) /\ Len(a \o <<e>>) = p + 1
    BY <2>1, ConcatSeqs, SingleIsSeq
  <2>4. IsSeq((a \o <<e>>) \o z) /\ Len((a \o <<e>>) \o z) = (p + 1) + (Len(s) - p)
    BY <2>1, <2>3, ConcatSeqs
  <2>5. (p + 1) + (Len(s) - p) = Len(s) + 1
    BY <1>1
  <2> QED
    BY <2>2, <2>4, <2>5
<1>3. ASSUME NEW p \in 1..Len(s)
      PROVE  IsSeq(RemoveAt(s, p)) /\ Len(RemoveAt(s, p)) = Len(s) - 1
  <2> DEFINE a == SubSeq(s, 1, p - 1)
             z == SubSeq(s, p + 1, Len(s))
  <2>1. p - 1 \in 0..Len(s) /\ p \in 0..Len(s)
    BY <1>1
  <2>2. IsSeq(a) /\ Len(a) = p - 1 /\ IsSeq(z) /\ Len(z) = Len(s) - p
    BY <2>1, SplitSeq
  <2>3. RemoveAt(s, p) = a \o z
    BY DEF RemoveAt
  <2> HIDE DEF a, z
  <2>4. IsSeq(a \o z) /\ Len(a \o z) = (p - 1) + (Len(s) - p)
    BY <2>2, ConcatSeqs
  <2> QED
    BY <1>1, <2>3, <2>4
<1> QED
  BY <1>2, <1>3

-----------------------------------------------------------------------------
(***************************************************************************)
(* When the entry is the document's.                                       *)
(***************************************************************************)

\* The document has the cells.
LEMMA FaithfulDocument ==
  ASSUME NEW e, IsDocument(e.spans), CellsOfSpans(e.spans) = e.cells
  PROVE  Faithful(e)
<1>1. Display(e.spans) = Shown(e.cells)
  BY DocumentIsItsCells
<1> QED
  BY <1>1 DEF Faithful

\* A text without prefix symbols can only be shown by characters.
LEMMA FaithfulPlain ==
  ASSUME NEW e, IsDocument(e.spans), NEW text, IsSeq(text), e.cells = CellsOfText(text),
         \A i \in 1..Len(text) : text[i] \notin Symbols
  PROVE  Faithful(e)
<1> DEFINE cells == CellsOfSpans(e.spans)
<1>1. IsLine(cells) /\ Shown(cells) = Display(e.spans)
  BY DocumentIsItsCells
<1>2. Shown(e.cells) = text
  BY CellsOfTextFacts
<1>3. CASE Display(e.spans) = text
  <2>1. IsSeq(cells) /\ Len(cells) = Len(text) /\ Len(cells) \in Nat
    BY <1>1, <1>3, ShownFacts, SeqFacts DEF IsLine
  <2>2. ASSUME NEW i \in 1..Len(text) PROVE cells[i] = CharCell(text[i])
    <3>1. IsCell(cells[i]) /\ cells[i].shown = text[i]
      BY <1>1, <1>3, <2>1, ShownFacts DEF IsLine
    <3>2. text[i] \notin Symbols
      OBVIOUS
    <3>3. ASSUME NEW symbol \in Symbols PROVE cells[i] # PrefixCell(symbol)
      BY <3>1, <3>2 DEF PrefixCell
    <3>4. PICK token : cells[i] = CharCell(token)
      BY <3>1, <3>3 DEF IsCell
    <3>5. token = text[i]
      BY <3>1, <3>4 DEF CharCell
    <3> QED
      BY <3>4, <3>5
  <2>3. /\ IsSeq(CellsOfText(text)) /\ Len(CellsOfText(text)) = Len(text)
        /\ \A i \in 1..Len(text) : CellsOfText(text)[i] = CharCell(text[i])
    BY CellsOfTextFacts
  <2> HIDE DEF cells
  <2>4. cells = CellsOfText(text)
    BY <2>1, <2>2, <2>3, EqualSeqs
  <2> QED
    BY <1>2, <1>3, <2>4 DEF Faithful, cells
<1>4. CASE Display(e.spans) # text
  BY <1>2, <1>4 DEF Faithful
<1> QED
  BY <1>3, <1>4

\* Nothing, and the banner of a list of results.
LEMMA BannerAndBlank ==
  /\ IsSeq(Blank) /\ \A i \in 1..Len(Blank) : Blank[i] \notin Symbols
  /\ IsSeq(Banner) /\ \A i \in 1..Len(Banner) : Banner[i] \notin Symbols
<1>1. IsSeq(Blank) /\ Len(Blank) = 0
  BY EmptyIsSeq DEF Blank
<1>2. IsSeq(Banner) /\ Len(Banner) = 1 /\ Banner[1] = "menu"
  BY SingleIsSeq DEF Banner
<1>3. "menu" \notin Symbols
  BY DEF Symbols, PrefixSource
<1> QED
  BY <1>1, <1>2, <1>3

\* _expression_document_for_entry: the document that is edited and submitted is
\* the one of the cells.
LEMMA CurrentCells ==
  ASSUME EntryTyped(entry), Faithful(entry)
  PROVE  IsDocument(CurrentDocument) /\ CellsOfSpans(CurrentDocument) = entry.cells
<1>1. IsSeq(entry.cells) /\ IsDocument(entry.spans)
  BY DEF EntryTyped
<1>2. IsSeq(Text)
  BY <1>1, ShownFacts DEF Text
<1>3. CASE Display(entry.spans) = Text
  BY <1>1, <1>3 DEF CurrentDocument, Faithful, Text
<1>4. CASE Display(entry.spans) # Text
  <2>1. CurrentDocument = FromText(Text) /\ entry.cells = CellsOfText(Text)
    BY <1>4 DEF CurrentDocument, Faithful, Text
  <2> QED
    BY <1>2, <2>1, FromTextFacts
<1> QED
  BY <1>3, <1>4

-----------------------------------------------------------------------------
(***************************************************************************)
(* What the operations on the entry keep.                                  *)
(***************************************************************************)

\* set_expr and its relatives put a text into the entry, or a document.
LEMMA ShowsKeeps ==
  ASSUME NEW e, EntryTyped(e), NEW text, IsSeq(text)
  PROVE  /\ EntryTyped(Shows(e, text))
         /\ Shows(e, text).cells = CellsOfText(text) /\ Shows(e, text).spans = e.spans
         /\ \A d : IsDocument(d) => /\ EntryTyped([Shows(e, text) EXCEPT !.spans = d])
                                    /\ [Shows(e, text) EXCEPT !.spans = d].cells = CellsOfText(text)
                                    /\ [Shows(e, text) EXCEPT !.spans = d].spans = d
<1>1. IsSeq(CellsOfText(text)) /\ Len(CellsOfText(text)) = Len(text) /\ Len(text) \in Nat
  BY CellsOfTextFacts, SeqFacts
<1>2. Len(text) \in 0..Len(CellsOfText(text))
  BY <1>1
<1> DEFINE g == Shows(e, text)
<1>3. /\ EntryShape(g) /\ g.cells = CellsOfText(text) /\ g.cursor = Len(text)
      /\ g.spans = e.spans /\ g.undo = e.undo /\ g.overwrite = e.overwrite
  BY DEF EntryTyped, EntryShape, Shows
<1> HIDE DEF g
<1>4. EntryTyped(g)
  BY <1>1, <1>2, <1>3 DEF EntryTyped
<1>5. ASSUME NEW d, IsDocument(d)
      PROVE  /\ EntryTyped([g EXCEPT !.spans = d])
             /\ [g EXCEPT !.spans = d].cells = CellsOfText(text)
             /\ [g EXCEPT !.spans = d].spans = d
  BY <1>3, <1>4, <1>5 DEF EntryTyped, EntryShape
<1> QED
  BY <1>3, <1>4, <1>5 DEF g

LEMMA ShowsDocumentKeeps ==
  ASSUME NEW e, EntryTyped(e), NEW d, IsDocument(d), NEW c, IsSeq(c), NEW n \in 0..Len(c)
  PROVE  /\ EntryTyped(ShowsDocument(e, d, c, n))
         /\ ShowsDocument(e, d, c, n).cells = c /\ ShowsDocument(e, d, c, n).spans = d
<1> DEFINE g == ShowsDocument(e, d, c, n)
<1>1. /\ EntryShape(g) /\ g.cells = c /\ g.cursor = n
      /\ g.spans = d /\ g.undo = e.undo /\ g.overwrite = e.overwrite
  BY DEF EntryTyped, EntryShape, ShowsDocument
<1> HIDE DEF g
<1>2. EntryTyped(g)
  BY <1>1 DEF EntryTyped
<1> QED
  BY <1>1, <1>2 DEF g

\* A text that nothing was typed into is shown faithfully by any document.
LEMMA ShowsPlainly ==
  ASSUME NEW e, EntryTyped(e), NEW text \in {Blank, Banner}
  PROVE  EntryTyped(Shows(e, text)) /\ Faithful(Shows(e, text))
<1>1. IsSeq(text) /\ \A i \in 1..Len(text) : text[i] \notin Symbols
  BY BannerAndBlank
<1>2. /\ EntryTyped(Shows(e, text)) /\ Shows(e, text).cells = CellsOfText(text)
      /\ Shows(e, text).spans = e.spans /\ IsDocument(e.spans)
  BY <1>1, ShowsKeeps DEF EntryTyped
<1> QED
  BY <1>1, <1>2, FaithfulPlain

\* A text is shown faithfully by its own document.
LEMMA ShowsFaithfully ==
  ASSUME NEW e, EntryTyped(e), NEW text, IsSeq(text)
  PROVE  /\ EntryTyped([Shows(e, text) EXCEPT !.spans = FromText(text)])
         /\ Faithful([Shows(e, text) EXCEPT !.spans = FromText(text)])
<1>1. IsDocument(FromText(text)) /\ CellsOfSpans(FromText(text)) = CellsOfText(text)
  BY FromTextFacts
<1> DEFINE g == [Shows(e, text) EXCEPT !.spans = FromText(text)]
<1>2. EntryTyped(g) /\ g.cells = CellsOfText(text) /\ g.spans = FromText(text)
  BY <1>1, ShowsKeeps
<1> HIDE DEF g
<1>3. Faithful(g)
  BY <1>1, <1>2, FaithfulDocument
<1> QED
  BY <1>2, <1>3 DEF g

\* remember: what is kept for undo can be shown again.
LEMMA RememberedKeeps ==
  ASSUME NEW e, EntryTyped(e), EntryTyped(entry),
         DocumentActive => Faithful(entry) /\ e.cells = entry.cells
  PROVE  /\ EntryTyped(Remembered(e))
         /\ Remembered(e).cells = e.cells /\ Remembered(e).spans = e.spans
         /\ Remembered(e).cursor = e.cursor /\ Remembered(e).overwrite = e.overwrite
         /\ UndoItem(Last(Remembered(e).undo))
<1> DEFINE item == [document |-> DocumentActive, cells |-> e.cells,
                    spans |-> IF DocumentActive THEN CurrentDocument ELSE NoSpans]
           t == Append(e.undo, item)
           u == IF Len(t) > MaxUndo THEN Tail(t) ELSE t
<1>1. UndoItem(item)
  <2>1. item.cells = e.cells /\ IsSeq(e.cells)
    BY DEF EntryTyped
  <2>2. CASE DocumentActive
    <3>1. IsDocument(CurrentDocument) /\ CellsOfSpans(CurrentDocument) = e.cells
      BY <2>2, CurrentCells
    <3>2. item.spans = CurrentDocument
      BY <2>2
    <3> QED
      BY <2>1, <3>1, <3>2 DEF UndoItem
  <2>3. CASE ~DocumentActive
    <3>1. ~item.document
      BY <2>3
    <3> QED
      BY <2>1, <3>1 DEF UndoItem
  <2> QED
    BY <2>2, <2>3
<1>2. Remembered(e) = [e EXCEPT !.undo = u]
  BY DEF Remembered
<1> HIDE DEF item
<1>3. IsSeq(e.undo) /\ Len(e.undo) <= MaxUndo /\ MaxUndo \in Nat \ {0}
  BY InterfaceAssumption DEF EntryTyped, UndoList
<1>4. /\ IsSeq(u) /\ Len(u) <= MaxUndo /\ Len(u) > 0
      /\ \A i \in 1..Len(u) : u[i] = item \/ \E j \in 1..Len(e.undo) : u[i] = e.undo[j]
      /\ u[Len(u)] = item
  BY <1>3, LimitedList
<1> HIDE DEF t, u
<1>5. UndoList(u) /\ Last(u) = item
  BY <1>1, <1>4 DEF UndoList, EntryTyped, Last
<1> DEFINE g == [e EXCEPT !.undo = u]
<1>6. /\ EntryShape(g) /\ g.cells = e.cells /\ g.cursor = e.cursor
      /\ g.spans = e.spans /\ g.undo = u /\ g.overwrite = e.overwrite
  BY DEF EntryTyped, EntryShape
<1> HIDE DEF g
<1>7. EntryTyped(g)
  BY <1>5, <1>6 DEF EntryTyped
<1> QED
  BY <1>1, <1>2, <1>5, <1>6, <1>7 DEF g

\* insert puts one character into the cells and into the document.
LEMMA TypedKeeps ==
  ASSUME NEW e, EntryTyped(e), EntryTyped(entry), NEW token,
         DocumentActive => Faithful(entry) /\ e.cells = entry.cells
  PROVE  /\ EntryTyped(Typed(e, token))
         /\ DocumentActive => Faithful(Typed(e, token))
<1> DEFINE over == e.overwrite /\ e.cursor < Len(e.cells)
           kept == IF over THEN RemoveAt(e.cells, e.cursor + 1) ELSE e.cells
           document == IF e.overwrite THEN DeleteForward(CurrentDocument, e.cursor) ELSE CurrentDocument
           c == InsertAt(kept, e.cursor + 1, CharCell(token))
           d == IF DocumentActive THEN InsertText(document, e.cursor, <<token>>) ELSE e.spans
           g == Typed(e, token)
<1>1. /\ EntryShape(g) /\ g.cells = c /\ g.cursor = e.cursor + 1
      /\ g.spans = d /\ g.undo = e.undo /\ g.overwrite = e.overwrite
  BY DEF EntryTyped, EntryShape, Typed
<1>2. IsSeq(e.cells) /\ Len(e.cells) \in Nat /\ e.cursor \in Nat /\ e.cursor <= Len(e.cells) /\ e.overwrite \in BOOLEAN
  BY SeqFacts DEF EntryTyped
<1>3. IsSeq(kept) /\ Len(kept) \in Nat /\ e.cursor <= Len(kept)
  <2>1. CASE over
    <3>1. e.cursor + 1 \in 1..Len(e.cells)
      BY <1>2, <2>1
    <3>2. IsSeq(kept) /\ Len(kept) = Len(e.cells) - 1
      BY <1>2, <2>1, <3>1, CutFacts
    <3> QED
      BY <1>2, <2>1, <3>2
  <2>2. CASE ~over
    BY <1>2, <2>2
  <2> QED
    BY <2>1, <2>2
<1> HIDE DEF g
<1>4. IsSeq(c) /\ Len(c) = Len(kept) + 1 /\ e.cursor + 1 \in 0..Len(c)
  <2> HIDE DEF kept
  <2>1. e.cursor \in 0..Len(kept)
    BY <1>2, <1>3
  <2>2. IsSeq(c) /\ Len(c) = Len(kept) + 1
    BY <1>3, <2>1, CutFacts
  <2> QED
    BY <1>2, <1>3, <2>2
<1>5. ASSUME DocumentActive PROVE IsDocument(d) /\ CellsOfSpans(d) = c
  <2>1. IsDocument(CurrentDocument) /\ CellsOfSpans(CurrentDocument) = e.cells
    BY <1>5, CurrentCells
  <2>2. e.cursor \in 0..Len(CellsOfSpans(CurrentDocument))
    BY <1>2, <2>1
  <2>3. IsDocument(document) /\ CellsOfSpans(document) = kept
    <3>1. CASE e.overwrite
      <4>1. /\ IsDocument(DeleteForward(CurrentDocument, e.cursor))
            /\ CellsOfSpans(DeleteForward(CurrentDocument, e.cursor))
                 = IF e.cursor < Len(e.cells) THEN RemoveAt(e.cells, e.cursor + 1) ELSE e.cells
        BY <2>1, <2>2, DeleteFacts
      <4> QED
        BY <3>1, <4>1
    <3>2. CASE ~e.overwrite
      BY <2>1, <3>2
    <3> QED
      BY <3>1, <3>2
  <2> HIDE DEF document, kept
  <2>4. e.cursor \in 0..Len(CellsOfSpans(document))
    BY <1>2, <1>3, <2>3
  <2>5. /\ IsDocument(InsertText(document, e.cursor, <<token>>))
        /\ CellsOfSpans(InsertText(document, e.cursor, <<token>>))
             = InsertAt(CellsOfSpans(document), e.cursor + 1, CharCell(token))
    BY <2>3, <2>4, InsertionInsertsACell
  <2> QED
    BY <1>5, <2>3, <2>5
<1>6. IsDocument(d)
  BY <1>5 DEF EntryTyped
<1> HIDE DEF c, d
<1>7. EntryTyped(g)
  BY <1>1, <1>4, <1>6 DEF EntryTyped
<1>8. DocumentActive => Faithful(g)
  BY <1>1, <1>5, FaithfulDocument
<1> QED
  BY <1>7, <1>8 DEF g

\* DEL behind a cell takes it out of the cells and out of the document.
LEMMA ErasedKeeps ==
  ASSUME NEW e, EntryTyped(e), EntryTyped(entry), e.cursor # 0,
         DocumentActive => Faithful(entry) /\ e.cells = entry.cells,
         NEW g, g = [e EXCEPT !.cells = RemoveAt(e.cells, e.cursor), !.cursor = e.cursor - 1,
                              !.spans = IF DocumentActive THEN DeleteBackward(CurrentDocument, e.cursor)
                                        ELSE e.spans]
  PROVE  EntryTyped(g) /\ (DocumentActive => Faithful(g))
<1> DEFINE c == RemoveAt(e.cells, e.cursor)
           d == IF DocumentActive THEN DeleteBackward(CurrentDocument, e.cursor) ELSE e.spans
<1>1. /\ EntryShape(g) /\ g.cells = c /\ g.cursor = e.cursor - 1
      /\ g.spans = d /\ g.undo = e.undo /\ g.overwrite = e.overwrite
  BY DEF EntryTyped, EntryShape
<1>2. IsSeq(e.cells) /\ Len(e.cells) \in Nat /\ e.cursor \in 1..Len(e.cells)
  BY SeqFacts DEF EntryTyped
<1>3. IsSeq(c) /\ Len(c) = Len(e.cells) - 1
  BY <1>2, CutFacts
<1>4. ASSUME DocumentActive PROVE IsDocument(d) /\ CellsOfSpans(d) = c
  <2>1. IsDocument(CurrentDocument) /\ CellsOfSpans(CurrentDocument) = e.cells
    BY <1>4, CurrentCells
  <2>2. e.cursor \in 0..Len(CellsOfSpans(CurrentDocument)) /\ e.cursor # 0
    BY <1>2, <2>1
  <2>3. /\ IsDocument(DeleteBackward(CurrentDocument, e.cursor))
        /\ CellsOfSpans(DeleteBackward(CurrentDocument, e.cursor)) = RemoveAt(CellsOfSpans(CurrentDocument), e.cursor)
    BY <2>1, <2>2, DeleteFacts
  <2> QED
    BY <1>4, <2>1, <2>3
<1>5. IsDocument(d)
  BY <1>4 DEF EntryTyped
<1>6. e.cursor - 1 \in 0..Len(c)
  BY <1>2, <1>3
<1> HIDE DEF c, d
<1>7. EntryTyped(g)
  BY <1>1, <1>3, <1>5, <1>6 DEF EntryTyped
<1>8. DocumentActive => Faithful(g)
  BY <1>1, <1>4, FaithfulDocument
<1> QED
  BY <1>7, <1>8

\* The engineering prefix is one cell of the document.
LEMMA PrefixedKeeps ==
  ASSUME NEW e, EntryTyped(e), EntryTyped(entry), DocumentActive, Faithful(entry), e.cells = entry.cells,
         NEW symbol \in Symbols
  PROVE  LET g == ShowsDocument(e, InsertEngineeringPrefix(CurrentDocument, e.cursor, symbol),
                                InsertAt(e.cells, e.cursor + 1, PrefixCell(symbol)), e.cursor + 1)
         IN EntryTyped(g) /\ Faithful(g)
<1> DEFINE c == InsertAt(e.cells, e.cursor + 1, PrefixCell(symbol))
           d == InsertEngineeringPrefix(CurrentDocument, e.cursor, symbol)
           g == ShowsDocument(e, d, c, e.cursor + 1)
<1>1. IsSeq(e.cells) /\ Len(e.cells) \in Nat /\ e.cursor \in 0..Len(e.cells)
  BY SeqFacts DEF EntryTyped
<1>2. IsSeq(c) /\ Len(c) = Len(e.cells) + 1
  BY <1>1, CutFacts
<1>3. IsDocument(CurrentDocument) /\ CellsOfSpans(CurrentDocument) = e.cells
  BY CurrentCells
<1>4. IsDocument(d) /\ CellsOfSpans(d) = c
  BY <1>1, <1>3, InsertionInsertsACell
<1>5. e.cursor + 1 \in 0..Len(c)
  BY <1>1, <1>2
<1> HIDE DEF c, d
<1>6. EntryTyped(g) /\ g.cells = c /\ g.spans = d
  BY <1>2, <1>4, <1>5, ShowsDocumentKeeps
<1> HIDE DEF g
<1>7. Faithful(g)
  BY <1>4, <1>6, FaithfulDocument
<1> QED
  BY <1>6, <1>7 DEF g, c, d

\* A document that was kept is recalled with its cells.
LEMMA KeptIsFaithful ==
  ASSUME NEW e, EntryTyped(e), NEW d, IsDocument(d)
  PROVE  LET g == ShowsDocument(e, d, CellsOfSpans(d), Len(Display(d)))
         IN EntryTyped(g) /\ Faithful(g)
<1> DEFINE c == CellsOfSpans(d)
           n == Len(Display(d))
           g == ShowsDocument(e, d, c, n)
<1>1. IsSeq(c) /\ n = Len(c) /\ Len(c) \in Nat
  BY DocumentIsItsCells, EndsCountCells DEF IsLine
<1>2. n \in 0..Len(c)
  BY <1>1
<1>3. CellsOfSpans(d) = c
  OBVIOUS
<1> HIDE DEF c, n
<1>4. EntryTyped(g) /\ g.cells = c /\ g.spans = d
  BY <1>1, <1>2, ShowsDocumentKeeps
<1> HIDE DEF g
<1>5. Faithful(g)
  BY <1>3, <1>4, FaithfulDocument
<1> QED
  BY <1>4, <1>5 DEF g, c, n

\* The caret and the overwrite mode are not the entry's text.
LEMMA CaretKeeps ==
  ASSUME NEW e, EntryTyped(e), NEW n \in 0..Len(e.cells), NEW b \in BOOLEAN
  PROVE  /\ EntryTyped([e EXCEPT !.cursor = n]) /\ (Faithful(e) => Faithful([e EXCEPT !.cursor = n]))
         /\ EntryTyped([e EXCEPT !.overwrite = b]) /\ (Faithful(e) => Faithful([e EXCEPT !.overwrite = b]))
<1>1. ASSUME NEW g, g = [e EXCEPT !.cursor = n]
      PROVE  EntryTyped(g) /\ (Faithful(e) => Faithful(g))
  <2>1. /\ EntryShape(g) /\ g.cells = e.cells /\ g.cursor = n
        /\ g.spans = e.spans /\ g.undo = e.undo /\ g.overwrite = e.overwrite
    BY <1>1 DEF EntryTyped, EntryShape
  <2> QED
    BY <2>1 DEF EntryTyped, Faithful
<1>2. ASSUME NEW g, g = [e EXCEPT !.overwrite = b]
      PROVE  EntryTyped(g) /\ (Faithful(e) => Faithful(g))
  <2>1. /\ EntryShape(g) /\ g.cells = e.cells /\ g.cursor = e.cursor
        /\ g.spans = e.spans /\ g.undo = e.undo /\ g.overwrite = b
    BY <1>2 DEF EntryTyped, EntryShape
  <2> QED
    BY <2>1 DEF EntryTyped, Faithful
<1> QED
  BY <1>1, <1>2

\* ALPHA DEL: what the undo list keeps is shown, and the text on display is kept.
LEMMA UndoneKeeps ==
  ASSUME EntryTyped(entry), DocumentActive => Faithful(entry), entry.undo # <<>>
  PROVE  LET e == [entry EXCEPT !.undo = Append(Front(@), Last(Remembered(entry).undo))]
             previous == Last(entry.undo)
         IN /\ EntryTyped(e)
            /\ UndoItem(previous)
<1> DEFINE item == Last(Remembered(entry).undo)
           u == Append(Front(entry.undo), item)
           e == [entry EXCEPT !.undo = u]
           previous == Last(entry.undo)
<1>1. UndoItem(item)
  BY RememberedKeeps
<1> HIDE DEF item
<1>2. /\ IsSeq(entry.undo) /\ Len(entry.undo) <= MaxUndo
      /\ \A i \in 1..Len(entry.undo) : UndoItem(entry.undo[i])
  BY DEF EntryTyped, UndoList
<1>3. /\ IsSeq(Front(entry.undo)) /\ Len(Front(entry.undo)) = Len(entry.undo) - 1 /\ Len(entry.undo) \in Nat \ {0}
      /\ \A i \in 1..Len(entry.undo) - 1 : Front(entry.undo)[i] = entry.undo[i]
      /\ previous = entry.undo[Len(entry.undo)]
  BY <1>2, LastElement
<1>4. /\ IsSeq(u) /\ Len(u) = (Len(entry.undo) - 1) + 1
      /\ \A i \in 1..Len(entry.undo) - 1 : u[i] = Front(entry.undo)[i]
      /\ u[(Len(entry.undo) - 1) + 1] = item
  <2> DEFINE f == Front(entry.undo)
  <2>1. IsSeq(f) /\ Len(f) = Len(entry.undo) - 1
    BY <1>3
  <2> HIDE DEF f
  <2>2. /\ IsSeq(Append(f, item)) /\ Len(Append(f, item)) = Len(f) + 1
        /\ \A i \in 1..Len(f) : Append(f, item)[i] = f[i]
        /\ Append(f, item)[Len(f) + 1] = item
    BY <2>1, AppendSeqs
  <2>3. u = Append(f, item)
    BY DEF f
  <2> HIDE DEF u
  <2>4. IsSeq(u) /\ Len(u) = Len(f) + 1 /\ (\A i \in 1..Len(f) : u[i] = f[i]) /\ u[Len(f) + 1] = item
    BY <2>2, <2>3
  <2> QED
    BY <2>1, <2>4 DEF f
<1>5. (Len(entry.undo) - 1) + 1 = Len(entry.undo) /\ Len(entry.undo) \in 1..Len(entry.undo)
  BY <1>3
<1> HIDE DEF u
<1>6. ASSUME NEW i \in 1..Len(u) PROVE UndoItem(u[i])
  <2>1. CASE i \in 1..Len(entry.undo) - 1
    <3>1. i \in 1..Len(entry.undo)
      BY <1>3, <2>1
    <3>2. u[i] = entry.undo[i]
      BY <1>3, <1>4, <2>1
    <3> QED
      BY <1>2, <3>1, <3>2
  <2>2. CASE i \notin 1..Len(entry.undo) - 1
    <3>1. i = Len(entry.undo)
      BY <1>3, <1>4, <1>5, <2>2
    <3> QED
      BY <1>1, <1>4, <1>5, <3>1
  <2> QED
    BY <2>1, <2>2
<1>7. UndoList(u)
  BY <1>2, <1>4, <1>5, <1>6 DEF UndoList
<1>8. /\ EntryShape(e) /\ e.cells = entry.cells /\ e.cursor = entry.cursor
      /\ e.spans = entry.spans /\ e.undo = u /\ e.overwrite = entry.overwrite
  BY DEF EntryTyped, EntryShape
<1>9. EntryTyped(e)
  <2> HIDE DEF e
  <2> QED
    BY <1>7, <1>8 DEF EntryTyped
<1>10. UndoItem(previous)
  <2> HIDE DEF previous
  <2> QED
    BY <1>2, <1>3, <1>5
<1> QED
  BY <1>9, <1>10 DEF u, item

-----------------------------------------------------------------------------
(***************************************************************************)
(* Submitted lines, their documents, and the history.                      *)
(***************************************************************************)

\* The keys that leave the recall of expressions as it is.
LEMMA RecallStays ==
  ASSUME NEW r, RecallTyped(r), NEW v, NEW w
  PROVE  /\ RecallTyped([r EXCEPT !.available = v])
         /\ RecallTyped([r EXCEPT !.pos = v])
         /\ RecallTyped([r EXCEPT !.pos = v, !.available = w])
<1>1. ASSUME NEW q, DOMAIN q = DOMAIN r, q.last = r.last, q.documents = r.documents
      PROVE  RecallTyped(q)
  BY <1>1 DEF RecallTyped, RecallShape
<1>2. RecallTyped([r EXCEPT !.available = v])
  BY <1>1 DEF RecallTyped, RecallShape
<1>3. RecallTyped([r EXCEPT !.pos = v])
  BY <1>1 DEF RecallTyped, RecallShape
<1>4. RecallTyped([r EXCEPT !.pos = v, !.available = w])
  BY <1>1 DEF RecallTyped, RecallShape
<1> QED
  BY <1>2, <1>3, <1>4

\* The document of a line that is already known takes the place of the older one.
LEMMA KnownReplaced ==
  ASSUME NEW documents, Known(documents), NEW spans, IsDocument(spans),
         NEW k \in 1..Len(documents), documents[k].source = Source(spans)
  PROVE  Known([documents EXCEPT ![k].spans = spans])
<1> DEFINE kept == [documents EXCEPT ![k].spans = spans]
<1>1. /\ IsSeq(documents) /\ Len(documents) \in Nat /\ DOMAIN documents = 1..Len(documents)
      /\ Len(documents) <= DocumentLimit
  BY SeqFacts DEF Known
<1>2. DOMAIN kept = 1..Len(documents) /\ kept = [i \in DOMAIN kept |-> kept[i]]
  BY <1>1
<1>3. IsSeq(kept) /\ Len(kept) = Len(documents)
  <2> HIDE DEF kept
  <2> QED
    BY <1>1, <1>2, FunctionIsSeq
<1>4. ASSUME NEW i \in 1..Len(documents)
      PROVE  KeptDocument(kept[i]) /\ kept[i].source = documents[i].source
  <2>1. KeptDocument(documents[i])
    BY DEF Known
  <2>2. CASE i # k
    <3>1. kept[i] = documents[i]
      BY <1>1, <2>2
    <3> QED
      BY <2>1, <3>1
  <2>3. CASE i = k
    <3>1. kept[k] = [documents[k] EXCEPT !.spans = spans]
      BY <1>1
    <3>2. kept[k].source = documents[k].source /\ kept[k].spans = spans /\ DOMAIN kept[k] = DOMAIN documents[k]
      BY <2>1, <2>3, <3>1 DEF KeptDocument
    <3> HIDE DEF kept
    <3> QED
      BY <2>1, <2>3, <3>2 DEF KeptDocument
  <2> QED
    BY <2>2, <2>3
<1> HIDE DEF kept
<1>5. Known(kept)
  BY <1>1, <1>3, <1>4 DEF Known
<1> QED
  BY <1>5 DEF kept

\* A new line is added with its document, and the oldest may go.
LEMMA KnownAppended ==
  ASSUME NEW documents, Known(documents), NEW spans, IsDocument(spans),
         \A k \in 1..Len(documents) : documents[k].source # Source(spans)
  PROVE  LET t == Append(documents, [source |-> Source(spans), spans |-> spans])
         IN Known(IF Len(t) > DocumentLimit THEN Tail(t) ELSE t)
<1> DEFINE d == [source |-> Source(spans), spans |-> spans]
           t == Append(documents, d)
<1>1. /\ IsSeq(documents) /\ Len(documents) \in Nat
      /\ Len(documents) <= DocumentLimit /\ DocumentLimit \in Nat \ {0}
  BY SeqFacts, InterfaceAssumption DEF Known
<1>2. KeptDocument(d) /\ d.source = Source(spans)
  BY DEF KeptDocument
<1> HIDE DEF d
<1>3. /\ IsSeq(t) /\ t # <<>> /\ Len(t) = Len(documents) + 1
      /\ \A i \in 1..Len(documents) : t[i] = documents[i]
      /\ t[Len(documents) + 1] = d
  BY <1>1, AppendSeqs
<1> HIDE DEF t
<1>4. ASSUME NEW i \in 1..Len(t) PROVE i \in 1..Len(documents) \/ i = Len(documents) + 1
  BY <1>1, <1>3
<1>5. \A i \in 1..Len(t) : KeptDocument(t[i])
  BY <1>2, <1>3, <1>4 DEF Known
<1>6. ASSUME NEW i \in 1..Len(t), NEW j \in 1..Len(t), t[i].source = t[j].source PROVE i = j
  <2>1. CASE i \in 1..Len(documents) /\ j \in 1..Len(documents)
    BY <1>3, <1>6, <2>1 DEF Known
  <2>2. CASE i \in 1..Len(documents) /\ j = Len(documents) + 1
    BY <1>2, <1>3, <1>6, <2>2
  <2>3. CASE i = Len(documents) + 1 /\ j \in 1..Len(documents)
    BY <1>2, <1>3, <1>6, <2>3
  <2> QED
    BY <1>4, <2>1, <2>2, <2>3
<1>7. CASE Len(t) > DocumentLimit
  <2>1. /\ IsSeq(Tail(t)) /\ Len(Tail(t)) = Len(documents)
        /\ \A i \in 1..Len(documents) : Tail(t)[i] = t[i + 1] /\ i + 1 \in 1..Len(t)
    BY <1>1, <1>3, TailFacts
  <2>2. \A i \in 1..Len(documents) : KeptDocument(Tail(t)[i])
    BY <1>5, <2>1
  <2>3. ASSUME NEW i \in 1..Len(documents), NEW j \in 1..Len(documents), Tail(t)[i].source = Tail(t)[j].source
        PROVE  i = j
    <3>1. i + 1 = j + 1
      BY <1>6, <2>1, <2>3
    <3> QED
      BY <3>1
  <2>4. Known(Tail(t))
    BY <1>1, <2>1, <2>2, <2>3 DEF Known
  <2> QED
    BY <1>7, <2>4 DEF t, d
<1>8. CASE ~(Len(t) > DocumentLimit)
  <2>1. Known(t)
    BY <1>1, <1>3, <1>5, <1>6, <1>8 DEF Known
  <2> QED
    BY <1>8, <2>1 DEF t, d
<1> QED
  BY <1>7, <1>8

\* _record_submitted_expression keeps a document for the line it is the source of.
LEMMA RecordKeepsDocuments ==
  ASSUME NEW source, IsSeq(source), NEW r, RecallTyped(r), IsDocument(entry.spans)
  PROVE  /\ RecallTyped(Record(source, r))
         /\ Record(source, r).last = source
         /\ Record(source, r).available = TRUE
<1> DEFINE known == {i \in DOMAIN r.documents : r.documents[i].source = source}
           new == [source |-> source, spans |-> entry.spans]
           replaced == [r.documents EXCEPT ![CHOOSE i \in known : TRUE].spans = entry.spans]
           kept == IF Source(entry.spans) # source THEN r.documents
                   ELSE IF known # {} THEN replaced ELSE Append(r.documents, new)
           left == IF Len(kept) > DocumentLimit THEN Tail(kept) ELSE kept
           q == Record(source, r)
<1>1. Known(r.documents) /\ DOMAIN r.documents = 1..Len(r.documents) /\ Len(r.documents) \in Nat
  BY SeqFacts DEF RecallTyped, Known
<1>2. RecallShape(q) /\ q.last = source /\ q.available = TRUE /\ q.documents = left
  BY DEF RecallTyped, RecallShape, Record
<1>3. ASSUME NEW documents, Known(documents)
      PROVE  ~(Len(documents) > DocumentLimit)
  BY <1>3, SeqFacts, InterfaceAssumption DEF Known
<1>4. Known(left)
  <2>1. CASE Source(entry.spans) # source
    BY <1>1, <1>3, <2>1
  <2>2. CASE Source(entry.spans) = source /\ known # {}
    <3> DEFINE k == CHOOSE i \in known : TRUE
    <3>1. k \in known
      BY <2>2
    <3>2. k \in 1..Len(r.documents) /\ r.documents[k].source = Source(entry.spans)
      BY <1>1, <2>2, <3>1
    <3>3. kept = replaced
      BY <2>2
    <3> HIDE DEF k
    <3>4. Known([r.documents EXCEPT ![k].spans = entry.spans])
      BY <1>1, <3>2, KnownReplaced
    <3>5. Known(replaced)
      BY <3>4 DEF k
    <3> HIDE DEF kept, replaced, known
    <3> QED
      BY <1>3, <3>3, <3>5
  <2>3. CASE Source(entry.spans) = source /\ known = {}
    <3>1. \A k \in 1..Len(r.documents) : r.documents[k].source # Source(entry.spans)
      BY <1>1, <2>3
    <3>2. left = LET t == Append(r.documents, [source |-> Source(entry.spans), spans |-> entry.spans])
                 IN IF Len(t) > DocumentLimit THEN Tail(t) ELSE t
      BY <2>3
    <3> HIDE DEF left
    <3> QED
      BY <1>1, <3>1, <3>2, KnownAppended
  <2> QED
    BY <2>1, <2>2, <2>3
<1> HIDE DEF q, left
<1> QED
  BY <1>2, <1>4 DEF RecallTyped, q

\* DocumentsMatchTheirLines is one of the facts about what is kept.
LEMMA KnownDocumentsMatch ==
  ASSUME RecallTyped(recall)
  PROVE  DocumentsMatchTheirLines
<1>1. Known(recall.documents) /\ DOMAIN recall.documents = 1..Len(recall.documents)
  BY SeqFacts DEF RecallTyped, Known
<1> QED
  BY <1>1 DEF DocumentsMatchTheirLines, Known, KeptDocument

\* A history gains a record and loses its oldest, and is shown newest first.
LEMMA ExtendedFits ==
  ASSUME NEW kind \in RecordKinds, HistoryTyped(running.history),
         RecordFits(Entry(kind, running.size, running.source, running.filled))
  PROVE  /\ HistoryTyped(Extended(kind))
         /\ Extended(kind) # <<>>
         /\ Last(Extended(kind)) = Entry(kind, running.size, running.source, running.filled)
<1> DEFINE e == Entry(kind, running.size, running.source, running.filled)
           h == running.history
           u == Extended(kind)
<1>1. /\ IsSeq(h) /\ Len(h) <= HistoryLimit /\ HistoryLimit \in Nat \ {0}
      /\ \A i \in 1..Len(h) : h[i].kind \in RecordKinds /\ RecordFits(h[i])
  BY SeqFacts, InterfaceAssumption DEF HistoryTyped, IsRecorded, RecordsFit, IsSeq
<1>2. u = LET t == Append(h, e) IN IF Len(t) > HistoryLimit THEN Tail(t) ELSE t
  BY DEF Extended
<1>3. e.kind = kind
  BY DEF Entry
<1> HIDE DEF e, h, u
<1>4. /\ IsSeq(u) /\ Len(u) <= HistoryLimit /\ Len(u) > 0
      /\ \A i \in 1..Len(u) : u[i] = e \/ \E j \in 1..Len(h) : u[i] = h[j]
      /\ u[Len(u)] = e
  BY <1>1, <1>2, LimitedList
<1>5. \A i \in 1..Len(u) : u[i].kind \in RecordKinds /\ RecordFits(u[i])
  BY <1>1, <1>3, <1>4 DEF e
<1>6. DOMAIN u = 1..Len(u) /\ Len(u) \in Nat
  BY <1>4, SeqFacts
<1>7. HistoryTyped(u)
  BY <1>4, <1>5, <1>6 DEF HistoryTyped, IsRecorded, RecordsFit, IsSeq
<1>8. u # <<>> /\ Last(u) = e
  BY <1>4, EmptyIsSeq DEF Last
<1> QED
  BY <1>7, <1>8 DEF u, e

\* Records fit their templates in any order.
LEMMA ReversedFits ==
  ASSUME NEW h, HistoryTyped(h)
  PROVE  RecordsFit(Reverse(h))
<1>1. Len(h) \in Nat /\ DOMAIN h = 1..Len(h) /\ \A i \in 1..Len(h) : RecordFits(h[i])
  BY DEF HistoryTyped, IsRecorded, RecordsFit
<1>2. \A i \in 1..Len(h) : Len(h) - i + 1 \in 1..Len(h)
  BY <1>1
<1>3. DOMAIN Reverse(h) = 1..Len(h) /\ \A i \in 1..Len(h) : Reverse(h)[i] = h[Len(h) - i + 1]
  BY <1>1 DEF Reverse
<1> QED
  BY <1>1, <1>2, <1>3 DEF RecordsFit

\* A record of any history, and the list that shows none yet.
LEMMA RecordOfHistory ==
  ASSUME NEW h, HistoryTyped(h), NEW i \in 1..Len(h)
  PROVE  RecordFits(h[i]) /\ h[i].kind \in RecordKinds /\ IsSeq(h[i].source)
BY DEF HistoryTyped, IsRecorded, RecordsFit, RecordFits, IsSeq

\* A cleared history is a history.
LEMMA NoRecordsFit == HistoryTyped(<<>>) /\ RecordsFit(<<>>)
<1>1. Len(<<>>) = 0 /\ DOMAIN <<>> = {}
  BY EmptyIsSeq, SeqFacts
<1> QED
  BY <1>1, NoRecords, InterfaceAssumption DEF HistoryTyped, RecordsFit

-----------------------------------------------------------------------------
(***************************************************************************)
(* Templates.                                                              *)
(***************************************************************************)

\* Every template has slots.
LEMMA SlotsOf ==
  ASSUME NEW kind \in Kinds, NEW size, SizeFits(kind, size)
  PROVE  SlotCount(kind, size) \in Nat \ {0}
<1>1. CASE kind \in {"complex_integral", "derivative"}
  BY <1>1 DEF SlotCount
<1>2. CASE kind \in {"integral", "ode", "ode_details"}
  BY <1>2 DEF SlotCount
<1>3. CASE kind = "multiple_integral"
  <2>1. size \in 1..3
    BY <1>3 DEF SizeFits
  <2>2. SlotCount(kind, size) = 3 * size + 1
    BY <1>3 DEF SlotCount
  <2> QED
    BY <2>1, <2>2
<1>4. CASE kind = "polynomial"
  <2>1. size \in 2..4
    BY <1>4 DEF SizeFits, Equations
  <2>2. SlotCount(kind, size) = size + 1
    BY <1>4 DEF SlotCount
  <2> QED
    BY <2>1, <2>2
<1>5. CASE kind = "simultaneous"
  <2>1. size \in {2, 3, 4}
    BY <1>5 DEF SizeFits, Equations
  <2>2. SlotCount(kind, size) = size * (size + 1)
    BY <1>5 DEF SlotCount
  <2> QED
    BY <2>1, <2>2
<1> QED
  BY <1>1, <1>2, <1>3, <1>4, <1>5 DEF Kinds

\* start_*_template: on the first slot, with slots of this template filled.
LEMMA OpenTyped ==
  ASSUME NEW kind \in Kinds, NEW size, SizeFits(kind, size),
         NEW filled, filled \subseteq 1..SlotCount(kind, size)
  PROVE  TemplateTyped(Open(kind, size, filled))
<1>1. SlotCount(kind, size) \in Nat \ {0}
  BY SlotsOf
<1> DEFINE t == Open(kind, size, filled)
<1>2. /\ TemplateShape(t) /\ t.kind = kind /\ t.size = size /\ t.count = SlotCount(kind, size)
      /\ t.filled = filled /\ t.index = 1 /\ t.completed = 0
  BY DEF Open, TemplateShape
<1> HIDE DEF t
<1>3. 1 \in 1..SlotCount(kind, size)
  BY <1>1
<1>4. TemplateTyped(t)
  BY <1>2, <1>3 DEF TemplateTyped
<1> QED
  BY <1>4 DEF t

\* The keys of a template move among its slots and fill and empty them.
LEMMA SlotKeys ==
  ASSUME NEW t, TemplateTyped(t)
  PROVE  /\ \A letter \in BOOLEAN : TemplateTyped(FillSlot(t, letter))
         /\ TemplateTyped(EraseSlot(t))
         /\ \A d \in {-1, 1} : TemplateTyped(MoveSlot(t, d))
<1>1. t.count \in Nat \ {0} /\ t.index \in 1..t.count /\ t.filled \subseteq 1..t.count
  BY SlotsOf DEF TemplateTyped
<1>2. ASSUME NEW filled, filled \subseteq 1..t.count
      PROVE  TemplateTyped([t EXCEPT !.filled = filled])
  <2> DEFINE u == [t EXCEPT !.filled = filled]
  <2>1. /\ TemplateShape(u) /\ u.kind = t.kind /\ u.size = t.size /\ u.count = t.count
        /\ u.filled = filled /\ u.index = t.index /\ u.completed = t.completed
    BY DEF TemplateTyped, TemplateShape
  <2> HIDE DEF u
  <2>2. TemplateTyped(u)
    BY <1>2, <2>1 DEF TemplateTyped
  <2> QED
    BY <2>2 DEF u
<1>3. ASSUME NEW letter \in BOOLEAN PROVE TemplateTyped(FillSlot(t, letter))
  <2>1. TemplateTyped([t EXCEPT !.filled = t.filled \cup {t.index}])
    BY <1>1, <1>2
  <2> QED
    BY <2>1 DEF FillSlot
<1>4. TemplateTyped(EraseSlot(t))
  <2>1. TemplateTyped([t EXCEPT !.filled = t.filled \ {t.index}])
    BY <1>1, <1>2
  <2> QED
    BY <2>1 DEF EraseSlot
<1>5. ASSUME NEW d \in {-1, 1} PROVE TemplateTyped(MoveSlot(t, d))
  <2> DEFINE n == ((t.index - 1 + d) % t.count) + 1
             u == [t EXCEPT !.index = n]
  <2>1. n \in 1..t.count
    <3>1. t.index - 1 + d \in Int /\ t.count \in Nat \ {0}
      BY <1>1
    <3>2. \A i \in Int, k \in Nat \ {0} : (i % k) + 1 \in 1..k
      OBVIOUS
    <3> QED
      BY <3>1, <3>2
  <2>2. u = MoveSlot(t, d)
    BY DEF MoveSlot
  <2> HIDE DEF n
  <2>3. /\ TemplateShape(u) /\ u.kind = t.kind /\ u.size = t.size /\ u.count = t.count
        /\ u.filled = t.filled /\ u.index = n /\ u.completed = t.completed
    BY DEF TemplateTyped, TemplateShape
  <2> HIDE DEF u
  <2>4. TemplateTyped(u)
    BY <2>1, <2>3 DEF TemplateTyped
  <2> QED
    BY <2>2, <2>4
<1> QED
  BY <1>3, <1>4, <1>5

\* = in a system of equations goes to the first slot of the next one.
LEMMA NextEquation ==
  ASSUME NEW t, TemplateTyped(t), t.kind = "simultaneous", ~LastRowReached(t)
  PROVE  TemplateTyped(AcceptRow(t))
<1>1. t.size \in {2, 3, 4} /\ t.count = t.size * (t.size + 1) /\ t.completed \in Nat
  BY DEF TemplateTyped, SizeFits, Equations, SlotCount
<1> DEFINE row == CurrentRow(t)
<1>2. row \in 0..t.size - 1 /\ row # t.size - 1
  BY <1>1 DEF CurrentRow, LastRowReached
<1> HIDE DEF row
<1> DEFINE n == (row + 1) * (t.size + 1) + 1
           u == [t EXCEPT !.completed = row + 1, !.index = n]
<1>3. row + 1 \in Nat /\ n \in 1..t.count
  <2>1. CASE t.size = 2
    BY <1>1, <1>2, <2>1
  <2>2. CASE t.size = 3
    <3>1. row = 0 \/ row = 1
      BY <1>2, <2>2
    <3> QED
      BY <1>1, <2>2, <3>1
  <2>3. CASE t.size = 4
    <3>1. row = 0 \/ row = 1 \/ row = 2
      BY <1>2, <2>3
    <3> QED
      BY <1>1, <2>3, <3>1
  <2> QED
    BY <1>1, <2>1, <2>2, <2>3
<1>4. u = AcceptRow(t)
  BY DEF AcceptRow, row
<1> HIDE DEF n
<1>5. /\ TemplateShape(u) /\ u.kind = t.kind /\ u.size = t.size /\ u.count = t.count
      /\ u.filled = t.filled /\ u.index = n /\ u.completed = row + 1
  BY DEF TemplateTyped, TemplateShape
<1> HIDE DEF u
<1>6. TemplateTyped(u)
  BY <1>3, <1>5 DEF TemplateTyped
<1> QED
  BY <1>4, <1>6

\* _recall_structured_history: what a record opens.
LEMMA RestoredTyped ==
  ASSUME NEW record, RecordFits(record), record.kind \in RecordKinds, record.kind # "evaluate"
  PROVE  TemplateTyped(Restored(record))
<1>1. record.kind \in Kinds \ Equations
  BY DEF RecordKinds, InBackground, Equations
<1>2. record.filled \subseteq 1..SlotCount(record.kind, record.size)
  BY DEF RecordFits
<1>3. CASE record.kind \in {"integral", "complex_integral"}
  <2>1. record.filled \subseteq 1..4
    BY <1>2, <1>3 DEF SlotCount
  <2>2. /\ record.filled \cap {2, 3} \subseteq 1..SlotCount("complex_integral", 0)
        /\ record.filled \cup {4} \subseteq 1..SlotCount("integral", 0)
    BY <2>1 DEF SlotCount
  <2>3. TemplateTyped(Open("complex_integral", 0, record.filled \cap {2, 3}))
    BY <2>2, OpenTyped DEF SizeFits, Kinds, Equations
  <2>4. TemplateTyped(Open("integral", 0, record.filled \cup {4}))
    BY <2>2, OpenTyped DEF SizeFits, Kinds, Equations
  <2> QED
    BY <1>3, <2>3, <2>4 DEF Restored
<1>4. CASE record.kind = "derivative"
  <2>1. record.filled \cup {2} \subseteq 1..SlotCount("derivative", 0)
    BY <1>2, <1>4 DEF SlotCount
  <2>2. TemplateTyped(Open("derivative", 0, record.filled \cup {2}))
    BY <2>1, OpenTyped DEF SizeFits, Kinds, Equations
  <2> QED
    BY <1>4, <2>2 DEF Restored
<1>5. CASE record.kind \in {"ode", "ode_details"}
  <2>1. record.filled \subseteq 1..4
    BY <1>2, <1>5 DEF SlotCount
  <2> DEFINE filled == {1, 2, 3} \cup (IF record.kind = "ode" THEN {} ELSE record.filled)
  <2>2. filled \subseteq 1..SlotCount("ode_details", 0)
    BY <2>1 DEF SlotCount
  <2>3. Restored(record) = Open("ode_details", 0, filled)
    BY <1>5 DEF Restored
  <2> HIDE DEF filled
  <2> QED
    BY <2>2, <2>3, OpenTyped DEF SizeFits, Kinds, Equations
<1>6. CASE record.kind = "multiple_integral"
  <2>1. SizeFits(record.kind, record.size)
    BY <1>6 DEF RecordFits, SizeFits, Equations
  <2>2. Restored(record) = Open(record.kind, record.size, record.filled)
    BY <1>6 DEF Restored
  <2> QED
    BY <1>1, <1>2, <2>1, <2>2, OpenTyped
<1> QED
  BY <1>1, <1>3, <1>4, <1>5, <1>6 DEF Kinds, Equations

-----------------------------------------------------------------------------
(***************************************************************************)
(* The fields of every stage.                                              *)
(***************************************************************************)

\* What a stage needs to know for its fields: its own name, and the sizes that the
\* stage before it has asked for.
StageReady(m, s, v) ==
  /\ m \in Workflows
  /\ m = "Matrix" =>
       /\ s \in {"matrix_action", "matrix_shape", "matrix_rows", "matrix_identity", "matrix_copy",
                 "matrix_operation"}
       /\ s = "matrix_rows" => v["matrix_rows"] \in 1..4
  /\ m = "Vector" =>
       /\ s \in {"vector_action", "vector_shape", "vector_values", "vector_copy", "vector_operation"}
       /\ s = "vector_values" => v["vector_dimension"] \in 2..3
  /\ m = "Distribution" => s \in {"distribution_kind", "distribution_run"}
  /\ m = "Inequality" /\ s # "inequality_degree" => v["inequality_degree"] \in 1..4

LEMMA PairSeq ==
  ASSUME NEW a, NEW b
  PROVE  IsSeq(<<a, b>>) /\ Len(<<a, b>>) = 2 /\ <<a, b>>[1] = a /\ <<a, b>>[2] = b
<1>1. <<a, b>> \in Seq({a, b})
  OBVIOUS
<1> QED
  BY <1>1, SeqIsSeq

LEMMA TripleSeq ==
  ASSUME NEW a, NEW b, NEW c
  PROVE  /\ IsSeq(<<a, b, c>>) /\ Len(<<a, b, c>>) = 3
         /\ <<a, b, c>>[1] = a /\ <<a, b, c>>[2] = b /\ <<a, b, c>>[3] = c
<1>1. <<a, b, c>> \in Seq({a, b, c})
  OBVIOUS
<1> QED
  BY <1>1, SeqIsSeq

\* A list of fields of a stage.
ProperList(m, s, fields) == IsSeq(fields) /\ \A i \in 1..Len(fields) : ProperField(m, s, fields[i])

LEMMA ListsOfFields ==
  ASSUME NEW m, NEW s
  PROVE  /\ ProperList(m, s, <<>>)
         /\ \A a : ProperField(m, s, a) => ProperList(m, s, <<a>>) /\ Asks(<<a>>, a.key) /\ Len(<<a>>) = 1
         /\ \A a, b : ProperField(m, s, a) /\ ProperField(m, s, b) =>
              ProperList(m, s, <<a, b>>) /\ Len(<<a, b>>) = 2 /\ Asks(<<a, b>>, b.key)
         /\ \A a, b, c : ProperField(m, s, a) /\ ProperField(m, s, b) /\ ProperField(m, s, c) =>
              ProperList(m, s, <<a, b, c>>) /\ Len(<<a, b, c>>) = 3 /\ Asks(<<a, b, c>>, b.key)
<1>1. ProperList(m, s, <<>>)
  BY EmptyIsSeq DEF ProperList
<1>2. ASSUME NEW a, ProperField(m, s, a)
      PROVE  ProperList(m, s, <<a>>) /\ Asks(<<a>>, a.key) /\ Len(<<a>>) = 1
  <2> DEFINE l == <<a>>
  <2>1. IsSeq(l) /\ Len(l) = 1 /\ l[1] = a
    BY SingleIsSeq
  <2> HIDE DEF l
  <2>2. ProperList(m, s, l) /\ Asks(l, a.key)
    BY <1>2, <2>1 DEF ProperList, Asks
  <2> QED
    BY <2>1, <2>2 DEF l
<1>3. ASSUME NEW a, NEW b, ProperField(m, s, a), ProperField(m, s, b)
      PROVE  ProperList(m, s, <<a, b>>) /\ Len(<<a, b>>) = 2 /\ Asks(<<a, b>>, b.key)
  <2> DEFINE l == <<a, b>>
  <2>1. IsSeq(l) /\ Len(l) = 2 /\ l[1] = a /\ l[2] = b
    BY PairSeq
  <2> HIDE DEF l
  <2>2. \A i \in 1..Len(l) : i = 1 \/ i = 2
    BY <2>1
  <2>3. ProperList(m, s, l)
    BY <1>3, <2>1, <2>2 DEF ProperList
  <2>4. Asks(l, b.key)
    BY <2>1 DEF Asks
  <2> QED
    BY <2>1, <2>3, <2>4 DEF l
<1>4. ASSUME NEW a, NEW b, NEW c, ProperField(m, s, a), ProperField(m, s, b), ProperField(m, s, c)
      PROVE  ProperList(m, s, <<a, b, c>>) /\ Len(<<a, b, c>>) = 3 /\ Asks(<<a, b, c>>, b.key)
  <2> DEFINE l == <<a, b, c>>
  <2>1. IsSeq(l) /\ Len(l) = 3 /\ l[1] = a /\ l[2] = b /\ l[3] = c
    BY TripleSeq
  <2> HIDE DEF l
  <2>2. \A i \in 1..Len(l) : i = 1 \/ i = 2 \/ i = 3
    BY <2>1
  <2>3. ProperList(m, s, l)
    BY <1>4, <2>1, <2>2 DEF ProperList
  <2>4. Asks(l, b.key)
    BY <2>1 DEF Asks
  <2> QED
    BY <2>1, <2>3, <2>4 DEF l
<1> QED
  BY <1>1, <1>2, <1>3, <1>4

LEMMA ListsJoined ==
  ASSUME NEW m, NEW s, NEW a, NEW b, ProperList(m, s, a), ProperList(m, s, b)
  PROVE  /\ ProperList(m, s, a \o b) /\ Len(a \o b) = Len(a) + Len(b)
         /\ Len(a) \in Nat /\ Len(b) \in Nat
         /\ \A i \in 1..Len(a) : (a \o b)[i] = a[i]
<1>1. /\ IsSeq(a \o b) /\ Len(a \o b) = Len(a) + Len(b)
      /\ \A i \in 1..Len(a) : (a \o b)[i] = a[i]
      /\ \A i \in 1..Len(b) : (a \o b)[Len(a) + i] = b[i]
      /\ Len(a) \in Nat /\ Len(b) \in Nat
  BY ConcatSeqs, SeqFacts DEF ProperList
<1>2. \A i \in 1..Len(a) + Len(b) : i \in 1..Len(a) \/ (i - Len(a) \in 1..Len(b) /\ Len(a) + (i - Len(a)) = i)
  BY <1>1
<1> QED
  BY <1>1, <1>2 DEF ProperList

LEMMA ListExtended ==
  ASSUME NEW m, NEW s, NEW a, ProperList(m, s, a), NEW field, ProperField(m, s, field)
  PROVE  /\ ProperList(m, s, Append(a, field)) /\ Len(Append(a, field)) > 0
         /\ Asks(Append(a, field), field.key)
<1> DEFINE l == Append(a, field)
<1>1. /\ IsSeq(l) /\ Len(l) = Len(a) + 1 /\ Len(a) \in Nat
      /\ \A i \in 1..Len(a) : l[i] = a[i]
      /\ l[Len(a) + 1] = field
  BY AppendSeqs, SeqFacts DEF ProperList
<1> HIDE DEF l
<1>2. \A i \in 1..Len(l) : i \in 1..Len(a) \/ i = Len(a) + 1
  BY <1>1
<1>3. ProperList(m, s, l)
  BY <1>1, <1>2 DEF ProperList
<1>4. Asks(l, field.key)
  <2>1. Len(a) + 1 \in 1..Len(l)
    BY <1>1
  <2> QED
    BY <1>1, <2>1 DEF Asks
<1> QED
  BY <1>1, <1>3, <1>4 DEF l

\* Choices, integers and texts.
LEMMA ProperChoice ==
  ASSUME NEW m, NEW s, NEW key, NEW options, key \notin TextKeys, key # "x", key \notin DOMAIN Sizes
  PROVE  ProperField(m, s, Choice(key, options)) /\ Choice(key, options).key = key
<1> DEFINE field == Choice(key, options)
<1>1. field.key = key /\ field.type = "choice" /\ field.default = Code(1)
  BY DEF Choice, Field
<1>2. IsSeq(Code(1))
  BY SingleIsSeq DEF Code
<1> HIDE DEF field
<1>3. ProperField(m, s, field)
  BY <1>1, <1>2 DEF ProperField, HoldsText
<1> QED
  BY <1>1, <1>3 DEF field

\* A size asked for is a size the next stage takes.
LEMMA ProperInteger ==
  ASSUME NEW m, NEW s, NEW key, NEW default, NEW min, NEW max, key \notin TextKeys,
         key = "x" => m = "Distribution" /\ s = "distribution_run",
         key \in DOMAIN Sizes => \A n \in min..max : n \in Sizes[key]
  PROVE  ProperField(m, s, Integer(key, default, min, max)) /\ Integer(key, default, min, max).key = key
<1> DEFINE field == Integer(key, default, min, max)
<1>1. field.key = key /\ field.type = "integer" /\ field.default = <<default>> /\ field.min = min /\ field.max = max
  BY DEF Integer, Field
<1>2. IsSeq(<<default>>)
  BY SingleIsSeq
<1> HIDE DEF field
<1>3. ProperField(m, s, field)
  BY <1>1, <1>2 DEF ProperField, HoldsText
<1> QED
  BY <1>1, <1>3 DEF field

LEMMA NoSizeIsText == \A key \in TextKeys \cup {"x"} : key \notin DOMAIN Sizes
BY DEF TextKeys, Sizes

\* Fields of text ask for nothing a later stage computes with.
LEMMA ProperTexts ==
  ASSUME NEW m, NEW s, NEW key \in TextKeys
  PROVE  /\ \A default : /\ ProperField(m, s, Number(key, default)) /\ Number(key, default).key = key
         /\ \A n : ProperField(m, s, MatrixRow(key, n))
         /\ \A type, default : type \notin {"choice", "integer"} /\ IsSeq(default) =>
              ProperField(m, s, Field(key, type, default)) /\ Field(key, type, default).key = key
<1>1. key # "x" /\ key \notin DOMAIN Sizes
  BY NoSizeIsText DEF TextKeys
<1>2. ASSUME NEW field, field.key = key, field.type \notin {"choice", "integer"}, IsSeq(field.default)
      PROVE  ProperField(m, s, field)
  BY <1>1, <1>2 DEF ProperField, HoldsText
<1>3. ASSUME NEW type, NEW default
      PROVE  /\ Field(key, type, default).key = key /\ Field(key, type, default).type = type
             /\ Field(key, type, default).default = default
  BY DEF Field
<1>4. ASSUME NEW default
      PROVE  ProperField(m, s, Number(key, default)) /\ Number(key, default).key = key
  <2>1. IsSeq(<<default>>) /\ Number(key, default) = Field(key, "number", <<default>>)
    BY SingleIsSeq DEF Number
  <2> QED
    BY <1>2, <1>3, <2>1
<1>5. ASSUME NEW n PROVE ProperField(m, s, MatrixRow(key, n))
  <2> DEFINE field == MatrixRow(key, n)
  <2>1. field.key = key /\ field.type = "matrix_row" /\ field.default = Blank
    BY DEF MatrixRow, Field
  <2>2. IsSeq(Blank)
    BY BannerAndBlank
  <2> HIDE DEF field
  <2>3. ProperField(m, s, field)
    BY <1>2, <2>1, <2>2
  <2> QED
    BY <2>3 DEF field
<1>6. ASSUME NEW type, NEW default, type \notin {"choice", "integer"}, IsSeq(default)
      PROVE  ProperField(m, s, Field(key, type, default)) /\ Field(key, type, default).key = key
  BY <1>2, <1>3, <1>6
<1> QED
  BY <1>4, <1>5, <1>6

\* A list of fields is proper when it holds what is asked, outside of distributions.
LEMMA ProperByList ==
  ASSUME NEW m, NEW s, NEW fields, ProperList(m, s, fields), Len(fields) > 0, m # "Distribution",
         \A key \in Asked(m, s) : Asks(fields, key)
  PROVE  ProperFields(m, s, fields)
<1>1. \A i \in 1..Len(fields) : fields[i].key # "x"
  BY DEF ProperList, ProperField
<1> QED
  BY <1>1 DEF ProperFields, ProperList

LEMMA IntegralsProper ==
  ASSUME NEW m \in CalculusModes, NEW s, NEW v, NEW fields \in Fields(m, s, v)
  PROVE  ProperFields(m, s, fields)
<1>1. \A options : ProperField(m, s, Choice("calculus_action", options))
  BY ProperChoice DEF TextKeys, Sizes
<1>2. fields \in {IntegralFields, ComplexIntegralFields}
  BY CalculusFields
<1>3. ProperList(m, s, fields) /\ Len(fields) = 1
  BY <1>1, <1>2, ListsOfFields DEF IntegralFields, ComplexIntegralFields
<1>4. Asked(m, s) = {} /\ m # "Distribution"
  BY DEF Asked, CalculusModes
<1> QED
  BY <1>3, <1>4, ProperByList

\* A form of n like fields, each under a key of its own.
LEMMA RowsProper ==
  ASSUME NEW m, NEW s, NEW n \in Nat \ {0}, NEW fields, DOMAIN fields = 1..n,
         fields = [i \in DOMAIN fields |-> fields[i]],
         \A i \in 1..n : ProperField(m, s, fields[i])
  PROVE  ProperList(m, s, fields) /\ Len(fields) = n
<1>1. IsSeq(fields) /\ Len(fields) = n
  BY FunctionIsSeq
<1> QED
  BY <1>1 DEF ProperList

NotEmpty(m, s, fields) == ProperList(m, s, fields) /\ Len(fields) > 0

LEMMA MoreFields ==
  ASSUME NEW m, NEW s, NEW a, NEW b, NotEmpty(m, s, a), ProperList(m, s, b)
  PROVE  NotEmpty(m, s, a \o b)
<1>1. ProperList(m, s, a)
  BY DEF NotEmpty
<1>2. ProperList(m, s, a \o b) /\ Len(a \o b) = Len(a) + Len(b) /\ Len(a) \in Nat /\ Len(b) \in Nat
  BY <1>1, ListsJoined
<1> QED
  BY <1>2 DEF NotEmpty

LEMMA OneField ==
  ASSUME NEW m, NEW s, NEW field, ProperField(m, s, field)
  PROVE  NotEmpty(m, s, <<field>>)
<1> DEFINE a == <<field>>
<1>1. ProperList(m, s, a) /\ Len(a) = 1
  BY ListsOfFields
<1> HIDE DEF a
<1>2. NotEmpty(m, s, a)
  BY <1>1 DEF NotEmpty
<1> QED
  BY <1>2 DEF a

LEMMA OneText ==
  ASSUME NEW m, NEW s, NEW key, key \in TextKeys
  PROVE  /\ \A default : ProperField(m, s, Number(key, default))
         /\ \A n : ProperField(m, s, MatrixRow(key, n))
BY ProperTexts

LEMMA MatrixFieldsProper ==
  ASSUME NEW m, m = "Matrix", NEW s, NEW v, StageReady(m, s, v)
  PROVE  ProperFields(m, s, MatrixFields(s, v))
<1> DEFINE fields == MatrixFields(s, v)
<1>1. /\ \A options : ProperField(m, s, Choice("action", options))
      /\ \A options : ProperField(m, s, Choice("matrix_name", options))
      /\ \A options : ProperField(m, s, Choice("matrix_source", options))
      /\ \A options : ProperField(m, s, Choice("matrix_destination", options))
      /\ \A options : ProperField(m, s, Choice("matrix_a", options))
      /\ \A options : ProperField(m, s, Choice("matrix_b", options))
  BY ProperChoice DEF TextKeys, Sizes
<1>2. /\ ProperField(m, s, Integer("matrix_rows", "2", 1, 4)) /\ Integer("matrix_rows", "2", 1, 4).key = "matrix_rows"
      /\ ProperField(m, s, Integer("matrix_cols", "2", 1, 4))
      /\ ProperField(m, s, Integer("matrix_size", "2", 1, 4))
  BY ProperInteger DEF TextKeys, Sizes
<1>3. ProperList(m, s, fields) /\ Len(fields) > 0 /\ (s = "matrix_shape" => Asks(fields, "matrix_rows"))
  <2>1. CASE s = "matrix_action"
    <3>1. fields = <<Choice("action", <<"Define / Edit", "binary", "unary", "Identity", "Copy">>)>>
      BY <2>1 DEF MatrixFields
    <3> HIDE DEF fields
    <3>2. ProperList(m, s, fields) /\ Len(fields) = 1
      BY <1>1, <3>1, ListsOfFields
    <3> QED
      BY <2>1, <3>2
  <2>2. CASE s = "matrix_shape"
    <3>1. fields = <<Choice("matrix_name", Matrices), Integer("matrix_rows", "2", 1, 4),
                     Integer("matrix_cols", "2", 1, 4)>>
      BY <2>2 DEF MatrixFields
    <3> HIDE DEF fields
    <3>2. ProperField(m, s, Choice("matrix_name", Matrices))
      BY <1>1
    <3>3. ProperList(m, s, fields) /\ Len(fields) = 3 /\ Asks(fields, "matrix_rows")
      BY <1>2, <3>1, <3>2, ListsOfFields
    <3> QED
      BY <3>3
  <2>3. CASE s = "matrix_rows"
    <3> DEFINE n == v["matrix_rows"]
    <3>1. n \in {1, 2, 3, 4}
      BY <2>3 DEF StageReady
    <3>2. fields = [r \in 1..n |-> MatrixRow(RowKeys[r], v["matrix_cols"])]
      BY <2>3 DEF MatrixFields
    <3>3. \A r \in 1..4 : RowKeys[r] \in TextKeys
      <4>1. /\ RowKeys[1] = "matrix_row_0" /\ RowKeys[2] = "matrix_row_1"
            /\ RowKeys[3] = "matrix_row_2" /\ RowKeys[4] = "matrix_row_3"
        BY DEF RowKeys
      <4>2. {"matrix_row_0", "matrix_row_1", "matrix_row_2", "matrix_row_3"} \subseteq TextKeys
        BY DEF TextKeys
      <4> QED
        BY <4>1, <4>2
    <3> HIDE DEF n, fields
    <3>4. /\ DOMAIN fields = 1..n /\ fields = [i \in DOMAIN fields |-> fields[i]]
          /\ \A i \in 1..n : fields[i] = MatrixRow(RowKeys[i], v["matrix_cols"]) /\ i \in 1..4
      BY <3>1, <3>2
    <3>5. ASSUME NEW i \in 1..n PROVE ProperField(m, s, fields[i])
      <4>1. RowKeys[i] \in TextKeys
        BY <3>3, <3>4
      <4>2. fields[i] = MatrixRow(RowKeys[i], v["matrix_cols"])
        BY <3>4
      <4> QED
        BY <4>1, <4>2, OneText, Zenon
    <3>6. n \in Nat \ {0}
      BY <3>1
    <3>7. ProperList(m, s, fields) /\ Len(fields) = n
      BY <3>4, <3>5, <3>6, RowsProper
    <3> QED
      BY <2>3, <3>6, <3>7
  <2>4. CASE s = "matrix_identity"
    <3>1. fields = <<Integer("matrix_size", "2", 1, 4)>>
      BY <2>4 DEF MatrixFields
    <3> HIDE DEF fields
    <3>2. ProperList(m, s, fields) /\ Len(fields) = 1
      BY <1>2, <3>1, ListsOfFields
    <3> QED
      BY <2>4, <3>2
  <2>5. CASE s = "matrix_copy"
    <3>1. fields = <<Choice("matrix_source", Matrices), Choice("matrix_destination", Matrices)>>
      BY <2>5 DEF MatrixFields
    <3> HIDE DEF fields
    <3>2. ProperField(m, s, Choice("matrix_source", Matrices)) /\ ProperField(m, s, Choice("matrix_destination", Matrices))
      BY <1>1
    <3>3. ProperList(m, s, fields) /\ Len(fields) = 2
      BY <3>1, <3>2, ListsOfFields
    <3> QED
      BY <2>5, <3>3
  <2>6. CASE s = "matrix_operation"
    <3> DEFINE a == <<Choice("matrix_a", Matrices)>>
               b == IF v["action"] = "binary" THEN <<Choice("matrix_b", Matrices)>> ELSE <<>>
    <3>1. fields = a \o b
      BY <2>6 DEF MatrixFields
    <3>2. NotEmpty(m, s, a)
      BY <1>1, OneField
    <3>3. ProperList(m, s, b)
      BY <1>1, ListsOfFields
    <3> HIDE DEF a, b, fields
    <3>4. NotEmpty(m, s, a \o b)
      BY <3>2, <3>3, MoreFields, Zenon
    <3> QED
      BY <2>6, <3>1, <3>4 DEF NotEmpty
  <2> QED
    BY <2>1, <2>2, <2>3, <2>4, <2>5, <2>6 DEF StageReady
<1>4. \A key \in Asked(m, s) : s = "matrix_shape" /\ key = "matrix_rows"
  BY DEF Asked
<1> HIDE DEF fields
<1>5. ProperFields(m, s, fields)
  <2>1. m # "Distribution"
    OBVIOUS
  <2> QED
    BY <1>3, <1>4, <2>1, ProperByList
<1> QED
  BY <1>5 DEF fields

LEMMA VectorFieldsProper ==
  ASSUME NEW m, m = "Vector", NEW s, NEW v, StageReady(m, s, v)
  PROVE  ProperFields(m, s, VectorFields(s, v))
<1> DEFINE fields == VectorFields(s, v)
<1>1. /\ \A options : ProperField(m, s, Choice("action", options))
      /\ \A options : ProperField(m, s, Choice("vector_name", options))
      /\ \A options : ProperField(m, s, Choice("vector_source", options))
      /\ \A options : ProperField(m, s, Choice("vector_destination", options))
      /\ \A options : ProperField(m, s, Choice("vector_a", options))
      /\ \A options : ProperField(m, s, Choice("vector_b", options))
  BY ProperChoice DEF TextKeys, Sizes
<1>2. /\ ProperField(m, s, Integer("vector_dimension", "2", 2, 3))
      /\ Integer("vector_dimension", "2", 2, 3).key = "vector_dimension"
  BY ProperInteger DEF TextKeys, Sizes
<1>3. ProperField(m, s, Number("vector_scalar", "1"))
  <2>1. "vector_scalar" \in TextKeys
    BY DEF TextKeys
  <2> QED
    BY <2>1, ProperTexts, Zenon
<1>4. ProperList(m, s, fields) /\ Len(fields) > 0 /\ (s = "vector_shape" => Asks(fields, "vector_dimension"))
  <2>1. CASE s = "vector_action"
    <3>1. fields = <<Choice("action", <<"Define / Edit", "binary", "unary", "scale", "Copy">>)>>
      BY <2>1 DEF VectorFields
    <3> HIDE DEF fields
    <3>2. ProperList(m, s, fields) /\ Len(fields) = 1
      BY <1>1, <3>1, ListsOfFields
    <3> QED
      BY <2>1, <3>2
  <2>2. CASE s = "vector_shape"
    <3>1. fields = <<Choice("vector_name", Vectors), Integer("vector_dimension", "2", 2, 3)>>
      BY <2>2 DEF VectorFields
    <3> HIDE DEF fields
    <3>2. ProperField(m, s, Choice("vector_name", Vectors))
      BY <1>1
    <3>3. ProperList(m, s, fields) /\ Len(fields) = 2 /\ Asks(fields, "vector_dimension")
      BY <1>2, <3>1, <3>2, ListsOfFields
    <3> QED
      BY <3>3
  <2>3. CASE s = "vector_values"
    <3> DEFINE n == v["vector_dimension"]
    <3>1. n \in {2, 3}
      BY <2>3 DEF StageReady
    <3>2. fields = [i \in 1..n |-> Number(ComponentKeys[i], "0")]
      BY <2>3 DEF VectorFields
    <3>3. \A i \in 1..3 : ComponentKeys[i] \in TextKeys
      <4>1. /\ ComponentKeys[1] = "vector_0" /\ ComponentKeys[2] = "vector_1"
            /\ ComponentKeys[3] = "vector_2"
        BY DEF ComponentKeys
      <4>2. {"vector_0", "vector_1", "vector_2"} \subseteq TextKeys
        BY DEF TextKeys
      <4> QED
        BY <4>1, <4>2
    <3> HIDE DEF n, fields
    <3>4. /\ DOMAIN fields = 1..n /\ fields = [i \in DOMAIN fields |-> fields[i]]
          /\ \A i \in 1..n : fields[i] = Number(ComponentKeys[i], "0") /\ i \in 1..3
      BY <3>1, <3>2
    <3>5. ASSUME NEW i \in 1..n PROVE ProperField(m, s, fields[i])
      <4>1. ComponentKeys[i] \in TextKeys
        BY <3>3, <3>4
      <4>2. fields[i] = Number(ComponentKeys[i], "0")
        BY <3>4
      <4> QED
        BY <4>1, <4>2, OneText, Zenon
    <3>6. n \in Nat \ {0}
      BY <3>1
    <3>7. ProperList(m, s, fields) /\ Len(fields) = n
      BY <3>4, <3>5, <3>6, RowsProper
    <3> QED
      BY <2>3, <3>6, <3>7
  <2>4. CASE s = "vector_copy"
    <3>1. fields = <<Choice("vector_source", Vectors), Choice("vector_destination", Vectors)>>
      BY <2>4 DEF VectorFields
    <3> HIDE DEF fields
    <3>2. ProperField(m, s, Choice("vector_source", Vectors)) /\ ProperField(m, s, Choice("vector_destination", Vectors))
      BY <1>1
    <3>3. ProperList(m, s, fields) /\ Len(fields) = 2
      BY <3>1, <3>2, ListsOfFields
    <3> QED
      BY <2>4, <3>3
  <2>5. CASE s = "vector_operation"
    <3> DEFINE a == <<Choice("vector_a", Vectors)>>
               b == CASE v["action"] = "binary" -> <<Choice("vector_b", Vectors)>>
                      [] v["action"] = "scale" -> <<Number("vector_scalar", "1")>>
                      [] OTHER -> <<>>
    <3>1. fields = a \o b
      BY <2>5 DEF VectorFields
    <3>2. b \in {<<Choice("vector_b", Vectors)>>, <<Number("vector_scalar", "1")>>, <<>>}
      OBVIOUS
    <3> HIDE DEF b
    <3>3. NotEmpty(m, s, a)
      BY <1>1, OneField
    <3>4. ProperList(m, s, b)
      BY <1>1, <1>3, <3>2, ListsOfFields
    <3> HIDE DEF a, fields
    <3>5. NotEmpty(m, s, a \o b)
      BY <3>3, <3>4, MoreFields, Zenon
    <3> QED
      BY <2>5, <3>1, <3>5 DEF NotEmpty
  <2> QED
    BY <2>1, <2>2, <2>3, <2>4, <2>5 DEF StageReady
<1>5. \A key \in Asked(m, s) : s = "vector_shape" /\ key = "vector_dimension"
  BY DEF Asked
<1> HIDE DEF fields
<1>6. ProperFields(m, s, fields)
  <2>1. m # "Distribution"
    OBVIOUS
  <2> QED
    BY <1>4, <1>5, <2>1, ProperByList
<1> QED
  BY <1>6 DEF fields

LEMMA TwoFields ==
  ASSUME NEW m, NEW s, NEW a, NEW b, ProperField(m, s, a), ProperField(m, s, b)
  PROVE  NotEmpty(m, s, <<a, b>>)
<1> DEFINE l == <<a, b>>
<1>1. ProperList(m, s, l) /\ Len(l) = 2
  BY ListsOfFields
<1> HIDE DEF l
<1>2. NotEmpty(m, s, l)
  BY <1>1 DEF NotEmpty
<1> QED
  BY <1>2 DEF l

LEMMA ThreeFields ==
  ASSUME NEW m, NEW s, NEW a, NEW b, NEW c,
         ProperField(m, s, a), ProperField(m, s, b), ProperField(m, s, c)
  PROVE  NotEmpty(m, s, <<a, b, c>>)
<1> DEFINE l == <<a, b, c>>
<1>1. ProperList(m, s, l) /\ Len(l) = 3
  BY ListsOfFields
<1> HIDE DEF l
<1>2. NotEmpty(m, s, l)
  BY <1>1 DEF NotEmpty
<1> QED
  BY <1>2 DEF l

LEMMA StatisticsFieldsProper ==
  ASSUME NEW m, m = "Statistics", NEW s, NEW v, NEW f \in BOOLEAN
  PROVE  ProperFields(m, s, StatisticsFields(s, v, f))
<1>1. /\ "stat_x" \in TextKeys /\ "stat_y" \in TextKeys /\ "stat_frequency" \in TextKeys
      /\ "stat_t" \in TextKeys /\ "stat_target" \in TextKeys
  BY DEF TextKeys
<1>2. IsSeq(Blank) /\ "numbers" \notin {"choice", "integer"}
  BY BannerAndBlank
<1> DEFINE sx == Field("stat_x", "numbers", Blank)
           sy == Field("stat_y", "numbers", Blank)
           sf == Field("stat_frequency", "numbers", Blank)
           st == Number("stat_t", "0")
           target == Number("stat_target", "0")
           action == Choice("analysis", <<"1-Variable", "regression", "P(t)", "x->t">>)
<1>3. ProperField(m, s, sx) /\ ProperField(m, s, sy) /\ ProperField(m, s, sf)
  BY <1>1, <1>2, ProperTexts
<1>4. ProperField(m, s, st) /\ ProperField(m, s, target)
  BY <1>1, OneText
<1>5. ProperField(m, s, action)
  BY ProperChoice DEF TextKeys, Sizes
<1> DEFINE more == IF f THEN <<sf>> ELSE <<>>
           xs == <<sx>> \o more
           fields == StatisticsFields(s, v, f)
<1>6. fields = IF s = "statistics_action" THEN <<action>>
               ELSE CASE v["analysis"] = "1-Variable" -> xs
                      [] v["analysis"] = "P(t)" -> <<st>>
                      [] v["analysis"] = "x->t" -> Append(xs, target)
                      [] OTHER -> <<sx, sy>>
  BY DEF StatisticsFields
<1> HIDE DEF fields, sx, sy, sf, st, target, action
<1>7. ProperList(m, s, more)
  BY <1>3, ListsOfFields
<1> HIDE DEF more
<1>8. NotEmpty(m, s, xs)
  BY <1>3, <1>7, OneField, MoreFields
<1> HIDE DEF xs
<1>9. NotEmpty(m, s, Append(xs, target))
  BY <1>4, <1>8, ListExtended DEF NotEmpty
<1>10. NotEmpty(m, s, <<action>>) /\ NotEmpty(m, s, <<st>>)
  BY <1>4, <1>5, OneField
<1>11. NotEmpty(m, s, <<sx, sy>>)
  BY <1>3, TwoFields
<1>12. fields \in {<<action>>, xs, <<st>>, Append(xs, target), <<sx, sy>>}
  BY <1>6
<1>13. NotEmpty(m, s, fields)
  BY <1>8, <1>9, <1>10, <1>11, <1>12, Zenon
<1>14. Asked(m, s) = {} /\ m # "Distribution"
  BY DEF Asked
<1>15. ProperFields(m, s, fields)
  BY <1>13, <1>14, ProperByList DEF NotEmpty
<1> QED
  BY <1>15 DEF fields

LEMMA TableFieldsProper ==
  ASSUME NEW m, m = "Table", NEW s, NEW two \in BOOLEAN
  PROVE  ProperFields(m, s, TableFields(two))
<1>1. /\ "table_f" \in TextKeys /\ "table_g" \in TextKeys
      /\ "table_start" \in TextKeys /\ "table_end" \in TextKeys /\ "table_step" \in TextKeys
  BY DEF TextKeys
<1> DEFINE tf == Field("table_f", "function", <<"M">>)
           tg == Field("table_g", "function", <<"M">>)
           a == Number("table_start", "0")
           b == Number("table_end", "1")
           c == Number("table_step", "1")
<1>2. IsSeq(<<"M">>) /\ "function" \notin {"choice", "integer"}
  BY SingleIsSeq
<1>3. ProperField(m, s, tf) /\ ProperField(m, s, tg)
  BY <1>1, <1>2, ProperTexts
<1>4. ProperField(m, s, a) /\ ProperField(m, s, b) /\ ProperField(m, s, c)
  BY <1>1, OneText
<1> DEFINE more == IF two THEN <<tg>> ELSE <<>>
           fs == <<tf>> \o more
           fields == TableFields(two)
<1>5. fields = fs \o <<a, b, c>>
  BY DEF TableFields
<1> HIDE DEF fields, tf, tg, a, b, c
<1>6. ProperList(m, s, more)
  BY <1>3, ListsOfFields
<1> HIDE DEF more
<1>7. NotEmpty(m, s, fs)
  BY <1>3, <1>6, OneField, MoreFields
<1> HIDE DEF fs
<1>8. ProperList(m, s, <<a, b, c>>)
  BY <1>4, ListsOfFields
<1>9. NotEmpty(m, s, fields)
  BY <1>5, <1>7, <1>8, MoreFields
<1>10. Asked(m, s) = {} /\ m # "Distribution"
  BY DEF Asked
<1>11. ProperFields(m, s, fields)
  BY <1>9, <1>10, ProperByList DEF NotEmpty
<1> QED
  BY <1>11 DEF fields

LEMMA EquationFieldsProper ==
  ASSUME NEW m, m = "Equation", NEW s
  PROVE  ProperFields(m, s, EquationFields(s))
<1> DEFINE action == Choice("equation_kind", <<"polynomial", "simultaneous", "ode">>)
           degree == Integer("polynomial_degree", "2", 2, 4)
           size == Integer("simultaneous_size", "2", 2, 4)
           fields == EquationFields(s)
<1>1. ProperField(m, s, action)
  BY ProperChoice DEF TextKeys, Sizes
<1>2. /\ ProperField(m, s, degree) /\ degree.key = "polynomial_degree"
      /\ ProperField(m, s, size) /\ size.key = "simultaneous_size"
  BY ProperInteger DEF TextKeys, Sizes
<1>3. fields = CASE s = "equation_kind" -> <<action>>
                 [] s = "equation_poly_degree" -> <<degree>>
                 [] OTHER -> <<size>>
  BY DEF EquationFields
<1> HIDE DEF fields, action, degree, size
<1>4. NotEmpty(m, s, <<action>>) /\ NotEmpty(m, s, <<degree>>) /\ NotEmpty(m, s, <<size>>)
  BY <1>1, <1>2, OneField
<1>5. Asks(<<degree>>, "polynomial_degree") /\ Asks(<<size>>, "simultaneous_size")
  BY <1>2, ListsOfFields
<1>6. NotEmpty(m, s, fields) /\ \A key \in Asked(m, s) : Asks(fields, key)
  <2>1. CASE s = "equation_kind"
    <3>1. fields = <<action>>
      BY <1>3, <2>1
    <3>2. Asked(m, s) = {}
      BY <2>1 DEF Asked
    <3> QED
      BY <1>4, <3>1, <3>2
  <2>2. CASE s = "equation_poly_degree"
    <3>1. fields = <<degree>>
      BY <1>3, <2>2
    <3>2. Asked(m, s) = {"polynomial_degree"}
      BY <2>2 DEF Asked
    <3> QED
      BY <1>4, <1>5, <3>1, <3>2
  <2>3. CASE s \notin {"equation_kind", "equation_poly_degree"}
    <3>1. fields = <<size>>
      BY <1>3, <2>3
    <3>2. Asked(m, s) = {"simultaneous_size"}
      BY <2>3 DEF Asked
    <3> QED
      BY <1>4, <1>5, <3>1, <3>2
  <2> QED
    BY <2>1, <2>2, <2>3
<1>7. m # "Distribution"
  OBVIOUS
<1>8. ProperFields(m, s, fields)
  BY <1>6, <1>7, ProperByList DEF NotEmpty
<1> QED
  BY <1>8 DEF fields

LEMMA RatioFieldsProper ==
  ASSUME NEW m, m = "Ratio", NEW s, NEW v
  PROVE  ProperFields(m, s, RatioFields(s, v))
<1> DEFINE kind == Choice("ratio_kind", <<"A:B = X:D", "A:B = C:X">>)
           last == IF v["ratio_kind"] = "A:B = X:D" THEN "ratio_D" ELSE "ratio_C"
           a == Number("ratio_A", "0")
           b == Number("ratio_B", "1")
           c == Number(last, "1")
           fields == RatioFields(s, v)
<1>1. ProperField(m, s, kind)
  BY ProperChoice DEF TextKeys, Sizes
<1>2. "ratio_A" \in TextKeys /\ "ratio_B" \in TextKeys /\ last \in TextKeys
  BY DEF TextKeys
<1>3. fields = IF s = "ratio_kind" THEN <<kind>> ELSE <<a, b, c>>
  BY DEF RatioFields
<1> HIDE DEF last
<1>4. ProperField(m, s, a) /\ ProperField(m, s, b) /\ ProperField(m, s, c)
  BY <1>2, OneText
<1> HIDE DEF fields, kind, a, b, c
<1>5. NotEmpty(m, s, <<kind>>)
  BY <1>1, OneField
<1>6. NotEmpty(m, s, <<a, b, c>>)
  BY <1>4, ThreeFields
<1>7. NotEmpty(m, s, fields)
  BY <1>3, <1>5, <1>6
<1>8. Asked(m, s) = {} /\ m # "Distribution"
  BY DEF Asked
<1>9. ProperFields(m, s, fields)
  BY <1>7, <1>8, ProperByList DEF NotEmpty
<1> QED
  BY <1>9 DEF fields

LEMMA InequalityFieldsProper ==
  ASSUME NEW m, m = "Inequality", NEW s, NEW v, StageReady(m, s, v)
  PROVE  ProperFields(m, s, InequalityFields(s, v))
<1> DEFINE fields == InequalityFields(s, v)
           degree == Integer("inequality_degree", "2", 1, 4)
           relation == Choice("inequality_relation", <<">", "<">>)
<1>1. ProperField(m, s, degree) /\ degree.key = "inequality_degree"
  BY ProperInteger DEF TextKeys, Sizes
<1>2. ProperField(m, s, relation)
  BY ProperChoice DEF TextKeys, Sizes
<1>3. m # "Distribution"
  OBVIOUS
<1>4. CASE s = "inequality_degree"
  <2>1. fields = <<degree>>
    BY <1>4 DEF InequalityFields
  <2> HIDE DEF fields, degree
  <2>2. NotEmpty(m, s, fields) /\ Asks(fields, "inequality_degree")
    BY <1>1, <2>1, OneField, ListsOfFields
  <2>3. Asked(m, s) = {"inequality_degree"}
    BY <1>4 DEF Asked
  <2>4. ProperFields(m, s, fields)
    BY <1>3, <2>2, <2>3, ProperByList DEF NotEmpty
  <2> QED
    BY <2>4 DEF fields
<1>5. CASE s # "inequality_degree"
  <2> DEFINE n == v["inequality_degree"]
             rows == [i \in 1..(n + 1) |-> Number(CoefficientKeys[i], "0")]
  <2>1. n \in 1..4
    BY <1>5 DEF StageReady
  <2>2. fields = Append(rows, relation)
    BY <1>5 DEF InequalityFields
  <2>3. \A i \in 1..5 : CoefficientKeys[i] \in TextKeys
    <3>1. /\ CoefficientKeys[1] = "inequality_0" /\ CoefficientKeys[2] = "inequality_1"
          /\ CoefficientKeys[3] = "inequality_2" /\ CoefficientKeys[4] = "inequality_3"
          /\ CoefficientKeys[5] = "inequality_4"
      BY DEF CoefficientKeys
    <3>2. {"inequality_0", "inequality_1", "inequality_2", "inequality_3", "inequality_4"} \subseteq TextKeys
      BY DEF TextKeys
    <3> QED
      BY <3>1, <3>2
  <2>4. n + 1 \in Nat \ {0} /\ \A i \in 1..(n + 1) : i \in 1..5
    BY <2>1
  <2>5. /\ DOMAIN rows = 1..(n + 1) /\ rows = [i \in DOMAIN rows |-> rows[i]]
        /\ \A i \in 1..(n + 1) : rows[i] = Number(CoefficientKeys[i], "0")
    OBVIOUS
  <2> HIDE DEF n, rows, fields, relation
  <2>6. ASSUME NEW i \in 1..(n + 1) PROVE ProperField(m, s, rows[i])
    <3>1. CoefficientKeys[i] \in TextKeys
      BY <2>3, <2>4
    <3>2. rows[i] = Number(CoefficientKeys[i], "0")
      BY <2>5
    <3> QED
      BY <3>1, <3>2, OneText, Zenon
  <2>7. ProperList(m, s, rows)
    <3> DEFINE k == n + 1
    <3>1. DOMAIN rows = 1..k /\ k \in Nat \ {0}
      BY <2>4, <2>5
    <3>2. \A i \in 1..k : ProperField(m, s, rows[i])
      BY <2>6
    <3> HIDE DEF k
    <3> QED
      BY <2>5, <3>1, <3>2, RowsProper
  <2>8. NotEmpty(m, s, fields)
    BY <1>2, <2>2, <2>7, ListExtended DEF NotEmpty
  <2>9. Asked(m, s) = {}
    BY <1>5 DEF Asked
  <2>10. ProperFields(m, s, fields)
    BY <1>3, <2>8, <2>9, ProperByList DEF NotEmpty
  <2> QED
    BY <2>10 DEF fields
<1> QED
  BY <1>4, <1>5

\* The x of a distribution is the first field of its form.
LEMMA DistributionFieldsProper ==
  ASSUME NEW m, m = "Distribution", NEW s, NEW v, StageReady(m, s, v)
  PROVE  ProperFields(m, s, DistributionFields(s, v))
<1> DEFINE fields == DistributionFields(s, v)
           kind == Choice("distribution_kind", DistributionKinds)
           x == Number("x", "0")
           n == Integer("x", "0", 0, MaxCount)
           sigma == Number("sigma", "1")
           mu == Number("mu", "0")
           lower == Number("lower", "0")
           upper == Number("upper", "1")
           lam == Number("lam", "1")
<1>1. ProperField(m, s, kind) /\ kind.key # "x"
  BY ProperChoice DEF TextKeys, Sizes
<1>2. /\ "sigma" \in TextKeys /\ "mu" \in TextKeys /\ "lower" \in TextKeys
      /\ "upper" \in TextKeys /\ "lam" \in TextKeys
  BY DEF TextKeys
<1>3. /\ ProperField(m, s, sigma) /\ ProperField(m, s, mu) /\ ProperField(m, s, lower)
      /\ ProperField(m, s, upper) /\ ProperField(m, s, lam)
  BY <1>2, OneText
<1>4. sigma.key # "x" /\ mu.key # "x" /\ lower.key # "x" /\ upper.key # "x" /\ lam.key # "x"
  BY DEF Number, Field
<1>5. Asked(m, s) = {}
  BY DEF Asked
<1>6. fields = IF s = "distribution_kind" THEN <<kind>>
               ELSE CASE v["distribution_kind"] = "Normal PD" -> <<x, sigma, mu>>
                      [] v["distribution_kind"] = "Normal CD" -> <<lower, upper, sigma, mu>>
                      [] OTHER -> <<n, lam>>
  BY DEF DistributionFields
<1>7. s = "distribution_run" => ProperField(m, s, x) /\ ProperField(m, s, n)
  <2>1. ASSUME s = "distribution_run" PROVE ProperField(m, s, n)
    BY <2>1, ProperInteger DEF TextKeys, Sizes
  <2>2. ASSUME s = "distribution_run" PROVE ProperField(m, s, x)
    <3>1. x.key = "x" /\ x.type = "number" /\ x.default = <<"0">>
      BY DEF Number, Field
    <3>2. IsSeq(<<"0">>)
      BY SingleIsSeq
    <3>3. "x" \notin TextKeys /\ "x" \notin DOMAIN Sizes
      BY DEF TextKeys, Sizes
    <3> HIDE DEF x
    <3> QED
      BY <2>2, <3>1, <3>2, <3>3 DEF ProperField, HoldsText
  <2> QED
    BY <2>1, <2>2
<1> HIDE DEF fields, kind, x, n, sigma, mu, lower, upper, lam
<1>8. CASE s = "distribution_kind"
  <2>1. fields = <<kind>>
    BY <1>6, <1>8
  <2>2. IsSeq(fields) /\ Len(fields) = 1 /\ fields[1] = kind
    BY <2>1, SingleIsSeq
  <2>3. ProperFields(m, s, fields)
    BY <1>1, <1>5, <2>2 DEF ProperFields
  <2> QED
    BY <2>3 DEF fields
<1>9. CASE s = "distribution_run" /\ v["distribution_kind"] = "Normal PD"
  <2>1. fields = <<x, sigma, mu>>
    BY <1>6, <1>9
  <2>2. IsSeq(fields) /\ Len(fields) = 3 /\ fields[1] = x /\ fields[2] = sigma /\ fields[3] = mu
    BY <2>1, TripleSeq
  <2>3. \A i \in 1..Len(fields) : i = 1 \/ i = 2 \/ i = 3
    BY <2>2
  <2>4. \A i \in 1..Len(fields) : ProperField(m, s, fields[i])
    BY <1>3, <1>7, <1>9, <2>2, <2>3
  <2>5. \A i \in 1..Len(fields) : fields[i].key = "x" => i = 1
    BY <1>4, <2>2, <2>3
  <2>6. Len(fields) > 0
    BY <2>2
  <2>7. ProperFields(m, s, fields)
    BY <1>5, <2>2, <2>4, <2>5, <2>6 DEF ProperFields
  <2> QED
    BY <2>7 DEF fields
<1>10. CASE s = "distribution_run" /\ v["distribution_kind"] = "Normal CD"
  <2>1. fields = <<lower, upper, sigma, mu>>
    BY <1>6, <1>10
  <2>2. <<lower, upper, sigma, mu>> \in Seq({lower, upper, sigma, mu})
    OBVIOUS
  <2>3. /\ IsSeq(fields) /\ Len(fields) = 4
        /\ fields[1] = lower /\ fields[2] = upper /\ fields[3] = sigma /\ fields[4] = mu
    BY <2>1, <2>2, SeqIsSeq
  <2>4. \A i \in 1..Len(fields) : i = 1 \/ i = 2 \/ i = 3 \/ i = 4
    BY <2>3
  <2>5. ProperFields(m, s, fields)
    BY <1>3, <1>4, <1>5, <2>3, <2>4 DEF ProperFields
  <2> QED
    BY <2>5 DEF fields
<1>11. CASE s = "distribution_run" /\ v["distribution_kind"] \notin {"Normal PD", "Normal CD"}
  <2>1. fields = <<n, lam>>
    BY <1>6, <1>11
  <2>2. IsSeq(fields) /\ Len(fields) = 2 /\ fields[1] = n /\ fields[2] = lam
    BY <2>1, PairSeq
  <2>3. \A i \in 1..Len(fields) : i = 1 \/ i = 2
    BY <2>2
  <2>4. \A i \in 1..Len(fields) : ProperField(m, s, fields[i])
    BY <1>3, <1>7, <1>11, <2>2, <2>3
  <2>5. \A i \in 1..Len(fields) : fields[i].key = "x" => i = 1
    BY <1>4, <2>2, <2>3
  <2>6. Len(fields) > 0
    BY <2>2
  <2>7. ProperFields(m, s, fields)
    BY <1>5, <2>2, <2>4, <2>5, <2>6 DEF ProperFields
  <2> QED
    BY <2>7 DEF fields
<1> QED
  BY <1>8, <1>9, <1>10, <1>11 DEF StageReady

LEMMA SheetFieldsProper ==
  ASSUME NEW m, m = "Spreadsheet", NEW s
  PROVE  ProperFields(m, s, SheetFields(s))
<1> DEFINE fields == SheetFields(s)
           tool == Choice("sheet_tool", SelectSeq(AllTools, LAMBDA t : t \in SheetTools))
           confirm == Choice("sheet_confirm", <<"Cancel", "Delete all">>)
           column == Choice("sheet_target_column", ColumnNames)
           row == Integer("sheet_target_row", "1", 1, LastRow + 1)
           prefix == Field("sheet_reference_prefix", "raw", <<"=">>)
           fill == Field("sheet_fill_text", "raw", Blank)
<1>1. ProperField(m, s, tool) /\ ProperField(m, s, confirm) /\ ProperField(m, s, column)
  BY ProperChoice DEF TextKeys, Sizes
<1>2. ProperField(m, s, row)
  BY ProperInteger DEF TextKeys, Sizes
<1>3. /\ ProperField(m, s, prefix) /\ prefix.key = "sheet_reference_prefix"
      /\ ProperField(m, s, fill) /\ fill.key = "sheet_fill_text"
  <2>1. "sheet_reference_prefix" \in TextKeys /\ "sheet_fill_text" \in TextKeys
    BY DEF TextKeys
  <2>2. IsSeq(<<"=">>) /\ IsSeq(Blank) /\ "raw" \notin {"choice", "integer"}
    BY SingleIsSeq, BannerAndBlank
  <2> QED
    BY <2>1, <2>2, ProperTexts
<1>4. TargetFields = <<column, row>>
  BY DEF TargetFields
<1>5. fields = CASE s = "sheet_tool" -> <<tool>>
                 [] s = "sheet_grab" -> Append(TargetFields, prefix)
                 [] s = "sheet_fill" -> Append(TargetFields, fill)
                 [] s = "sheet_delete_all" -> <<confirm>>
                 [] OTHER -> TargetFields
  BY DEF SheetFields
<1> HIDE DEF fields, tool, confirm, column, row, prefix, fill
<1>6. NotEmpty(m, s, <<tool>>) /\ NotEmpty(m, s, <<confirm>>)
  BY <1>1, OneField
<1>7. NotEmpty(m, s, TargetFields)
  BY <1>1, <1>2, <1>4, TwoFields
<1>8. /\ NotEmpty(m, s, Append(TargetFields, prefix)) /\ Asks(Append(TargetFields, prefix), "sheet_reference_prefix")
      /\ NotEmpty(m, s, Append(TargetFields, fill)) /\ Asks(Append(TargetFields, fill), "sheet_fill_text")
  BY <1>3, <1>7, ListExtended DEF NotEmpty
<1>9. NotEmpty(m, s, fields) /\ \A key \in Asked(m, s) : Asks(fields, key)
  <2>1. CASE s = "sheet_tool"
    <3>1. fields = <<tool>> /\ Asked(m, s) = {}
      BY <1>5, <2>1 DEF Asked
    <3> QED
      BY <1>6, <3>1
  <2>2. CASE s = "sheet_grab"
    <3>1. fields = Append(TargetFields, prefix)
      BY <1>5, <2>2
    <3>2. Asked(m, s) = {"sheet_reference_prefix"}
      BY <2>2 DEF Asked
    <3> QED
      BY <1>8, <3>1, <3>2
  <2>3. CASE s = "sheet_fill"
    <3>1. fields = Append(TargetFields, fill)
      BY <1>5, <2>3
    <3>2. Asked(m, s) = {"sheet_fill_text"}
      BY <2>3 DEF Asked
    <3> QED
      BY <1>8, <3>1, <3>2
  <2>4. CASE s = "sheet_delete_all"
    <3>1. fields = <<confirm>> /\ Asked(m, s) = {}
      BY <1>5, <2>4 DEF Asked
    <3> QED
      BY <1>6, <3>1
  <2>5. CASE s \notin {"sheet_tool", "sheet_grab", "sheet_fill", "sheet_delete_all"}
    <3>1. fields = TargetFields
      BY <1>5, <2>5
    <3>2. Asked(m, s) = {}
      BY <2>5 DEF Asked
    <3> QED
      BY <1>7, <3>1, <3>2
  <2> QED
    BY <2>1, <2>2, <2>3, <2>4, <2>5
<1>10. m # "Distribution"
  OBVIOUS
<1>11. ProperFields(m, s, fields)
  BY <1>9, <1>10, ProperByList DEF NotEmpty
<1> QED
  BY <1>11 DEF fields

\* The fields of a stage, in every mode.
LEMMA FieldsAreProper ==
  ASSUME NEW m, NEW s, NEW v, StageReady(m, s, v), NEW fields \in Fields(m, s, v)
  PROVE  ProperFields(m, s, fields)
<1>1. CASE m \in CalculusModes
  BY <1>1, IntegralsProper
<1>2. CASE m = "Matrix"
  <2>1. fields = MatrixFields(s, v)
    BY <1>2 DEF Fields
  <2> QED
    BY <1>2, <2>1, MatrixFieldsProper
<1>3. CASE m = "Vector"
  <2>1. fields = VectorFields(s, v)
    BY <1>3 DEF Fields
  <2> QED
    BY <1>3, <2>1, VectorFieldsProper
<1>4. CASE m = "Statistics"
  <2>1. PICK f \in BOOLEAN : fields = StatisticsFields(s, v, f)
    BY <1>4 DEF Fields
  <2> QED
    BY <1>4, <2>1, StatisticsFieldsProper
<1>5. CASE m = "Distribution"
  <2>1. fields = DistributionFields(s, v)
    BY <1>5 DEF Fields
  <2> QED
    BY <1>5, <2>1, DistributionFieldsProper
<1>6. CASE m = "Table"
  <2>1. PICK two \in BOOLEAN : fields = TableFields(two)
    BY <1>6 DEF Fields
  <2> QED
    BY <1>6, <2>1, TableFieldsProper
<1>7. CASE m = "Equation"
  <2>1. fields = EquationFields(s)
    BY <1>7 DEF Fields
  <2> QED
    BY <1>7, <2>1, EquationFieldsProper
<1>8. CASE m = "Inequality"
  <2>1. fields = InequalityFields(s, v)
    BY <1>8 DEF Fields
  <2> QED
    BY <1>8, <2>1, InequalityFieldsProper
<1>9. CASE m = "Ratio"
  <2>1. fields = RatioFields(s, v)
    BY <1>9 DEF Fields
  <2> QED
    BY <1>9, <2>1, RatioFieldsProper
<1>10. CASE m = "Spreadsheet"
  <2>1. fields = SheetFields(s)
    BY <1>10 DEF Fields
  <2> QED
    BY <1>10, <2>1, SheetFieldsProper
<1>11. m \in CalculusModes \cup {"Matrix", "Vector", "Statistics", "Distribution", "Table", "Equation",
                              "Inequality", "Ratio", "Spreadsheet"}
  BY DEF StageReady, Workflows, FirstStage, CalculusModes
<1> QED
  BY <1>1, <1>2, <1>3, <1>4, <1>5, <1>6, <1>7, <1>8, <1>9, <1>10, <1>11

\* Where a workflow begins.
LEMMA FirstStagesReady ==
  /\ \A m \in DOMAIN FirstStage : StageReady(m, FirstStage[m], NoTexts)
  /\ \A v : StageReady("Spreadsheet", "sheet_tool", v)
<1>1. ASSUME NEW m \in DOMAIN FirstStage PROVE StageReady(m, FirstStage[m], NoTexts)
  <2>1. FirstStage["Matrix"] = "matrix_action" /\ FirstStage["Vector"] = "vector_action"
    BY DEF FirstStage
  <2>2. FirstStage["Distribution"] = "distribution_kind" /\ FirstStage["Inequality"] = "inequality_degree"
    BY DEF FirstStage
  <2>3. m \in Workflows
    BY DEF Workflows
  <2> QED
    BY <2>1, <2>2, <2>3 DEF StageReady
<1> QED
  BY <1>1 DEF StageReady, Workflows

\* A complete form has the values that its stage asks for.
LEMMA ValuesAsked ==
  ASSUME NEW m, NEW s, NEW v, NEW fields, ProperFields(m, s, fields), FlowValues(m, s, v),
         Completions(m, s, fields, v) # {Failure}, NEW key \in Asked(m, s)
  PROVE  key \in DOMAIN v /\ ValueFits(key, v[key])
<1>1. PICK i \in 1..Len(fields) : fields[i].key = key
  BY DEF ProperFields, Asks
<1>2. DOMAIN fields = 1..Len(fields)
  BY SeqFacts DEF ProperFields
<1>3. fields[i].key \in DOMAIN v \cup Optional
  BY <1>2 DEF Completions
<1>4. key \notin Optional
  BY DEF Asked, Optional
<1> QED
  BY <1>1, <1>3, <1>4 DEF FlowValues

\* What the stages of a workflow lead to, as records.
LEMMA OutcomeRecords ==
  /\ \A at : Form(at).to = "form" /\ Form(at).at = at
  /\ \A at : Template(at).to = "template" /\ Template(at).at = at
  /\ Results.to = "results" /\ Failure.to = "error"
BY DEF Form, Template, Results, Failure

\* What a complete form leads to is in its mode's own list, unless it fails.
LEMMA CompleteValues ==
  ASSUME NEW m, NEW s, NEW fields, NEW v, NEW outcome \in Completions(m, s, fields, v), outcome # Failure
  PROVE  /\ Completions(m, s, fields, v) # {Failure}
         /\ m \in CalculusModes => outcome \in IntegralNext(v)
         /\ m = "Matrix" => outcome \in MatrixNext(s, v)
         /\ m = "Vector" => outcome \in VectorNext(s, v)
         /\ m = "Statistics" => outcome \in StatisticsNext(s)
         /\ m = "Distribution" => outcome \in DistributionNext(s)
         /\ m = "Equation" => outcome \in EquationNext(s, v)
         /\ m = "Inequality" => outcome \in InequalityNext(s)
         /\ m = "Ratio" => outcome \in RatioNext(s)
         /\ m = "Spreadsheet" => outcome \in SheetNext(s, v)
         /\ m = "Table" => outcome \in Answered
<1>1. ~(\E i \in DOMAIN fields : fields[i].key \notin DOMAIN v \cup Optional)
  BY Zenon DEF Completions
<1> DEFINE all == Completions(m, s, fields, v)
<1>2. m \in CalculusModes => all = IntegralNext(v)
  BY <1>1 DEF Completions, CalculusModes
<1>3. m = "Matrix" => all = MatrixNext(s, v)
  BY <1>1 DEF Completions
<1>4. m = "Vector" => all = VectorNext(s, v)
  BY <1>1 DEF Completions
<1>5. m = "Statistics" => all = StatisticsNext(s)
  BY <1>1 DEF Completions
<1>6. m = "Distribution" => all = DistributionNext(s)
  BY <1>1 DEF Completions
<1>7. m = "Equation" => all = EquationNext(s, v)
  BY <1>1 DEF Completions
<1>8. m = "Inequality" => all = InequalityNext(s)
  BY <1>1 DEF Completions
<1>9. m = "Ratio" => all = RatioNext(s)
  BY <1>1 DEF Completions
<1>10. m = "Spreadsheet" => all = SheetNext(s, v)
  BY <1>1 DEF Completions
<1>11. m = "Table" => all = Answered
  BY <1>1 DEF Completions
<1>12. outcome \in all /\ all # {Failure}
  OBVIOUS
<1> HIDE DEF all
<1>13. /\ m \in CalculusModes => outcome \in IntegralNext(v)
       /\ m = "Matrix" => outcome \in MatrixNext(s, v)
       /\ m = "Vector" => outcome \in VectorNext(s, v)
       /\ m = "Statistics" => outcome \in StatisticsNext(s)
       /\ m = "Distribution" => outcome \in DistributionNext(s)
       /\ m = "Equation" => outcome \in EquationNext(s, v)
       /\ m = "Inequality" => outcome \in InequalityNext(s)
       /\ m = "Ratio" => outcome \in RatioNext(s)
       /\ m = "Spreadsheet" => outcome \in SheetNext(s, v)
       /\ m = "Table" => outcome \in Answered
  BY <1>2, <1>3, <1>4, <1>5, <1>6, <1>7, <1>8, <1>9, <1>10, <1>11, <1>12
<1> QED
  BY <1>12, <1>13 DEF all

\* The tools of the spreadsheet.
LEMMA SheetOutcomes ==
  ASSUME NEW s, NEW v, NEW outcome \in SheetNext(s, v)
  PROVE  /\ outcome.to \in {"form", "sheet", "edit", "results", "error"}
         /\ outcome.to = "sheet" /\ s = "sheet_tool" => outcome.at \in {"sheet_delete", "sheet_recalculate"}
         /\ outcome.to = "sheet" /\ s # "sheet_tool" => outcome.at = s
<1> DEFINE Sheet(at) == [to |-> "sheet", at |-> at]
           Edit(at) == [to |-> "edit", at |-> at]
           tool == v["sheet_tool"]
<1>1. /\ \A at : Sheet(at).to = "sheet" /\ Sheet(at).at = at
      /\ Edit("").to = "edit"
  OBVIOUS
<1>2. CASE s # "sheet_tool"
  <2>1. outcome \in {Sheet(s), Failure}
    BY <1>2 DEF SheetNext
  <2> HIDE DEF Sheet
  <2> QED
    BY <1>1, <1>2, <2>1, OutcomeRecords
<1>3. CASE s = "sheet_tool"
  <2>1. \/ \E at : outcome = Form(at)
        \/ outcome \in {Edit(""), Results, Failure, Sheet("sheet_delete"), Sheet("sheet_recalculate")}
    <3>1. CASE tool = "Copy cell"
      BY <1>3, <3>1 DEF SheetNext
    <3>2. CASE tool = "Edit cell"
      BY <1>3, <3>2 DEF SheetNext
    <3>3. CASE tool = "Insert reference"
      BY <1>3, <3>3 DEF SheetNext
    <3>4. CASE tool = "Fill value"
      BY <1>3, <3>4 DEF SheetNext
    <3>5. CASE tool = "Free space"
      BY <1>3, <3>5 DEF SheetNext
    <3>6. CASE tool = "Delete all"
      BY <1>3, <3>6 DEF SheetNext
    <3>7. CASE tool = "Delete cell"
      BY <1>3, <3>7 DEF SheetNext
    <3>8. CASE tool \notin {"Copy cell", "Edit cell", "Insert reference", "Fill value", "Free space",
                            "Delete all", "Delete cell"}
      BY <1>3, <3>8 DEF SheetNext
    <3> QED
      BY <3>1, <3>2, <3>3, <3>4, <3>5, <3>6, <3>7, <3>8
  <2> HIDE DEF Sheet, Edit
  <2> QED
    BY <1>1, <1>3, <2>1, OutcomeRecords
<1> QED
  BY <1>2, <1>3

\* The next form of a workflow has what its fields need.
LEMMA FormsFollow ==
  ASSUME NEW m \in Workflows, NEW s, NEW fields, NEW v, ProperFields(m, s, fields), FlowValues(m, s, v),
         NEW outcome \in Completions(m, s, fields, v), outcome.to = "form"
  PROVE  StageReady(m, outcome.at, v) /\ "x" \notin DOMAIN v
<1>1. outcome \notin Answered /\ outcome # Failure
  BY OutcomeRecords DEF Answered
<1>2. Completions(m, s, fields, v) # {Failure}
  BY <1>1
<1>3. \A key \in Asked(m, s) : ValueFits(key, v[key])
  BY <1>2, ValuesAsked
<1>4. CASE m = "Matrix"
  <2>1. outcome \in MatrixNext(s, v)
    BY <1>1, <1>4, CompleteValues
  <2>2. ASSUME s = "matrix_action" PROVE StageReady(m, outcome.at, v)
    <3>1. outcome.at \in {"matrix_shape", "matrix_identity", "matrix_copy", "matrix_operation"}
      BY <2>1, <2>2, OutcomeRecords DEF MatrixNext
    <3> QED
      BY <1>4, <3>1 DEF StageReady
  <2>3. ASSUME s = "matrix_shape" PROVE StageReady(m, outcome.at, v)
    <3>1. outcome.at = "matrix_rows"
      BY <2>1, <2>3, OutcomeRecords DEF MatrixNext
    <3>2. "matrix_rows" \in Asked(m, s)
      BY <1>4, <2>3 DEF Asked
    <3>3. v["matrix_rows"] \in 1..4
      BY <1>3, <3>2 DEF ValueFits, Sizes
    <3> QED
      BY <1>4, <3>1, <3>3 DEF StageReady
  <2>4. s \in {"matrix_action", "matrix_shape"}
    BY <1>1, <2>1 DEF MatrixNext
  <2>5. "x" \notin DOMAIN v
    BY <1>4 DEF FlowValues
  <2> QED
    BY <2>2, <2>3, <2>4, <2>5
<1>5. CASE m = "Vector"
  <2>1. outcome \in VectorNext(s, v)
    BY <1>1, <1>5, CompleteValues
  <2>2. ASSUME s = "vector_action" PROVE StageReady(m, outcome.at, v)
    <3>1. outcome.at \in {"vector_shape", "vector_copy", "vector_operation"}
      BY <2>1, <2>2, OutcomeRecords DEF VectorNext
    <3> QED
      BY <1>5, <3>1 DEF StageReady
  <2>3. ASSUME s = "vector_shape" PROVE StageReady(m, outcome.at, v)
    <3>1. outcome.at = "vector_values"
      BY <2>1, <2>3, OutcomeRecords DEF VectorNext
    <3>2. "vector_dimension" \in Asked(m, s)
      BY <1>5, <2>3 DEF Asked
    <3>3. v["vector_dimension"] \in 2..3
      BY <1>3, <3>2 DEF ValueFits, Sizes
    <3> QED
      BY <1>5, <3>1, <3>3 DEF StageReady
  <2>4. s \in {"vector_action", "vector_shape"}
    BY <1>1, <2>1 DEF VectorNext
  <2>5. "x" \notin DOMAIN v
    BY <1>5 DEF FlowValues
  <2> QED
    BY <2>2, <2>3, <2>4, <2>5
<1>6. CASE m = "Distribution"
  <2>1. outcome \in DistributionNext(s)
    BY <1>1, <1>6, CompleteValues
  <2>2. s = "distribution_kind" /\ outcome.at = "distribution_run"
    BY <1>1, <2>1, OutcomeRecords DEF DistributionNext
  <2> QED
    BY <1>6, <2>2 DEF StageReady, FlowValues
<1>7. CASE m = "Inequality"
  <2>1. outcome \in InequalityNext(s)
    BY <1>1, <1>7, CompleteValues
  <2>2. s = "inequality_degree" /\ outcome.at = "inequality_values"
    BY <1>1, <2>1, OutcomeRecords DEF InequalityNext
  <2>3. "inequality_degree" \in Asked(m, s)
    BY <1>7, <2>2 DEF Asked
  <2>4. v["inequality_degree"] \in 1..4
    BY <1>3, <2>3 DEF ValueFits, Sizes
  <2> QED
    BY <1>7, <2>2, <2>4 DEF StageReady, FlowValues
<1>8. CASE m \notin {"Matrix", "Vector", "Distribution", "Inequality"}
  BY <1>8 DEF StageReady, FlowValues
<1> QED
  BY <1>4, <1>5, <1>6, <1>7, <1>8

\* What a sheet tool writes is a text, and a system of equations has a size.
LEMMA ToolsFollow ==
  ASSUME NEW m \in Workflows, NEW s, NEW fields, NEW v, ProperFields(m, s, fields), FlowValues(m, s, v),
         NEW outcome \in Completions(m, s, fields, v), outcome.to \in {"sheet", "edit"}
  PROVE  /\ m = "Spreadsheet"
         /\ outcome.to = "sheet" /\ outcome.at = "sheet_grab" => IsSeq(v["sheet_reference_prefix"])
         /\ outcome.to = "sheet" /\ outcome.at = "sheet_fill" => IsSeq(v["sheet_fill_text"])
<1>1. outcome \notin Answered /\ outcome # Failure /\ \A at : outcome # Form(at) /\ outcome # Template(at)
  BY OutcomeRecords DEF Answered
<1>2. Completions(m, s, fields, v) # {Failure}
  BY <1>1
<1>3. \A key \in Asked(m, s) : ValueFits(key, v[key])
  BY <1>2, ValuesAsked
<1>4. m \notin CalculusModes
  BY <1>1, CompleteValues DEF IntegralNext
<1>5. m # "Matrix"
  <2>1. ASSUME outcome \in MatrixNext(s, v) PROVE outcome \in Answered \/ \E at : outcome = Form(at)
    <3>1. s = "matrix_action" \/ s = "matrix_shape" \/ s \notin {"matrix_action", "matrix_shape"}
      OBVIOUS
    <3> QED
      BY <2>1, <3>1 DEF MatrixNext
  <2> QED
    BY <1>1, <2>1, CompleteValues
<1>6. m # "Vector"
  <2>1. ASSUME outcome \in VectorNext(s, v) PROVE outcome \in Answered \/ \E at : outcome = Form(at)
    <3>1. s = "vector_action" \/ s = "vector_shape" \/ s \notin {"vector_action", "vector_shape"}
      OBVIOUS
    <3> QED
      BY <2>1, <3>1 DEF VectorNext
  <2> QED
    BY <1>1, <2>1, CompleteValues
<1>7. m \notin {"Statistics", "Distribution", "Inequality", "Ratio", "Table"}
  BY <1>1, CompleteValues DEF StatisticsNext, DistributionNext, InequalityNext, RatioNext
<1>8. m # "Equation"
  <2>1. ASSUME outcome \in EquationNext(s, v) PROVE \E at : outcome = Form(at) \/ outcome = Template(at)
    <3>1. CASE s = "equation_kind" /\ v["equation_kind"] = "polynomial"
      BY <2>1, <3>1 DEF EquationNext
    <3>2. CASE s = "equation_kind" /\ v["equation_kind"] = "simultaneous"
      BY <2>1, <3>2 DEF EquationNext
    <3>3. CASE s = "equation_kind" /\ v["equation_kind"] \notin {"polynomial", "simultaneous"}
      BY <2>1, <3>3 DEF EquationNext
    <3>4. CASE s = "equation_poly_degree"
      BY <2>1, <3>4 DEF EquationNext
    <3>5. CASE s \notin {"equation_kind", "equation_poly_degree"}
      BY <2>1, <3>5 DEF EquationNext
    <3> QED
      BY <3>1, <3>2, <3>3, <3>4, <3>5
  <2> QED
    BY <1>1, <2>1, CompleteValues
<1>9. m = "Spreadsheet"
  BY <1>4, <1>5, <1>6, <1>7, <1>8 DEF Workflows, FirstStage, CalculusModes
<1>10. outcome \in SheetNext(s, v)
  BY <1>1, <1>9, CompleteValues
<1>11. outcome.to = "sheet" /\ outcome.at \in {"sheet_grab", "sheet_fill"} => outcome.at = s
  BY <1>10, SheetOutcomes
<1>12. ASSUME s = "sheet_grab" PROVE IsSeq(v["sheet_reference_prefix"])
  <2>1. "sheet_reference_prefix" \in Asked(m, s) /\ "sheet_reference_prefix" \in TextKeys
    BY <1>9, <1>12 DEF Asked, TextKeys
  <2> QED
    BY <1>3, <2>1 DEF ValueFits
<1>13. ASSUME s = "sheet_fill" PROVE IsSeq(v["sheet_fill_text"])
  <2>1. "sheet_fill_text" \in Asked(m, s) /\ "sheet_fill_text" \in TextKeys
    BY <1>9, <1>13 DEF Asked, TextKeys
  <2> QED
    BY <1>3, <2>1 DEF ValueFits
<1> QED
  BY <1>9, <1>11, <1>12, <1>13

\* The size of a template of equations was asked for by the form before it.
LEMMA SizesFollow ==
  ASSUME NEW m, NEW s, NEW fields, NEW v, ProperFields(m, s, fields), FlowValues(m, s, v), m = "Equation",
         NEW outcome \in Completions(m, s, fields, v), outcome.to = "template"
  PROVE  /\ outcome.at = "polynomial" => v["polynomial_degree"] \in 2..4
         /\ outcome.at = "simultaneous" => v["simultaneous_size"] \in 2..4
<1>1. outcome # Failure /\ \A at : outcome # Form(at)
  BY OutcomeRecords
<1>2. Completions(m, s, fields, v) # {Failure} /\ outcome \in EquationNext(s, v)
  BY <1>1, CompleteValues
<1>3. \A key \in Asked(m, s) : ValueFits(key, v[key])
  BY <1>2, ValuesAsked
<1>4. CASE s = "equation_kind"
  <2>1. outcome = Template("ode")
    <3>1. CASE v["equation_kind"] = "polynomial"
      BY <1>1, <1>2, <1>4, <3>1 DEF EquationNext
    <3>2. CASE v["equation_kind"] = "simultaneous"
      BY <1>1, <1>2, <1>4, <3>2 DEF EquationNext
    <3>3. CASE v["equation_kind"] \notin {"polynomial", "simultaneous"}
      BY <1>1, <1>2, <1>4, <3>3 DEF EquationNext
    <3> QED
      BY <3>1, <3>2, <3>3
  <2>2. outcome.at = "ode"
    BY <2>1, OutcomeRecords
  <2> QED
    BY <2>2
<1>5. CASE s = "equation_poly_degree"
  <2>1. outcome = Template("polynomial")
    BY <1>2, <1>5 DEF EquationNext
  <2>2. outcome.at = "polynomial"
    BY <2>1, OutcomeRecords
  <2>3. "polynomial_degree" \in Asked(m, s)
    BY <1>5 DEF Asked
  <2>4. v["polynomial_degree"] \in 2..4
    BY <1>3, <2>3 DEF ValueFits, Sizes
  <2> QED
    BY <2>2, <2>4
<1>6. CASE s \notin {"equation_kind", "equation_poly_degree"}
  <2>1. outcome = Template("simultaneous")
    BY <1>2, <1>6 DEF EquationNext
  <2>2. outcome.at = "simultaneous"
    BY <2>1, OutcomeRecords
  <2>3. "simultaneous_size" \in Asked(m, s)
    BY <1>6 DEF Asked
  <2>4. v["simultaneous_size"] \in 2..4
    BY <1>3, <2>3 DEF ValueFits, Sizes
  <2> QED
    BY <2>2, <2>4
<1> QED
  BY <1>4, <1>5, <1>6

-----------------------------------------------------------------------------
(***************************************************************************)
(* The parts of a workflow, and what the operations of LcdForms make of them. *)
(***************************************************************************)

LEMMA FreshFlowTyped ==
  ASSUME NEW w \in Workflows \cup {"History"}, NEW source, IsSeq(source)
  PROVE  /\ FlowTyped(FreshFlow(w, source)) /\ FreshFlow(w, source).mode = w
         /\ "x" \notin DOMAIN FreshFlow(w, source).values
<1> DEFINE f == FreshFlow(w, source)
<1>1. FlowKeys \subseteq DOMAIN f /\ f.mode = w
  BY FreshFlowShape DEF FlowShape
<1>2. /\ f.phase = "new" /\ f.source = source /\ f.entries = <<>> /\ f.stage = ""
      /\ f.column = 0 /\ f.row = 0 /\ f.line = 1 /\ f.lines = 1
      /\ f.draft = NoTexts /\ f.values = NoTexts
  BY DEF FreshFlow
<1>3. DOMAIN NoTexts = {}
  BY DEF NoTexts
<1> HIDE DEF f
<1>4. FlowOrigin(f.mode, f.phase, f.source, f.entries)
  BY <1>1, <1>2, NoRecordsFit DEF FlowOrigin
<1>5. FlowPlace(f.column, f.row, f.line, f.lines)
  <2>1. 0 \in 0..LastColumn /\ 0 \in 0..LastRow
    BY FormsAssumption
  <2>2. 1 \in Nat /\ 1 \in 1..1
    OBVIOUS
  <2> QED
    BY <1>2, <2>1, <2>2 DEF FlowPlace
<1>6. FlowDrafts(f.draft) /\ FlowValues(f.mode, f.stage, f.values) /\ "x" \notin DOMAIN f.values
  BY <1>2, <1>3 DEF FlowDrafts, FlowValues
<1>7. FlowForm(f.mode, f.phase, f.stage, f.fields, f.index, f.values)
  BY <1>2 DEF FlowForm
<1>8. FlowTyped(f)
  BY <1>1, <1>4, <1>5, <1>6, <1>7 DEF FlowTyped
<1> QED
  BY <1>1, <1>6, <1>8 DEF f

\* One component at a time.
LEMMA FlowFlags ==
  ASSUME NEW f, FlowTyped(f), NEW v, NEW w
  PROVE  /\ FlowTyped([f EXCEPT !.armed = v])
         /\ FlowTyped([f EXCEPT !.editing = v])
         /\ FlowTyped([f EXCEPT !.slot = v, !.armed = w])
<1>1. FlowKeys \subseteq DOMAIN f
  BY DEF FlowTyped
<1> DEFINE Same(g) == /\ DOMAIN g = DOMAIN f
                      /\ g.mode = f.mode /\ g.phase = f.phase /\ g.source = f.source /\ g.entries = f.entries
                      /\ g.column = f.column /\ g.row = f.row /\ g.line = f.line /\ g.lines = f.lines
                      /\ g.draft = f.draft /\ g.values = f.values /\ g.stage = f.stage
                      /\ g.fields = f.fields /\ g.index = f.index
<1>2. ASSUME NEW g, Same(g) PROVE FlowTyped(g)
  BY <1>2 DEF FlowTyped
<1>3. Same([f EXCEPT !.armed = v]) /\ Same([f EXCEPT !.editing = v]) /\ Same([f EXCEPT !.slot = v, !.armed = w])
  OBVIOUS
<1> QED
  BY <1>2, <1>3

LEMMA FlowDrafted ==
  ASSUME NEW f, FlowTyped(f), NEW draft, FlowDrafts(draft), NEW v
  PROVE  FlowTyped([f EXCEPT !.draft = draft]) /\ FlowTyped([f EXCEPT !.draft = draft, !.slot = v])
<1>1. FlowKeys \subseteq DOMAIN f
  BY DEF FlowTyped
<1> DEFINE Same(g) == /\ DOMAIN g = DOMAIN f
                      /\ g.mode = f.mode /\ g.phase = f.phase /\ g.source = f.source /\ g.entries = f.entries
                      /\ g.column = f.column /\ g.row = f.row /\ g.line = f.line /\ g.lines = f.lines
                      /\ g.draft = draft /\ g.values = f.values /\ g.stage = f.stage
                      /\ g.fields = f.fields /\ g.index = f.index
<1>2. ASSUME NEW g, Same(g) PROVE FlowTyped(g)
  BY <1>2 DEF FlowTyped
<1>3. Same([f EXCEPT !.draft = draft]) /\ Same([f EXCEPT !.draft = draft, !.slot = v])
  BY <1>1 DEF FlowKeys
<1> QED
  BY <1>2, <1>3

LEMMA FlowPlaced ==
  ASSUME NEW f, FlowTyped(f), NEW n
  PROVE  /\ n \in 1..f.lines => FlowTyped([f EXCEPT !.line = n])
         /\ n \in 0..LastColumn => FlowTyped([f EXCEPT !.column = n])
         /\ n \in 0..LastRow => FlowTyped([f EXCEPT !.row = n])
<1>1. FlowKeys \subseteq DOMAIN f
  BY DEF FlowTyped
<1> DEFINE Same(g) == /\ DOMAIN g = DOMAIN f
                      /\ g.mode = f.mode /\ g.phase = f.phase /\ g.source = f.source /\ g.entries = f.entries
                      /\ g.draft = f.draft /\ g.values = f.values /\ g.stage = f.stage
                      /\ g.fields = f.fields /\ g.index = f.index
<1>2. ASSUME NEW g, Same(g), FlowPlace(g.column, g.row, g.line, g.lines) PROVE FlowTyped(g)
  BY <1>2 DEF FlowTyped
<1>3. FlowPlace(f.column, f.row, f.line, f.lines)
  BY DEF FlowTyped
<1>4. /\ Same([f EXCEPT !.line = n]) /\ Same([f EXCEPT !.column = n]) /\ Same([f EXCEPT !.row = n])
  OBVIOUS
<1> DEFINE a == [f EXCEPT !.line = n]
           b == [f EXCEPT !.column = n]
           c == [f EXCEPT !.row = n]
<1>5. /\ a.column = f.column /\ a.row = f.row /\ a.line = n /\ a.lines = f.lines
      /\ b.column = n /\ b.row = f.row /\ b.line = f.line /\ b.lines = f.lines
      /\ c.column = f.column /\ c.row = n /\ c.line = f.line /\ c.lines = f.lines
  BY <1>1 DEF FlowKeys
<1>6. /\ n \in 1..f.lines => FlowPlace(a.column, a.row, a.line, a.lines)
      /\ n \in 0..LastColumn => FlowPlace(b.column, b.row, b.line, b.lines)
      /\ n \in 0..LastRow => FlowPlace(c.column, c.row, c.line, c.lines)
  <2> HIDE DEF a, b, c
  <2> QED
    BY <1>3, <1>5 DEF FlowPlace
<1> QED
  BY <1>2, <1>4, <1>6

LEMMA FlowIndexed ==
  ASSUME NEW f, FlowTyped(f), NEW i \in 1..Len(f.fields)
  PROVE  FlowTyped([f EXCEPT !.index = i])
<1> DEFINE g == [f EXCEPT !.index = i]
<1>1. FlowKeys \subseteq DOMAIN f
  BY DEF FlowTyped
<1>2. /\ DOMAIN g = DOMAIN f
      /\ g.mode = f.mode /\ g.phase = f.phase /\ g.source = f.source /\ g.entries = f.entries
      /\ g.column = f.column /\ g.row = f.row /\ g.line = f.line /\ g.lines = f.lines
      /\ g.draft = f.draft /\ g.values = f.values /\ g.stage = f.stage
      /\ g.fields = f.fields /\ g.index = i
  BY <1>1 DEF FlowKeys
<1> HIDE DEF g
<1>3. FlowForm(f.mode, f.phase, f.stage, f.fields, f.index, f.values)
  BY DEF FlowTyped
<1>4. FlowForm(g.mode, g.phase, g.stage, g.fields, g.index, g.values)
  BY <1>2, <1>3 DEF FlowForm
<1>5. FlowTyped(g)
  BY <1>2, <1>4 DEF FlowTyped
<1> QED
  BY <1>5 DEF g

\* A form begins with its fields, on the first of them.
LEMMA FormBeginsTyped ==
  ASSUME NEW f, FlowTyped(f), f.mode \in Workflows, "x" \notin DOMAIN f.values,
         NEW stage, NEW fields, ProperFields(f.mode, stage, fields)
  PROVE  /\ FlowTyped(BeginForm(f, stage, fields)) /\ BeginForm(f, stage, fields).phase = "form"
         /\ BeginForm(f, stage, fields).mode = f.mode
<1> DEFINE g == [f EXCEPT !.phase = "form", !.stage = stage, !.fields = fields, !.index = 1,
                          !.draft = NoTexts]
<1>1. FlowKeys \subseteq DOMAIN f
  BY DEF FlowTyped
<1>2. /\ DOMAIN g = DOMAIN f
      /\ g.mode = f.mode /\ g.phase = "form" /\ g.source = f.source /\ g.entries = f.entries
      /\ g.column = f.column /\ g.row = f.row /\ g.line = f.line /\ g.lines = f.lines
      /\ g.draft = NoTexts /\ g.values = f.values /\ g.stage = stage
      /\ g.fields = fields /\ g.index = 1
  BY <1>1 DEF FlowKeys
<1>3. BeginForm(f, stage, fields) = Render(g)
  BY DEF BeginForm
<1> HIDE DEF g
<1>4. FlowOrigin(g.mode, g.phase, g.source, g.entries)
  <2>1. "History" \notin Workflows
    BY DEF Workflows, FirstStage
  <2> QED
    BY <1>2, <2>1 DEF FlowTyped, FlowOrigin
<1>5. FlowDrafts(g.draft)
  <2>1. DOMAIN NoTexts = {}
    BY DEF NoTexts
  <2> QED
    BY <1>2, <2>1 DEF FlowDrafts
<1>6. FlowValues(g.mode, g.stage, g.values)
  BY <1>2 DEF FlowTyped, FlowValues
<1>7. FlowForm(g.mode, g.phase, g.stage, g.fields, g.index, g.values)
  <2>1. Len(fields) \in Nat /\ Len(fields) > 0
    BY SeqFacts DEF ProperFields
  <2>2. 1 \in 1..Len(fields)
    BY <2>1
  <2> QED
    BY <1>2, <2>2 DEF FlowForm
<1>8. FlowTyped(g)
  BY <1>1, <1>2, <1>4, <1>5, <1>6, <1>7 DEF FlowTyped
<1>9. FlowTyped(Render(g)) /\ Render(g).phase = g.phase /\ Render(g).mode = g.mode
  BY <1>1, <1>2, <1>8, FlowFlags DEF Render, FlowKeys
<1> QED
  BY <1>2, <1>3, <1>9

\* The field on display.
LEMMA FieldOnDisplay ==
  ASSUME NEW f, FlowTyped(f), f.phase = "form"
  PROVE  /\ f.mode \in Workflows
         /\ ProperFields(f.mode, f.stage, f.fields)
         /\ f.index \in 1..Len(f.fields) /\ Len(f.fields) \in Nat /\ DOMAIN f.fields = 1..Len(f.fields)
         /\ ProperField(f.mode, f.stage, CurrentSpec(f))
         /\ CurrentSpec(f).key = "x" => f.index = 1
<1>1. FlowForm(f.mode, f.phase, f.stage, f.fields, f.index, f.values)
  BY DEF FlowTyped
<1>2. f.mode \in Workflows /\ ProperFields(f.mode, f.stage, f.fields) /\ f.index \in 1..Len(f.fields)
  BY <1>1 DEF FlowForm
<1>3. Len(f.fields) \in Nat /\ DOMAIN f.fields = 1..Len(f.fields)
  BY <1>2, SeqFacts DEF ProperFields
<1> QED
  BY <1>2, <1>3 DEF ProperFields, CurrentSpec

\* One more draft, or one less.
LEMMA DraftsChange ==
  ASSUME NEW draft, FlowDrafts(draft), NEW key, NEW text, IsSeq(text)
  PROVE  FlowDrafts(With(draft, key, text)) /\ FlowDrafts(Without(draft, key))
BY DEF FlowDrafts, With, Without

\* A number's digits can be shown on a line.
LEMMA CodesAreSeqs == \A n : IsSeq(Code(n))
BY SingleIsSeq DEF Code

LEMMA DecimalsAreSeqs == \A n : IsSeq(Decimal(n))
<1> SUFFICES ASSUME NEW n PROVE IsSeq(Decimal(n))
  OBVIOUS
<1>1. \A a, b : IsSeq(<<a, b>>)
  BY DEF IsSeq, Range
<1> QED
  BY <1>1, SingleIsSeq DEF Decimal

\* What a field shows.
LEMMA FieldTextIsSeq ==
  ASSUME NEW f, FlowTyped(f), f.phase = "form"
  PROVE  /\ IsSeq(FieldText(f, CurrentSpec(f)))
         /\ IsSeq(FieldEntry(f))
<1> DEFINE field == CurrentSpec(f)
<1>0. IsSeq(Blank)
  BY BannerAndBlank
<1> SUFFICES IsSeq(FieldText(f, field))
  BY <1>0 DEF FieldEntry
<1>1. /\ ProperField(f.mode, f.stage, field) /\ ProperFields(f.mode, f.stage, f.fields)
      /\ field.key = "x" => f.index = 1
  BY FieldOnDisplay
<1>2. /\ FlowDrafts(f.draft) /\ FlowValues(f.mode, f.stage, f.values)
      /\ FlowForm(f.mode, f.phase, f.stage, f.fields, f.index, f.values)
  BY DEF FlowTyped
<1>3. CASE field.key \in DOMAIN f.draft
  BY <1>2, <1>3 DEF FieldText, FlowDrafts
<1>4. CASE field.key \in DOMAIN f.values \ DOMAIN f.draft
  <2> DEFINE value == f.values[field.key]
  <2>1. FieldText(f, field) = Written(field, value)
    BY <1>4 DEF FieldText
  <2>2. CASE field.type = "choice"
    BY <2>1, <2>2, CodesAreSeqs DEF Written
  <2>3. CASE field.type = "integer"
    BY <2>1, <2>3, DecimalsAreSeqs DEF Written
  <2>4. CASE HoldsText(field)
    <3>1. FieldText(f, field) = value
      BY <2>1, <2>4 DEF Written, HoldsText
    <3>2. CASE field.key \in TextKeys
      BY <1>2, <1>4, <3>1, <3>2 DEF FlowValues, ValueFits
    <3>3. CASE field.key = "x"
      <4>1. f.index = 1 /\ field = f.fields[1]
        BY <1>1, <3>3 DEF CurrentSpec
      <4>2. HoldsText(f.fields[1]) /\ f.fields[1].key = "x" /\ "x" \in DOMAIN f.values
        BY <1>4, <2>4, <3>3, <4>1
      <4>3. IsSeq(f.values["x"])
        BY <1>2, <4>2 DEF FlowForm
      <4> QED
        BY <3>1, <3>3, <4>3
    <3> QED
      BY <1>1, <2>4, <3>2, <3>3 DEF ProperField
  <2> QED
    BY <2>2, <2>3, <2>4 DEF HoldsText
<1>5. CASE field.key \notin DOMAIN f.draft \cup DOMAIN f.values
  BY <1>1, <1>5 DEF FieldText, ProperField
<1> QED
  BY <1>3, <1>4, <1>5

\* ▲ ▼ ◀ ▶ in a form.
LEMMA CapturedTyped ==
  ASSUME NEW f, FlowTyped(f), f.phase = "form", NEW text, IsSeq(text)
  PROVE  /\ FlowTyped(Capture(f, text))
         /\ Capture(f, text).phase = "form" /\ Capture(f, text).mode = f.mode
         /\ Capture(f, text).fields = f.fields /\ Capture(f, text).index = f.index
<1>1. FlowKeys \subseteq DOMAIN f /\ FlowDrafts(f.draft)
  BY DEF FlowTyped
<1> DEFINE field == CurrentSpec(f)
           kept == IF field.type = "choice" /\ text = Blank
                   THEN Written(field, Parsed(field, FieldText(f, field))) ELSE text
           draft == With(f.draft, field.key, kept)
<1>2. Capture(f, text) = [f EXCEPT !.draft = draft, !.slot = field.key]
  BY <1>1 DEF Capture, FlowKeys
<1>3. IsSeq(kept)
  BY CodesAreSeqs DEF Written
<1> HIDE DEF kept
<1>4. FlowDrafts(draft)
  BY <1>1, <1>3, DraftsChange
<1> HIDE DEF draft
<1>5. FlowTyped([f EXCEPT !.draft = draft, !.slot = field.key])
  BY <1>4, FlowDrafted
<1> QED
  BY <1>1, <1>2, <1>5 DEF FlowKeys

LEMMA RenderedTyped ==
  ASSUME NEW f, FlowTyped(f)
  PROVE  /\ FlowTyped(Render(f)) /\ Render(f).phase = f.phase /\ Render(f).mode = f.mode
<1>1. FlowKeys \subseteq DOMAIN f
  BY DEF FlowTyped
<1> QED
  BY <1>1, FlowFlags DEF Render, FlowKeys

LEMMA ClampedFacts ==
  ASSUME NEW low \in Int, NEW high \in Int, low <= high, NEW n \in Int
  PROVE  Clamped(low, high, n) \in low..high
BY DEF Clamped

LEMMA FieldMovedTyped ==
  ASSUME NEW f, FlowTyped(f), f.phase = "form", NEW text, IsSeq(text), NEW d \in Int
  PROVE  /\ FlowTyped(MoveField(f, text, d))
         /\ MoveField(f, text, d).phase = "form" /\ MoveField(f, text, d).mode = f.mode
<1> DEFINE c == Capture(f, text)
           i == Clamped(1, Len(f.fields), f.index + d)
           g == [c EXCEPT !.index = i]
<1>1. FlowTyped(c) /\ c.phase = "form" /\ c.mode = f.mode /\ c.fields = f.fields /\ c.index = f.index
  BY CapturedTyped
<1>2. MoveField(f, text, d) = Render([c EXCEPT !.index = Clamped(1, Len(f.fields), @ + d)])
  BY DEF MoveField
<1>3. f.index \in 1..Len(f.fields) /\ Len(f.fields) \in Nat
  BY FieldOnDisplay
<1>4. 1 \in Int /\ Len(f.fields) \in Int /\ 1 <= Len(f.fields) /\ f.index + d \in Int
  BY <1>3
<1>5. i \in 1..Len(f.fields)
  BY <1>3, <1>4, ClampedFacts
<1> HIDE DEF c
<1>6. MoveField(f, text, d) = Render(g)
  BY <1>1, <1>2
<1> HIDE DEF i
<1>7. FlowTyped(g)
  BY <1>1, <1>5, FlowIndexed
<1>8. g.phase = "form" /\ g.mode = f.mode
  BY <1>1
<1> HIDE DEF g
<1> QED
  BY <1>6, <1>7, <1>8, RenderedTyped

LEMMA CycledTyped ==
  ASSUME NEW f, FlowTyped(f), f.phase = "form", NEW text, NEW d
  PROVE  /\ FlowTyped(Cycle(f, text, d))
         /\ Cycle(f, text, d).phase = "form" /\ Cycle(f, text, d).mode = f.mode
<1>1. FlowKeys \subseteq DOMAIN f /\ FlowDrafts(f.draft)
  BY DEF FlowTyped
<1> DEFINE field == CurrentSpec(f)
           n == IF Accepts(field, IF text # Blank THEN text ELSE FieldText(f, field))
                THEN ValueOf(IF text # Blank THEN text ELSE FieldText(f, field)) ELSE 1
           draft == With(f.draft, field.key, Code(((n - 1 + d) % Len(field.options)) + 1))
<1>2. Cycle(f, text, d) = Render([f EXCEPT !.draft = draft])
  BY <1>1, Zenon DEF Cycle
<1>3. FlowDrafts(draft)
  BY <1>1, CodesAreSeqs, DraftsChange
<1> HIDE DEF draft
<1>4. FlowTyped([f EXCEPT !.draft = draft])
  BY <1>3, FlowDrafted
<1> QED
  BY <1>1, <1>2, <1>4, RenderedTyped DEF FlowKeys

\* What parse_field returns for a text that it accepts.
LEMMA ParsedFits ==
  ASSUME NEW m, NEW s, NEW field, ProperField(m, s, field), NEW text, IsSeq(text), Accepts(field, text)
  PROVE  /\ ValueFits(field.key, Parsed(field, text))
         /\ HoldsText(field) => IsSeq(Parsed(field, text))
<1>1. HoldsText(field) => IsSeq(Parsed(field, text))
  <2>1. ASSUME HoldsText(field) PROVE Parsed(field, text) \in {<<"0">>, text}
    <3>1. CASE field.type = "number" /\ "M" \in Range(text)
      BY <2>1, <3>1 DEF Parsed, HoldsText
    <3>2. CASE ~(field.type = "number" /\ "M" \in Range(text))
      BY <2>1, <3>2 DEF Parsed, HoldsText
    <3> QED
      BY <3>1, <3>2
  <2> QED
    BY <2>1, SingleIsSeq
<1>2. field.key \in TextKeys => HoldsText(field)
  BY DEF ProperField
<1>3. ASSUME field.key \in DOMAIN Sizes PROVE Parsed(field, text) \in Sizes[field.key]
  <2>1. field.type = "integer" /\ \A n \in field.min..field.max : n \in Sizes[field.key]
    BY <1>3 DEF ProperField
  <2>2. ValueOf(text) \in field.min..field.max
    BY <2>1 DEF Accepts
  <2>3. Parsed(field, text) = ValueOf(text)
    BY <2>1 DEF Parsed
  <2> QED
    BY <2>1, <2>2, <2>3
<1> QED
  BY <1>1, <1>2, <1>3 DEF ValueFits

\* What = stores in a form.
LEMMA StoredTyped ==
  ASSUME NEW f, FlowTyped(f), f.phase = "form", NEW text, IsSeq(text),
         Accepts(CurrentSpec(f), Submitted(f, text))
  PROVE  /\ FlowTyped(Stored(f, text))
         /\ Stored(f, text).phase = "form" /\ Stored(f, text).mode = f.mode
         /\ Stored(f, text).fields = f.fields /\ Stored(f, text).index = f.index
         /\ Stored(f, text).stage = f.stage /\ Stored(f, text).source = f.source
<1> DEFINE field == CurrentSpec(f)
           value == Parsed(field, Submitted(f, text))
           values == With(f.values, field.key, value)
           draft == Without(f.draft, field.key)
           g == [f EXCEPT !.values = values, !.draft = draft]
<1>1. /\ FlowKeys \subseteq DOMAIN f /\ FlowDrafts(f.draft) /\ FlowValues(f.mode, f.stage, f.values)
      /\ FlowForm(f.mode, f.phase, f.stage, f.fields, f.index, f.values)
  BY DEF FlowTyped
<1>2. ProperField(f.mode, f.stage, field) /\ (field.key = "x" => f.index = 1)
  BY FieldOnDisplay
<1>3. IsSeq(Submitted(f, text))
  BY FieldTextIsSeq DEF Submitted
<1>4. ValueFits(field.key, value) /\ (HoldsText(field) => IsSeq(value))
  BY <1>2, <1>3, ParsedFits
<1>5. Stored(f, text) = g
  BY <1>1 DEF Stored, FlowKeys
<1>6. /\ DOMAIN g = DOMAIN f
      /\ g.mode = f.mode /\ g.phase = f.phase /\ g.source = f.source /\ g.entries = f.entries
      /\ g.column = f.column /\ g.row = f.row /\ g.line = f.line /\ g.lines = f.lines
      /\ g.draft = draft /\ g.values = values /\ g.stage = f.stage
      /\ g.fields = f.fields /\ g.index = f.index
  BY <1>1 DEF FlowKeys
<1> HIDE DEF g, value
<1>7. FlowDrafts(draft)
  BY <1>1 DEF FlowDrafts, Without
<1>8. /\ DOMAIN values = DOMAIN f.values \cup {field.key}
      /\ values[field.key] = value
      /\ \A key \in DOMAIN f.values \ {field.key} : values[key] = f.values[key]
  BY DEF With
<1> HIDE DEF values, draft
<1>9. \A key \in DOMAIN values : ValueFits(key, values[key])
  BY <1>1, <1>4, <1>8 DEF FlowValues
<1>10. "x" \in DOMAIN values => f.mode = "Distribution" /\ f.stage = "distribution_run"
  BY <1>1, <1>2, <1>8 DEF FlowValues, ProperField
<1>11. FlowValues(f.mode, f.stage, values)
  BY <1>9, <1>10 DEF FlowValues
<1>12. HoldsText(f.fields[1]) /\ f.fields[1].key = "x" /\ "x" \in DOMAIN values => IsSeq(values["x"])
  <2>1. CASE field.key = "x"
    <3>1. field = f.fields[1]
      BY <1>2, <2>1 DEF CurrentSpec
    <3> QED
      BY <1>4, <1>8, <2>1, <3>1
  <2>2. CASE field.key # "x"
    <3>1. "x" \in DOMAIN values => "x" \in DOMAIN f.values /\ values["x"] = f.values["x"]
      BY <1>8, <2>2
    <3> QED
      BY <1>1, <3>1 DEF FlowForm
  <2> QED
    BY <2>1, <2>2
<1>13. FlowForm(f.mode, f.phase, f.stage, f.fields, f.index, values)
  BY <1>1, <1>12 DEF FlowForm
<1>14. FlowTyped(g)
  BY <1>1, <1>6, <1>7, <1>11, <1>13 DEF FlowTyped
<1> QED
  BY <1>5, <1>6, <1>14

\* A list of results.
LEMMA ResultsTyped ==
  ASSUME NEW f, FlowTyped(f), NEW n \in Nat \ {0}
  PROVE  /\ FlowTyped(ShowResults(f, n)) /\ ShowResults(f, n).phase = "results"
         /\ ShowResults(f, n).mode = f.mode
<1> DEFINE g == ShowResults(f, n)
<1>1. FlowKeys \subseteq DOMAIN f
  BY DEF FlowTyped
<1>2. /\ DOMAIN g = DOMAIN f
      /\ g.mode = f.mode /\ g.phase = "results" /\ g.source = f.source /\ g.entries = f.entries
      /\ g.column = f.column /\ g.row = f.row /\ g.line = 1 /\ g.lines = n
      /\ g.draft = f.draft /\ g.values = f.values /\ g.stage = f.stage
      /\ g.fields = f.fields /\ g.index = f.index
  BY <1>1 DEF ShowResults, FlowKeys
<1> HIDE DEF g
<1>3. FlowPlace(g.column, g.row, g.line, g.lines)
  <2>1. FlowPlace(f.column, f.row, f.line, f.lines)
    BY DEF FlowTyped
  <2>2. 1 \in 1..n
    OBVIOUS
  <2> QED
    BY <1>2, <2>1, <2>2 DEF FlowPlace
<1>4. FlowOrigin(g.mode, g.phase, g.source, g.entries)
  BY <1>2 DEF FlowTyped, FlowOrigin
<1>5. FlowForm(g.mode, g.phase, g.stage, g.fields, g.index, g.values)
  BY <1>2 DEF FlowForm
<1>6. FlowTyped(g)
  BY <1>1, <1>2, <1>3, <1>4, <1>5 DEF FlowTyped
<1> QED
  BY <1>2, <1>6 DEF g

\* The grid.
LEMMA SheetsTyped ==
  ASSUME NEW f, FlowTyped(f), f.mode = "Spreadsheet"
  PROVE  /\ FlowTyped(StartSheet(f)) /\ StartSheet(f).phase = "sheet" /\ StartSheet(f).mode = f.mode
         /\ FlowTyped(SheetReturn(f)) /\ SheetReturn(f).phase = "sheet" /\ SheetReturn(f).mode = f.mode
         /\ FlowTyped(EditCell(f)) /\ EditCell(f).phase = "sheet" /\ EditCell(f).mode = f.mode
         /\ \A d \in Int : FlowTyped(MoveColumn(f, d)) /\ FlowTyped(MoveRow(f, d))
<1>1. /\ FlowKeys \subseteq DOMAIN f /\ FlowDrafts(f.draft) /\ FlowValues(f.mode, f.stage, f.values)
      /\ FlowPlace(f.column, f.row, f.line, f.lines) /\ FlowOrigin(f.mode, f.phase, f.source, f.entries)
  BY DEF FlowTyped
<1> DEFINE OnGrid(g) == /\ DOMAIN g = DOMAIN f
                        /\ g.mode = f.mode /\ g.phase = "sheet" /\ g.source = f.source /\ g.entries = f.entries
                        /\ g.line = f.line /\ g.lines = f.lines
                        /\ g.values = f.values /\ g.stage = "sheet"
                        /\ g.draft \in {f.draft, NoTexts}
                        /\ g.column \in {f.column, 0} /\ g.row \in {f.row, 0}
<1>2. ASSUME NEW g, OnGrid(g) PROVE FlowTyped(g)
  <2>1. FlowOrigin(g.mode, g.phase, g.source, g.entries)
    BY <1>1, <1>2 DEF FlowOrigin
  <2>2. FlowPlace(g.column, g.row, g.line, g.lines)
    <3>1. 0 \in 0..LastColumn /\ 0 \in 0..LastRow
      BY FormsAssumption
    <3> QED
      BY <1>1, <1>2, <3>1 DEF FlowPlace
  <2>3. FlowDrafts(g.draft)
    <3>1. DOMAIN NoTexts = {}
      BY DEF NoTexts
    <3>2. FlowDrafts(NoTexts)
      BY <3>1 DEF FlowDrafts
    <3> QED
      BY <1>1, <1>2, <3>2
  <2>4. FlowValues(g.mode, g.stage, g.values)
    BY <1>1, <1>2 DEF FlowValues
  <2>5. FlowForm(g.mode, g.phase, g.stage, g.fields, g.index, g.values)
    BY <1>2 DEF FlowForm
  <2> QED
    BY <1>1, <1>2, <2>1, <2>2, <2>3, <2>4, <2>5 DEF FlowTyped
<1>3. OnGrid(StartSheet(f))
  BY <1>1 DEF StartSheet, FlowKeys
<1>4. OnGrid(SheetReturn(f))
  BY <1>1 DEF SheetReturn, FlowKeys
<1>5. OnGrid(EditCell(f))
  BY <1>1 DEF EditCell, FlowKeys
<1>6. ASSUME NEW d \in Int PROVE FlowTyped(MoveColumn(f, d)) /\ FlowTyped(MoveRow(f, d))
  <2>1. /\ 0 \in Int /\ LastColumn \in Int /\ LastRow \in Int /\ 0 <= LastColumn /\ 0 <= LastRow
    BY FormsAssumption
  <2>2. f.column + d \in Int /\ f.row + d \in Int
    BY <1>1, FormsAssumption DEF FlowPlace
  <2>3. Clamped(0, LastColumn, f.column + d) \in 0..LastColumn /\ Clamped(0, LastRow, f.row + d) \in 0..LastRow
    BY <2>1, <2>2, ClampedFacts
  <2> DEFINE c == Clamped(0, LastColumn, f.column + d)
             r == Clamped(0, LastRow, f.row + d)
  <2>4. MoveColumn(f, d) = [f EXCEPT !.column = c] /\ MoveRow(f, d) = [f EXCEPT !.row = r]
    BY DEF MoveColumn, MoveRow
  <2>5. c \in 0..LastColumn /\ r \in 0..LastRow
    BY <2>3
  <2> HIDE DEF c, r
  <2>6. FlowTyped([f EXCEPT !.column = c]) /\ FlowTyped([f EXCEPT !.row = r])
    BY <2>5, FlowPlaced
  <2> QED
    BY <2>4, <2>6, Zenon
<1>7. /\ StartSheet(f).phase = "sheet" /\ StartSheet(f).mode = f.mode
      /\ SheetReturn(f).phase = "sheet" /\ SheetReturn(f).mode = f.mode
      /\ EditCell(f).phase = "sheet" /\ EditCell(f).mode = f.mode
  BY <1>3, <1>4, <1>5
<1>8. FlowTyped(StartSheet(f)) /\ FlowTyped(SheetReturn(f)) /\ FlowTyped(EditCell(f))
  BY <1>2, <1>3, <1>4, <1>5
<1> QED
  BY <1>6, <1>7, <1>8

-----------------------------------------------------------------------------
(***************************************************************************)
(* What the parts of the handlers leave behind.                            *)
(***************************************************************************)

\* Entry, recall and workflow after a handler, in mode m.
Screened(m) ==
  /\ EntryTyped(entry')
  /\ AtEntry(m, flow') => Faithful(entry')
  /\ RecallTyped(recall')
  /\ flow' = NoFlow \/ FlowTyped(flow')

\* The bound of the keys is kept.
LEMMA EffortHolds ==
  ASSUME StateTyped, effort' = effort \/ Counted
  PROVE  effort' \in 0..MaxEffort
BY InterfaceAssumption DEF StateTyped, Counted, Effort

\* A handler without a calculation.
LEMMA QuietStep ==
  ASSUME StateTyped, Screened(mode'), mode' \in Modes, effort' \in 0..MaxEffort,
         history' = history, running' = running \/ running' = NoCalculation,
         template' = NoTemplate \/ TemplateTyped(template'), SheetTyped(sheet')
  PROVE  StateTyped'
<1>1. RunningTyped'
  BY DEF StateTyped, RunningTyped, Idle
<1> QED
  BY <1>1 DEF StateTyped, Screened

\* A workflow that is not the history list has the entry for itself.
LEMMA FlowTakesEntry ==
  ASSUME NEW f, FlowTyped(f)
  PROVE  /\ f # NoFlow
         /\ f.mode # "History" => \A m : ~AtEntry(m, f)
<1>1. "mode" \in DOMAIN f /\ "mode" \notin DOMAIN NoFlow
  BY DEF FlowTyped, FlowKeys, NoFlow
<1>2. f # NoFlow
  BY <1>1
<1> QED
  BY <1>2 DEF AtEntry

LEMMA TextIsSeq ==
  ASSUME EntryTyped(entry)
  PROVE  IsSeq(Text) /\ Len(Text) = Len(entry.cells)
BY ShownFacts DEF EntryTyped, Text

LEMMA SetExprTyped ==
  ASSUME EntryTyped(entry), NEW text, IsSeq(text), NEW f, f = NoFlow \/ FlowTyped(f),
         NEW r, RecallTyped(r), text = Blank \/ f = NoFlow, SetExpr(text, f, r)
  PROVE  Screened(mode) /\ template' = NoTemplate
<1>1. /\ template' = NoTemplate /\ recall' = [r EXCEPT !.available = FALSE]
      /\ flow' = IF f # NoFlow /\ f.phase = "form" THEN [f EXCEPT !.armed = FALSE] ELSE f
      /\ entry' = [Shows(entry, text) EXCEPT
                     !.spans = IF DocumentIn(mode, f, NoTemplate) THEN FromText(text) ELSE @]
  BY DEF SetExpr
<1>2. RecallTyped(recall')
  BY <1>1, RecallStays
<1>3. flow' = NoFlow \/ FlowTyped(flow')
  BY <1>1, FlowFlags
<1>4. EntryTyped(entry') /\ (AtEntry(mode, flow') => Faithful(entry'))
  <2>1. CASE DocumentIn(mode, f, NoTemplate)
    BY <1>1, <2>1, ShowsFaithfully
  <2>2. CASE ~DocumentIn(mode, f, NoTemplate)
    <3> DEFINE d == Shows(entry, text).spans
    <3>1. d = entry.spans /\ IsDocument(entry.spans)
      BY ShowsKeeps DEF EntryTyped
    <3>2. entry' = [Shows(entry, text) EXCEPT !.spans = d]
      BY <1>1, <2>2
    <3> HIDE DEF d
    <3>3. EntryTyped(entry') /\ entry'.cells = CellsOfText(text) /\ entry'.spans = d
      BY <3>1, <3>2, ShowsKeeps
    <3>4. text = Blank => Faithful(entry')
      <4>1. ASSUME text = Blank PROVE \A i \in 1..Len(text) : text[i] \notin Symbols
        BY <4>1, BannerAndBlank
      <4>2. IsDocument(entry'.spans)
        BY <3>1, <3>3
      <4> QED
        BY <3>3, <4>1, <4>2, FaithfulPlain
    <3>5. f = NoFlow => ~AtEntry(mode, flow')
      BY <2>2 DEF DocumentIn, AtEntry
    <3> QED
      BY <3>3, <3>4, <3>5
  <2> QED
    BY <2>1, <2>2
<1> QED
  BY <1>1, <1>2, <1>3, <1>4 DEF Screened

LEMMA ShowFormTyped ==
  ASSUME EntryTyped(entry), NEW f, FlowTyped(f), f.mode \in Workflows, "x" \notin DOMAIN f.values,
         NEW stage, NEW fields, ProperFields(f.mode, stage, fields),
         NEW r, RecallTyped(r), ShowForm(f, stage, fields, r), NEW m
  PROVE  Screened(m)
<1>1. flow' = BeginForm(f, stage, fields) /\ entry' = Shows(entry, FieldEntry(flow'))
      /\ recall' = [r EXCEPT !.available = FALSE]
  BY DEF ShowForm
<1>2. FlowTyped(flow') /\ flow'.phase = "form" /\ flow'.mode \in Workflows
  BY <1>1, FormBeginsTyped
<1>3. IsSeq(FieldEntry(flow'))
  BY <1>2, FieldTextIsSeq
<1>4. EntryTyped(entry')
  BY <1>1, <1>3, ShowsKeeps
<1>5. flow'.mode # "History"
  BY <1>2 DEF Workflows, FirstStage
<1>6. ~AtEntry(m, flow')
  BY <1>2, <1>5, FlowTakesEntry
<1>7. RecallTyped(recall')
  BY <1>1, RecallStays
<1> QED
  BY <1>2, <1>4, <1>6, <1>7 DEF Screened

LEMMA CellsAreSeqs ==
  ASSUME NEW f, FlowTyped(f), NEW s, SheetTyped(s)
  PROVE  Address(f) \in Addresses /\ IsSeq(s[Address(f)])
<1>1. Address(f) \in Addresses
  BY DEF FlowTyped, FlowPlace, Address, Addresses
<1> QED
  BY <1>1 DEF SheetTyped

LEMMA ShowCellTyped ==
  ASSUME EntryTyped(entry), NEW f, FlowTyped(f), f.mode = "Spreadsheet", SheetTyped(sheet'),
         NEW r, RecallTyped(r), ShowCell(f, r), NEW m
  PROVE  Screened(m)
<1>1. flow' = f /\ recall' = r
  BY DEF ShowCell
<1>2. EntryTyped(entry')
  <2>1. CASE f.editing
    BY <2>1 DEF ShowCell
  <2>2. CASE ~f.editing
    <3>1. entry' = Shows(entry, sheet'[Address(f)])
      BY <2>2 DEF ShowCell
    <3>2. IsSeq(sheet'[Address(f)])
      BY CellsAreSeqs
    <3> QED
      BY <3>1, <3>2, ShowsKeeps
  <2> QED
    BY <2>1, <2>2
<1>3. ~AtEntry(m, flow')
  BY <1>1, FlowTakesEntry
<1> QED
  BY <1>1, <1>2, <1>3 DEF Screened

LEMMA ShowResultListTyped ==
  ASSUME EntryTyped(entry), NEW f, FlowTyped(f), NEW n \in Nat \ {0},
         NEW r, RecallTyped(r), ShowResultList(f, n, r), NEW m
  PROVE  Screened(m)
<1>1. flow' = ShowResults(f, n) /\ recall' = r /\ entry' = Shows(entry, Banner)
  BY DEF ShowResultList
<1>2. FlowTyped(flow')
  BY <1>1, ResultsTyped
<1>3. EntryTyped(entry') /\ Faithful(entry')
  BY <1>1, ShowsPlainly
<1> QED
  BY <1>1, <1>2, <1>3 DEF Screened

\* _start_lcd_flow
LEMMA StartFlowTyped ==
  ASSUME EntryTyped(entry), SheetTyped(sheet), NEW w \in Workflows, NEW source, IsSeq(source),
         NEW r, RecallTyped(r), StartFlow(w, source, r), NEW m
  PROVE  Screened(m) /\ template' = NoTemplate /\ sheet' = sheet
<1> DEFINE f == FreshFlow(w, source)
<1>1. template' = NoTemplate /\ sheet' = sheet
  BY DEF StartFlow
<1>2. FlowTyped(f) /\ f.mode = w /\ "x" \notin DOMAIN f.values
  BY FreshFlowTyped
<1>3. f.values = NoTexts
  BY DEF FreshFlow
<1>4. CASE w = "Spreadsheet"
  <2>1. ShowCell(StartSheet(f), r)
    BY <1>4 DEF StartFlow
  <2> HIDE DEF f
  <2>2. FlowTyped(StartSheet(f)) /\ StartSheet(f).mode = "Spreadsheet"
    BY <1>2, <1>4, SheetsTyped
  <2>3. SheetTyped(sheet')
    BY <1>1
  <2> QED
    BY <1>1, <2>1, <2>2, <2>3, ShowCellTyped
<1>5. CASE w # "Spreadsheet"
  <2>1. PICK fields \in Fields(w, FirstStage[w], NoTexts) : ShowForm(f, FirstStage[w], fields, r)
    BY <1>5 DEF StartFlow
  <2>2. w \in DOMAIN FirstStage
    BY <1>5 DEF Workflows
  <2>3. ProperFields(w, FirstStage[w], fields)
    BY <2>2, FirstStagesReady, FieldsAreProper
  <2> HIDE DEF f
  <2> QED
    BY <1>1, <1>2, <2>1, <2>3, ShowFormTyped
<1> QED
  BY <1>4, <1>5

\* The modes that have no workflow, and the ones whose workflow carries their name.
LEMMA ModesOfWorkflows ==
  ASSUME NEW m \in Modes, m \notin DocumentModes \cup {"BaseN"}
  PROVE  m \in Workflows
BY InterfaceAssumption DEF Workflows

\* The first screen of a mode shows nothing.
LEMMA HomeTyped ==
  ASSUME StateTyped, NEW m \in Modes, NEW spans, IsDocument(spans), Home(m, spans)
  PROVE  Screened(m) /\ template' = NoTemplate /\ sheet' = sheet
<1>1. EntryTyped(entry) /\ RecallTyped(recall) /\ SheetTyped(sheet)
  BY DEF StateTyped
<1>2. RecallTyped(AtNewest(recall))
  BY <1>1, RecallStays DEF AtNewest
<1>3. IsSeq(Blank)
  BY BannerAndBlank
<1>4. CASE m \in DocumentModes \cup {"BaseN"}
  <2>1. /\ template' = NoTemplate /\ flow' = NoFlow /\ sheet' = sheet
        /\ entry' = [Shows(entry, Blank) EXCEPT !.spans = spans]
        /\ recall' = AtNewest(recall)
    BY <1>4 DEF Home
  <2>2. EntryTyped(entry') /\ entry'.cells = CellsOfText(Blank) /\ entry'.spans = spans
    BY <1>1, <1>3, <2>1, ShowsKeeps
  <2>3. Faithful(entry')
    BY <1>3, <2>2, BannerAndBlank, FaithfulPlain
  <2> QED
    BY <1>2, <2>1, <2>2, <2>3 DEF Screened
<1>5. CASE m \notin DocumentModes \cup {"BaseN"}
  <2>1. StartFlow(m, Blank, AtNewest(recall))
    BY <1>5 DEF Home
  <2>2. m \in Workflows
    BY <1>5, ModesOfWorkflows
  <2> QED
    BY <1>1, <1>2, <1>3, <2>1, <2>2, StartFlowTyped
<1> QED
  BY <1>4, <1>5

\* A template of a calculus form.
LEMMA OpenIntegralTyped ==
  ASSUME StateTyped, NEW choice \in Range(IntegralKinds), NEW source, IsSeq(source),
         OpenIntegral(choice, source)
  PROVE  Screened(mode) /\ TemplateTyped(template') /\ sheet' = sheet
<1> DEFINE kind == CASE mode = "Complex" -> "complex_integral"
                     [] mode # "Complex" /\ choice = "definite" -> "integral"
                     [] OTHER -> "multiple_integral"
           size == IF kind = "multiple_integral" THEN Layers(choice) ELSE 0
           filled == IF mode = "Complex" \/ source = Blank THEN {} ELSE {Body}
<1>1. /\ template' = Open(kind, size, filled)
      /\ flow' = NoFlow /\ recall' = Unavailable /\ sheet' = sheet
      /\ entry' = [Shows(entry, source) EXCEPT
                     !.spans = IF mode \in DocumentModes THEN FromText(source) ELSE @]
  BY DEF OpenIntegral
<1>2. kind \in {"complex_integral", "integral", "multiple_integral"}
  OBVIOUS
<1>3. kind = "multiple_integral" => size \in 1..3
  <2>1. \E n \in DOMAIN IntegralKinds : IntegralKinds[n] = choice
    BY DEF Range
  <2>2. Layers(choice) \in DOMAIN IntegralKinds
    BY <2>1 DEF Layers
  <2>3. DOMAIN IntegralKinds = 1..3
    <3>1. IntegralKinds \in Seq({"definite", "double", "triple"}) /\ Len(IntegralKinds) = 3
      BY DEF IntegralKinds
    <3> QED
      BY <3>1
  <2>4. kind = "multiple_integral" => size = Layers(choice)
    OBVIOUS
  <2> QED
    BY <2>2, <2>3, <2>4
<1>4. filled \subseteq {1}
  BY DEF Body
<1> HIDE DEF kind, size, filled
<1>5. kind \in Kinds /\ SizeFits(kind, size) /\ filled \subseteq 1..SlotCount(kind, size)
  <2>1. kind \in Kinds
    BY <1>2 DEF Kinds
  <2>2. SizeFits(kind, size)
    BY <1>2, <1>3 DEF SizeFits, Equations
  <2>3. SlotCount(kind, size) \in Nat \ {0}
    BY <2>1, <2>2, SlotsOf
  <2>4. 1 \in 1..SlotCount(kind, size)
    BY <2>3
  <2> QED
    BY <1>4, <2>1, <2>2, <2>4
<1>6. TemplateTyped(template')
  BY <1>1, <1>5, OpenTyped
<1>7. EntryTyped(entry') /\ (mode \in DocumentModes => Faithful(entry'))
  <2>1. EntryTyped(entry)
    BY DEF StateTyped
  <2>2. CASE mode \in DocumentModes
    BY <1>1, <2>1, <2>2, ShowsFaithfully
  <2>3. CASE mode \notin DocumentModes
    <3> DEFINE d == Shows(entry, source).spans
    <3>1. IsDocument(d)
      BY <2>1, ShowsKeeps DEF EntryTyped
    <3>2. entry' = [Shows(entry, source) EXCEPT !.spans = d]
      BY <1>1, <2>3
    <3> HIDE DEF d
    <3> QED
      BY <2>1, <2>3, <3>1, <3>2, ShowsKeeps
  <2> QED
    BY <2>2, <2>3
<1>8. RecallTyped(recall')
  BY <1>1, RecallStays DEF StateTyped, Unavailable
<1> QED
  BY <1>1, <1>6, <1>7, <1>8 DEF Screened, AtEntry

\* A template of Equation, with the size that was asked for.
LEMMA OpenEquationTyped ==
  ASSUME StateTyped, mode \notin DocumentModes, NEW kind \in {"ode"} \cup Equations, NEW f,
         kind = "polynomial" => f.values["polynomial_degree"] \in 2..4,
         kind = "simultaneous" => f.values["simultaneous_size"] \in 2..4,
         OpenEquation(kind, f)
  PROVE  Screened(mode) /\ TemplateTyped(template') /\ sheet' = sheet
<1> DEFINE size == CASE kind = "polynomial" -> f.values["polynomial_degree"]
                     [] kind = "simultaneous" -> f.values["simultaneous_size"]
                     [] OTHER -> 0
<1>1. template' = Open(kind, size, {}) /\ flow' = NoFlow /\ UNCHANGED <<entry, recall, sheet>>
  BY DEF OpenEquation
<1>2. kind \in Equations => size \in 2..4
  BY DEF Equations
<1> HIDE DEF size
<1>3. kind \in Kinds /\ kind # "multiple_integral"
  BY DEF Kinds, Equations
<1>4. SizeFits(kind, size)
  BY <1>2, <1>3 DEF SizeFits
<1>5. TemplateTyped(template')
  BY <1>1, <1>3, <1>4, OpenTyped
<1> QED
  BY <1>1, <1>5 DEF StateTyped, Screened, AtEntry

\* A refused form blanks its field.
LEMMA FormErrorTyped ==
  ASSUME StateTyped, NEW f, FlowTyped(f), FormError(f)
  PROVE  Screened(mode) /\ template' = NoTemplate /\ sheet' = sheet
<1> DEFINE draft == With(f.draft, CurrentSpec(f).key, Blank)
           g == [f EXCEPT !.draft = draft]
<1>1. FlowKeys \subseteq DOMAIN f /\ FlowDrafts(f.draft)
  BY DEF FlowTyped
<1>2. SetExpr(Blank, g, recall) /\ sheet' = sheet
  BY <1>1 DEF FormError, FlowKeys
<1>3. IsSeq(Blank)
  BY BannerAndBlank
<1>4. FlowDrafts(draft)
  BY <1>1, <1>3, DraftsChange
<1> HIDE DEF draft
<1>5. FlowTyped(g)
  BY <1>4, FlowDrafted
<1> HIDE DEF g
<1> QED
  BY <1>2, <1>3, <1>5, SetExprTyped DEF StateTyped

\* What the tools write into the sheet are texts.
LEMMA SheetsAfterTyped ==
  ASSUME SheetTyped(sheet), NEW stage, NEW f, FlowTyped(f),
         stage = "sheet_grab" => IsSeq(f.values["sheet_reference_prefix"]),
         stage = "sheet_fill" => IsSeq(f.values["sheet_fill_text"]),
         NEW s \in SheetsAfter(stage, f)
  PROVE  SheetTyped(s)
<1> DEFINE here == Address(f)
           target == TargetAddress(f)
           Between(i, j, k) == (i <= k /\ k <= j) \/ (j <= k /\ k <= i)
           inside(a) == Between(here[1], target[1], a[1]) /\ Between(here[2], target[2], a[2])
<1>1. here \in Addresses /\ IsSeq(sheet[here])
  BY CellsAreSeqs
<1>2. IsSeq(Blank)
  BY BannerAndBlank
<1>3. ASSUME NEW a, NEW text, IsSeq(text) PROVE SheetTyped([sheet EXCEPT ![a] = text])
  BY <1>3 DEF SheetTyped
<1>4. CASE stage = "sheet_delete"
  <2>1. s = [sheet EXCEPT ![here] = Blank]
    BY <1>4 DEF SheetsAfter
  <2> QED
    BY <1>2, <1>3, <2>1
<1>5. CASE stage = "sheet_copy"
  <2>1. \/ s = [sheet EXCEPT ![target] = sheet[here]]
        \/ s = [a \in Addresses |-> IF a = target THEN sheet[here] ELSE IF a = here THEN Blank ELSE sheet[a]]
    BY <1>5 DEF SheetsAfter
  <2>2. CASE s = [sheet EXCEPT ![target] = sheet[here]]
    <3> HIDE DEF target, here
    <3> QED
      BY <1>1, <1>3, <2>2
  <2>3. CASE s = [a \in Addresses |-> IF a = target THEN sheet[here] ELSE IF a = here THEN Blank ELSE sheet[a]]
    <3> HIDE DEF target, here
    <3> QED
      BY <1>1, <1>2, <2>3 DEF SheetTyped
  <2> QED
    BY <2>1, <2>2, <2>3
<1>6. CASE stage = "sheet_grab"
  <2> DEFINE text == Append(f.values["sheet_reference_prefix"], "ref")
  <2>1. s = [sheet EXCEPT ![target] = text]
    BY <1>6 DEF SheetsAfter
  <2>2. IsSeq(text)
    BY <1>6, AppendSeqs
  <2> HIDE DEF target, text
  <2> QED
    BY <1>3, <2>1, <2>2
<1>7. CASE stage = "sheet_fill"
  <2> DEFINE text == f.values["sheet_fill_text"]
  <2>1. s = [a \in Addresses |-> IF inside(a) THEN text ELSE sheet[a]]
    BY <1>7 DEF SheetsAfter
  <2>2. IsSeq(text)
    BY <1>7
  <2> HIDE DEF inside, text
  <2> QED
    BY <2>1, <2>2 DEF SheetTyped
<1>8. CASE stage = "sheet_delete_all" /\ f.values["sheet_confirm"] = "Delete all"
  <2>1. s = [a \in Addresses |-> Blank]
    BY <1>8 DEF SheetsAfter
  <2> QED
    BY <1>2, <2>1 DEF SheetTyped
<1>9. CASE /\ stage \notin {"sheet_delete", "sheet_copy", "sheet_grab", "sheet_fill"}
           /\ ~(stage = "sheet_delete_all" /\ f.values["sheet_confirm"] = "Delete all")
  <2>1. s = sheet
    BY <1>9 DEF SheetsAfter
  <2> QED
    BY <2>1
<1> QED
  BY <1>4, <1>5, <1>6, <1>7, <1>8, <1>9

\* Where a complete form leads.
LEMMA CompletedTyped ==
  ASSUME StateTyped, mode \in Modes, template = NoTemplate, NEW f, FlowTyped(f), f.phase = "form",
         Belongs(f.mode, mode), NEW outcome \in Completions(f.mode, f.stage, f.fields, f.values),
         outcome.to = "template" =>
           (f.mode = "Equation" /\ outcome.at \in {"ode"} \cup Equations) \/ outcome.at \in Range(IntegralKinds),
         Completed(f, outcome)
  PROVE  Screened(mode) /\ (template' = NoTemplate \/ TemplateTyped(template')) /\ SheetTyped(sheet')
<1>1. EntryTyped(entry) /\ RecallTyped(recall) /\ SheetTyped(sheet)
  BY DEF StateTyped
<1>2. f.mode \in Workflows /\ ProperFields(f.mode, f.stage, f.fields)
  BY FieldOnDisplay
<1>3. FlowValues(f.mode, f.stage, f.values) /\ IsSeq(f.source)
  BY DEF FlowTyped, FlowOrigin
<1>4. CASE outcome.to = "form"
  <2>1. PICK fields \in Fields(f.mode, outcome.at, f.values) : ShowForm(f, outcome.at, fields, recall)
    BY <1>4 DEF Completed
  <2>2. template' = template /\ sheet' = sheet
    BY <1>4 DEF Completed
  <2>3. StageReady(f.mode, outcome.at, f.values) /\ "x" \notin DOMAIN f.values
    BY <1>2, <1>3, <1>4, FormsFollow
  <2>4. ProperFields(f.mode, outcome.at, fields)
    BY <2>3, FieldsAreProper
  <2>5. Screened(mode)
    BY <1>1, <1>2, <2>1, <2>3, <2>4, ShowFormTyped
  <2> QED
    BY <1>1, <2>2, <2>5
<1>5. CASE outcome.to = "template" /\ outcome.at \in Range(IntegralKinds)
  <2>1. OpenIntegral(outcome.at, f.source)
    BY <1>5 DEF Completed
  <2> QED
    BY <1>1, <1>3, <1>5, <2>1, OpenIntegralTyped
<1>6. CASE outcome.to = "template" /\ outcome.at \notin Range(IntegralKinds)
  <2>1. OpenEquation(outcome.at, f) /\ f.mode = "Equation" /\ outcome.at \in {"ode"} \cup Equations
    BY <1>6 DEF Completed
  <2>2. mode \notin DocumentModes
    BY <2>1 DEF Belongs, Owner, DocumentModes
  <2>3. /\ outcome.at = "polynomial" => f.values["polynomial_degree"] \in 2..4
        /\ outcome.at = "simultaneous" => f.values["simultaneous_size"] \in 2..4
    BY <1>2, <1>3, <1>6, <2>1, SizesFollow
  <2> QED
    BY <1>1, <2>1, <2>2, <2>3, OpenEquationTyped
<1>7. CASE outcome.to = "results"
  <2>1. PICK n \in 1..MaxLines : ShowResultList(f, n, recall)
    BY <1>7 DEF Completed
  <2>2. n \in Nat \ {0}
    BY FormsAssumption
  <2>3. template' = template /\ sheet' = sheet
    BY <1>7 DEF Completed
  <2>4. Screened(mode)
    BY <1>1, <2>1, <2>2, ShowResultListTyped
  <2> QED
    BY <1>1, <2>3, <2>4
<1>8. CASE outcome.to = "sheet"
  <2>1. sheet' \in SheetsAfter(outcome.at, f) /\ ShowCell(SheetReturn(f), recall) /\ template' = template
    BY <1>8 DEF Completed
  <2>2. /\ f.mode = "Spreadsheet"
        /\ outcome.at = "sheet_grab" => IsSeq(f.values["sheet_reference_prefix"])
        /\ outcome.at = "sheet_fill" => IsSeq(f.values["sheet_fill_text"])
    BY <1>2, <1>3, <1>8, ToolsFollow
  <2>3. SheetTyped(sheet')
    BY <1>1, <2>1, <2>2, SheetsAfterTyped
  <2>4. FlowTyped(SheetReturn(f)) /\ SheetReturn(f).mode = "Spreadsheet"
    BY <2>2, SheetsTyped
  <2>5. Screened(mode)
    BY <1>1, <2>1, <2>3, <2>4, ShowCellTyped
  <2> QED
    BY <2>1, <2>3, <2>5
<1>9. CASE outcome.to = "edit"
  <2>1. flow' = EditCell(f) /\ entry' = Shows(entry, sheet[Address(f)]) /\ UNCHANGED <<template, recall, sheet>>
    BY <1>9 DEF Completed
  <2>2. f.mode = "Spreadsheet"
    BY <1>2, <1>3, <1>9, ToolsFollow
  <2>3. FlowTyped(flow') /\ flow'.mode = "Spreadsheet"
    BY <2>1, <2>2, SheetsTyped
  <2>4. EntryTyped(entry')
    BY <1>1, <2>1, CellsAreSeqs, ShowsKeeps
  <2>5. ~AtEntry(mode, flow')
    BY <2>3, FlowTakesEntry
  <2> QED
    BY <1>1, <2>1, <2>3, <2>4, <2>5 DEF Screened
<1>10. CASE outcome.to \notin {"form", "template", "results", "sheet", "edit"}
  <2>1. FormError(f)
    BY <1>10 DEF Completed
  <2> QED
    BY <1>1, <2>1, FormErrorTyped
<1> QED
  BY <1>4, <1>5, <1>6, <1>7, <1>8, <1>9, <1>10

\* A record that is recalled: its template, its document or its line.
LEMMA RecalledTyped ==
  ASSUME StateTyped, NEW record, RecordFits(record), record.kind \in RecordKinds,
         AtEntry(mode, NoFlow) => Faithful(entry),
         NEW r, RecallTyped(r), Recalled(record, NoFlow, r)
  PROVE  Screened(mode) /\ (template' \in {NoTemplate, template} \/ TemplateTyped(template'))
<1>1. EntryTyped(entry) /\ RecallTyped(recall)
  BY DEF StateTyped
<1>2. CASE record.kind # "evaluate"
  <2>1. template' = Restored(record) /\ flow' = NoFlow /\ entry' = entry /\ recall' = r
    BY <1>2 DEF Recalled
  <2>2. TemplateTyped(template')
    BY <1>2, <2>1, RestoredTyped
  <2> QED
    BY <1>1, <2>1, <2>2 DEF Screened
<1>3. CASE record.kind = "evaluate" /\ mode \in DocumentModes /\ Documents(record.source) # {}
  <2>1. /\ \E d \in Documents(record.source) :
             entry' = ShowsDocument(entry, d.spans, CellsOfSpans(d.spans), Len(Display(d.spans)))
        /\ template' = template /\ flow' = NoFlow /\ recall' = r
    BY <1>3 DEF Recalled
  <2>2. PICK d \in Documents(record.source) :
          entry' = ShowsDocument(entry, d.spans, CellsOfSpans(d.spans), Len(Display(d.spans)))
    BY <2>1
  <2>3. PICK i \in DOMAIN recall.documents : d = recall.documents[i]
    BY <2>2 DEF Documents, Range
  <2>4. IsDocument(d.spans)
    <3>1. DOMAIN recall.documents = 1..Len(recall.documents)
      BY <1>1, SeqFacts DEF RecallTyped, Known
    <3> QED
      BY <1>1, <2>3, <3>1 DEF RecallTyped, Known, KeptDocument
  <2>5. EntryTyped(entry') /\ Faithful(entry')
    BY <1>1, <2>2, <2>4, KeptIsFaithful
  <2> QED
    BY <2>1, <2>5 DEF Screened
<1>4. CASE record.kind = "evaluate" /\ ~(mode \in DocumentModes /\ Documents(record.source) # {})
  <2>1. SetExpr(record.source, NoFlow, r)
    BY <1>4 DEF Recalled
  <2>2. IsSeq(record.source)
    BY SeqIsSeq DEF RecordFits
  <2>3. Screened(mode) /\ template' = NoTemplate
    BY <1>1, <2>1, <2>2, SetExprTyped
  <2> QED
    BY <2>3
<1> QED
  BY <1>2, <1>3, <1>4

-----------------------------------------------------------------------------
(***************************************************************************)
(* The keys of the entry.                                                  *)
(***************************************************************************)

\* The first key in a form or on the grid leaves the workflow what it is.
LEMMA EditedTyped ==
  ASSUME flow = NoFlow \/ FlowTyped(flow), NEW f \in {flow, Editing(flow), Editing(Disarmed)}
  PROVE  /\ flow = NoFlow => f = NoFlow
         /\ flow # NoFlow => FlowTyped(f) /\ f.mode = flow.mode
<1>1. CASE flow = NoFlow
  BY <1>1 DEF Disarmed, Armed, Editing, OnSheet
<1>2. CASE flow # NoFlow
  <2>1. \A g, v : FlowTyped(g) => FlowTyped([g EXCEPT !.armed = v]) /\ FlowTyped([g EXCEPT !.editing = v])
    BY FlowFlags
  <2>2. \A g, v : FlowTyped(g) => [g EXCEPT !.armed = v].mode = g.mode /\ [g EXCEPT !.editing = v].mode = g.mode
    BY DEF FlowTyped, FlowKeys
  <2>3. FlowTyped(Disarmed) /\ Disarmed.mode = flow.mode
    BY <1>2, <2>1, <2>2 DEF Disarmed
  <2>4. \A g : FlowTyped(g) => FlowTyped(Editing(g)) /\ Editing(g).mode = g.mode
    BY <2>1, <2>2 DEF Editing
  <2> QED
    BY <1>2, <2>3, <2>4
<1> QED
  BY <1>1, <1>2

\* A key that reaches the entry while no template is open.
LEMMA EntryStep ==
  ASSUME StateTyped, UNCHANGED <<mode, template, history, running, sheet>>, effort' = effort \/ Counted,
         template = NoTemplate, ~InHistory,
         EntryTyped(entry'), DocumentActive => Faithful(entry'),
         flow' \in {flow, Editing(flow), Editing(Disarmed)}, recall' \in {recall, Unavailable}
  PROVE  StateTyped'
<1>1. /\ flow = NoFlow \/ FlowTyped(flow)
      /\ RecallTyped(recall) /\ SheetTyped(sheet) /\ mode \in Modes
  BY DEF StateTyped
<1>2. /\ flow = NoFlow => flow' = NoFlow
      /\ flow # NoFlow => FlowTyped(flow') /\ flow'.mode = flow.mode
  BY <1>1, EditedTyped
<1>3. AtEntry(mode, flow') => DocumentActive
  <2>1. ASSUME AtEntry(mode, flow'), flow # NoFlow PROVE FALSE
    <3>1. flow'.mode # "History" /\ FlowTyped(flow')
      BY <1>2, <2>1 DEF InHistory
    <3> QED
      BY <2>1, <3>1, FlowTakesEntry
  <2> QED
    BY <2>1 DEF AtEntry, DocumentActive, DocumentIn
<1>4. RecallTyped(recall')
  <2>1. RecallTyped([recall EXCEPT !.available = FALSE])
    BY <1>1, RecallStays
  <2>2. RecallTyped(Unavailable)
    BY <2>1 DEF Unavailable
  <2> QED
    BY <1>1, <2>2, Zenon
<1>5. Screened(mode')
  BY <1>2, <1>3, <1>4 DEF Screened
<1>6. SheetTyped(sheet') /\ effort' \in 0..MaxEffort
  BY <1>1, EffortHolds
<1> QED
  BY <1>1, <1>5, <1>6, QuietStep

\* What a key finds in the entry: an armed default is gone.
LEMMA PreparedKeeps ==
  ASSUME StateTyped
  PROVE  /\ EntryTyped(entry) /\ EntryTyped(Prepared)
         /\ DocumentActive => Faithful(entry) /\ Prepared = entry
<1>1. EntryTyped(entry) /\ (AtEntry(mode, flow) => Faithful(entry))
  BY DEF StateTyped
<1>2. EntryTyped(Prepared)
  BY <1>1, BannerAndBlank, ShowsKeeps DEF Prepared
<1>3. DocumentActive => AtEntry(mode, flow) /\ ~Armed
  BY DEF DocumentActive, DocumentIn, AtEntry, Armed
<1> QED
  BY <1>1, <1>2, <1>3 DEF Prepared

\* The editing keys, one at a time: typing a token...
LEMMA TypingTyped ==
  ASSUME StateTyped, NEW token, Type(token)
  PROVE  StateTyped'
<1> DEFINE e == Remembered(Prepared)
<1>1. /\ ~InHistory /\ template = NoTemplate /\ Counted
      /\ recall' = Unavailable /\ flow' = Editing(Disarmed) /\ entry' = Typed(e, token)
      /\ UNCHANGED <<mode, template, history, running, sheet>>
  BY DEF Type
<1>2. /\ EntryTyped(entry) /\ EntryTyped(Prepared)
      /\ DocumentActive => Faithful(entry) /\ Prepared = entry
  BY PreparedKeeps
<1>3. EntryTyped(e) /\ e.cells = Prepared.cells
  BY <1>2, RememberedKeeps
<1> HIDE DEF e
<1>4. EntryTyped(entry') /\ (DocumentActive => Faithful(entry'))
  BY <1>1, <1>2, <1>3, TypedKeeps
<1> QED
  BY <1>1, <1>4, EntryStep

\* ...deleting...
LEMMA DeletingTyped ==
  ASSUME StateTyped, Delete
  PROVE  StateTyped'
<1> DEFINE e == Prepared
           r == Remembered(e)
           g == [r EXCEPT !.cells = RemoveAt(r.cells, r.cursor), !.cursor = r.cursor - 1,
                          !.spans = IF DocumentActive THEN DeleteBackward(CurrentDocument, r.cursor)
                                    ELSE r.spans]
<1>1. /\ ~InHistory /\ template = NoTemplate /\ Counted
      /\ recall' = Unavailable /\ flow' = Editing(Disarmed)
      /\ UNCHANGED <<mode, template, history, running, sheet>>
  BY DEF Delete
<1>2. /\ EntryTyped(entry) /\ EntryTyped(e)
      /\ DocumentActive => Faithful(entry) /\ e = entry
  BY PreparedKeeps
<1>3. /\ EntryTyped(r) /\ r.cells = e.cells /\ r.cursor = e.cursor
  BY <1>2, RememberedKeeps
<1>4. entry' = IF e.cursor = 0 THEN e
               ELSE [r EXCEPT !.cells = RemoveAt(@, e.cursor), !.cursor = @ - 1,
                              !.spans = IF DocumentActive THEN DeleteBackward(CurrentDocument, e.cursor)
                                        ELSE @]
  BY DEF Delete
<1>5. e.cursor # 0 => entry' = g
  BY <1>3, <1>4
<1> HIDE DEF e, r
<1>6. CASE e.cursor = 0
  <2>1. EntryTyped(entry') /\ (DocumentActive => Faithful(entry'))
    BY <1>2, <1>4, <1>6
  <2> QED
    BY <1>1, <2>1, EntryStep
<1>7. CASE e.cursor # 0
  <2>1. r.cursor # 0 /\ (DocumentActive => Faithful(entry) /\ r.cells = entry.cells)
    BY <1>2, <1>3, <1>7
  <2>2. EntryTyped(g) /\ (DocumentActive => Faithful(g))
    BY <1>2, <1>3, <2>1, ErasedKeeps
  <2> HIDE DEF g
  <2>3. EntryTyped(entry') /\ (DocumentActive => Faithful(entry'))
    BY <1>5, <1>7, <2>2
  <2> QED
    BY <1>1, <2>3, EntryStep
<1> QED
  BY <1>6, <1>7

\* ...inserting an engineering prefix...
LEMMA PrefixTyped ==
  ASSUME StateTyped, NEW symbol \in EngineerKeys, InsertPrefix(symbol)
  PROVE  StateTyped'
<1> DEFINE e == Remembered(entry)
           g == ShowsDocument(e, InsertEngineeringPrefix(CurrentDocument, e.cursor, symbol),
                              InsertAt(e.cells, e.cursor + 1, PrefixCell(symbol)), e.cursor + 1)
<1>1. /\ DocumentActive /\ Counted /\ entry' = g
      /\ recall' = Unavailable
      /\ UNCHANGED <<mode, flow, template, history, running, sheet>>
  BY DEF InsertPrefix
<1>2. ~InHistory /\ template = NoTemplate /\ symbol \in Symbols
  BY <1>1, InterfaceAssumption DEF DocumentActive, DocumentIn, InHistory
<1>3. EntryTyped(entry) /\ Faithful(entry)
  BY <1>1, PreparedKeeps
<1>4. EntryTyped(e) /\ e.cells = entry.cells
  BY <1>3, RememberedKeeps
<1> HIDE DEF e
<1>5. EntryTyped(g) /\ Faithful(g)
  BY <1>1, <1>2, <1>3, <1>4, PrefixedKeeps
<1> HIDE DEF g
<1> QED
  BY <1>1, <1>2, <1>5, EntryStep

\* ...undoing: what is restored was on the line once...
LEMMA UndoingTyped ==
  ASSUME StateTyped, Undo
  PROVE  StateTyped'
<1> DEFINE e == [entry EXCEPT !.undo = Append(Front(@), Last(Remembered(entry).undo))]
           previous == Last(entry.undo)
           text == Shown(previous.cells)
<1>1. /\ ~InHistory /\ template = NoTemplate /\ Counted /\ entry.undo # <<>>
      /\ recall' \in {recall, Unavailable} /\ flow' \in {Editing(flow), Editing(Disarmed)}
      /\ UNCHANGED <<mode, template, history, running, sheet>>
  BY DEF Undo
<1>2. entry' = IF previous.document
               THEN ShowsDocument(e, previous.spans, previous.cells, Len(previous.cells))
               ELSE [Shows(e, text) EXCEPT !.spans = IF DocumentActive THEN FromText(text) ELSE @]
  BY DEF Undo
<1>3. EntryTyped(entry) /\ (DocumentActive => Faithful(entry))
  BY PreparedKeeps
<1>4. EntryTyped(e) /\ UndoItem(previous)
  BY <1>1, <1>3, UndoneKeeps
<1> HIDE DEF e, previous
<1>5. CASE previous.document
  <2>1. IsDocument(previous.spans) /\ CellsOfSpans(previous.spans) = previous.cells /\ IsSeq(previous.cells)
    BY <1>4, <1>5 DEF UndoItem
  <2>2. Len(previous.cells) \in 0..Len(previous.cells)
    BY <2>1, SeqFacts
  <2>3. EntryTyped(entry') /\ entry'.cells = previous.cells /\ entry'.spans = previous.spans
    BY <1>2, <1>4, <1>5, <2>1, <2>2, ShowsDocumentKeeps
  <2>4. Faithful(entry')
    BY <2>1, <2>3, FaithfulDocument
  <2> QED
    BY <1>1, <2>3, <2>4, EntryStep
<1>6. CASE ~previous.document
  <2>1. IsSeq(text)
    BY <1>4, ShownFacts DEF UndoItem
  <2> HIDE DEF text
  <2>2. CASE DocumentActive
    <3>1. EntryTyped(entry') /\ Faithful(entry')
      BY <1>2, <1>4, <1>6, <2>1, <2>2, ShowsFaithfully
    <3> QED
      BY <1>1, <3>1, EntryStep
  <2>3. CASE ~DocumentActive
    <3> DEFINE d == Shows(e, text).spans
    <3>1. IsDocument(d)
      BY <1>4, <2>1, ShowsKeeps DEF EntryTyped
    <3>2. entry' = [Shows(e, text) EXCEPT !.spans = d]
      BY <1>2, <1>6, <2>3
    <3> HIDE DEF d
    <3>3. EntryTyped(entry')
      BY <1>4, <2>1, <3>1, <3>2, ShowsKeeps
    <3> QED
      BY <1>1, <2>3, <3>3, EntryStep
  <2> QED
    BY <2>2, <2>3
<1> QED
  BY <1>5, <1>6

\* ...and all of them.
LEMMA EntryKeysTyped ==
  ASSUME StateTyped,
         \/ \E token \in Tokens : Type(token)
         \/ \E symbol \in EngineerKeys : InsertPrefix(symbol)
         \/ Delete \/ ToggleOverwrite \/ Undo
         \/ \E d \in {-1, 1} : MoveCaret(d)
  PROVE  StateTyped'
<1>1. EntryTyped(entry) /\ (DocumentActive => Faithful(entry))
  BY PreparedKeeps
<1>2. Len(Text) = Len(entry.cells) /\ entry.cursor \in 0..Len(entry.cells) /\ entry.overwrite \in BOOLEAN
  BY <1>1, TextIsSeq DEF EntryTyped
<1>3. CASE ToggleOverwrite
  <2>1. /\ ~InHistory /\ template = NoTemplate /\ Counted /\ flow' = Editing(flow) /\ recall' = recall
        /\ UNCHANGED <<mode, template, history, running, sheet>>
        /\ entry' = [entry EXCEPT !.overwrite = ~@]
    BY <1>3 DEF ToggleOverwrite
  <2>2. EntryTyped(entry') /\ (DocumentActive => Faithful(entry'))
    BY <1>1, <1>2, <2>1, CaretKeeps
  <2> QED
    BY <2>1, <2>2, EntryStep
<1>4. ASSUME NEW d \in {-1, 1}, MoveCaret(d) PROVE StateTyped'
  <2>1. /\ flow = NoFlow \/ (InResults /\ ~InHistory) \/ OnSheet(flow)
        /\ template = NoTemplate /\ entry.cursor + d \in 0..Len(Text)
        /\ UNCHANGED <<mode, flow, template, recall, history, running, sheet, effort>>
        /\ entry' = [entry EXCEPT !.cursor = @ + d]
    BY <1>4 DEF MoveCaret
  <2>2. ~InHistory
    BY <2>1 DEF StateTyped, InHistory, OnSheet, FlowTyped, FlowOrigin
  <2>3. EntryTyped(entry') /\ (DocumentActive => Faithful(entry'))
    BY <1>1, <1>2, <2>1, CaretKeeps
  <2> QED
    BY <2>1, <2>2, <2>3, EntryStep
<1> QED
  BY <1>3, <1>4, TypingTyped, PrefixTyped, DeletingTyped, UndoingTyped

-----------------------------------------------------------------------------
(***************************************************************************)
(* The keys of workflows.                                                  *)
(***************************************************************************)

\* A form or a grid is not the history list.
LEMMA FormHasEntry ==
  ASSUME NEW f, FlowTyped(f), f.phase \in {"form", "sheet"}
  PROVE  f.mode # "History" /\ \A m : ~AtEntry(m, f)
<1>1. f.mode # "History"
  BY DEF FlowTyped, FlowOrigin
<1> QED
  BY <1>1, FlowTakesEntry

\* A handler after which a form shows its field.
LEMMA FieldStep ==
  ASSUME StateTyped, UNCHANGED <<mode, template, recall, history, running, sheet, effort>>,
         FlowTyped(flow'), flow'.phase = "form",
         entry' = Shows(entry, FieldEntry(flow')) \/ EntryTyped(entry')
  PROVE  StateTyped'
<1>1. EntryTyped(entry) /\ RecallTyped(recall) /\ SheetTyped(sheet) /\ mode \in Modes
      /\ (template = NoTemplate \/ TemplateTyped(template))
  BY DEF StateTyped
<1>2. ~AtEntry(mode, flow')
  BY FormHasEntry
<1>3. EntryTyped(entry')
  BY <1>1, FieldTextIsSeq, ShowsKeeps
<1>4. Screened(mode)
  BY <1>1, <1>2, <1>3 DEF Screened
<1>5. Screened(mode') /\ SheetTyped(sheet') /\ (template' = NoTemplate \/ TemplateTyped(template'))
  BY <1>1, <1>4
<1>6. effort' \in 0..MaxEffort
  BY EffortHolds
<1> QED
  BY <1>1, <1>5, <1>6, QuietStep

\* A form that is complete opens its next stage, its template or its results.
LEMMA CompletionTyped ==
  ASSUME StateTyped, IInv, NEW outcome \in FormOutcomes, CompleteForm(outcome)
  PROVE  StateTyped'
<1> DEFINE f == Stored(flow, Text)
<1>1. /\ InForm /\ Accepts(CurrentSpec(flow), Submitted(flow, Text))
      /\ outcome \in Completions(f.mode, f.stage, f.fields, f.values)
      /\ Idle /\ Completed(f, outcome)
      /\ UNCHANGED <<mode, history, running, effort>>
  BY DEF CompleteForm, FormOutcomes
<1>2. /\ flow # NoFlow /\ flow.phase = "form" /\ template = NoTemplate /\ Belongs(flow.mode, mode)
  BY <1>1 DEF InForm, IInv, OneOwner, FlowInvariant, Screen
<1>3. FlowTyped(flow) /\ IsSeq(Text) /\ mode \in Modes
  BY <1>2, TextIsSeq DEF StateTyped
<1>4. FlowTyped(f) /\ f.phase = "form" /\ f.mode = flow.mode
  BY <1>1, <1>2, <1>3, StoredTyped
<1>5. outcome.to = "template" =>
        (f.mode = "Equation" /\ outcome.at \in {"ode"} \cup Equations) \/ outcome.at \in Range(IntegralKinds)
  <2>1. flow.mode = f.mode /\ FlowInvariant
    BY <1>4 DEF IInv
  <2> HIDE DEF f
  <2> QED
    BY <2>1, OutcomesOpen
<1> HIDE DEF f
<1>6. Screened(mode) /\ (template' = NoTemplate \/ TemplateTyped(template')) /\ SheetTyped(sheet')
  BY <1>1, <1>2, <1>3, <1>4, <1>5, CompletedTyped
<1>7. Screened(mode')
  BY <1>1, <1>6
<1>8. effort' \in 0..MaxEffort
  BY <1>1, EffortHolds
<1> QED
  BY <1>1, <1>3, <1>6, <1>7, <1>8, QuietStep

\* The keys of a form keep its fields, answers and line in agreement.
LEMMA FormKeysTyped ==
  ASSUME StateTyped, IInv,
         \/ RefuseField \/ StoreField
         \/ \E outcome \in FormOutcomes : CompleteForm(outcome)
         \/ \E d \in {-1, 1} : MoveFormField(d) \/ MoveAcross(d)
  PROVE  StateTyped'
<1>1. InForm
  BY DEF RefuseField, StoreField, CompleteForm, MoveFormField, MoveAcross, FormOutcomes
<1>2. /\ FlowTyped(flow) /\ flow.phase = "form" /\ EntryTyped(entry) /\ IsSeq(Text) /\ mode \in Modes
      /\ Len(Text) = Len(entry.cells)
  BY <1>1, TextIsSeq DEF StateTyped, InForm
<1>3. /\ flow.index \in 1..Len(flow.fields) /\ Len(flow.fields) \in Nat
      /\ DOMAIN flow.fields = 1..Len(flow.fields)
  BY <1>2, FieldOnDisplay
<1>4. CASE RefuseField
  <2>1. FormError(flow) /\ UNCHANGED <<mode, history, running, effort>>
    BY <1>4 DEF RefuseField
  <2>2. Screened(mode) /\ template' = NoTemplate /\ sheet' = sheet
    BY <1>2, <2>1, FormErrorTyped
  <2>3. Screened(mode') /\ SheetTyped(sheet')
    BY <2>1, <2>2 DEF StateTyped
  <2>4. effort' \in 0..MaxEffort
    BY <2>1, EffortHolds
  <2> QED
    BY <1>2, <2>1, <2>2, <2>3, <2>4, QuietStep
<1>5. CASE StoreField
  <2> DEFINE f == Stored(flow, Text)
             g == [f EXCEPT !.index = @ + 1]
  <2>1. /\ flow.index < Len(flow.fields) /\ Accepts(CurrentSpec(flow), Submitted(flow, Text))
        /\ flow' = Render(g) /\ entry' = Shows(entry, FieldEntry(flow'))
        /\ UNCHANGED <<mode, template, recall, history, running, sheet, effort>>
    BY <1>5 DEF StoreField
  <2>2. FlowTyped(f) /\ f.phase = "form" /\ f.fields = flow.fields /\ f.index = flow.index
    BY <1>2, <2>1, StoredTyped
  <2> HIDE DEF f
  <2>3. f.index + 1 \in 1..Len(f.fields)
    BY <1>3, <2>1, <2>2
  <2>4. g = [f EXCEPT !.index = f.index + 1] /\ g.phase = f.phase
    BY <2>2 DEF FlowTyped, FlowKeys
  <2> HIDE DEF g
  <2>5. FlowTyped(g) /\ g.phase = "form"
    BY <2>2, <2>3, <2>4, FlowIndexed
  <2>6. FlowTyped(flow') /\ flow'.phase = "form"
    BY <2>1, <2>5, RenderedTyped
  <2> QED
    BY <2>1, <2>6, FieldStep
<1>6. ASSUME NEW d \in {-1, 1}, MoveFormField(d) \/ MoveAcross(d) PROVE StateTyped'
  <2>1. /\ UNCHANGED <<mode, template, recall, history, running, sheet, effort>>
        /\ \/ flow' \in {MoveField(flow, Text, d), Cycle(flow, Text, d)}
              /\ entry' = Shows(entry, FieldEntry(flow'))
           \/ /\ flow' = Capture(flow, Text)
              /\ entry' = [entry EXCEPT !.cursor = Clamped(0, Len(Text), @ + d)]
    BY <1>6 DEF MoveFormField, MoveAcross
  <2>2. FlowTyped(flow') /\ flow'.phase = "form"
    BY <1>2, <2>1, FieldMovedTyped, CycledTyped, CapturedTyped
  <2>3. entry' = Shows(entry, FieldEntry(flow')) \/ EntryTyped(entry')
    <3>1. entry.cursor \in Int /\ Len(entry.cells) \in Nat
      BY <1>2, SeqFacts DEF EntryTyped
    <3>2. Clamped(0, Len(entry.cells), entry.cursor + d) \in 0..Len(entry.cells)
      <4>1. 0 <= Len(entry.cells) /\ Len(entry.cells) \in Int /\ entry.cursor + d \in Int /\ 0 \in Int
        BY <3>1
      <4> QED
        BY <4>1, ClampedFacts
    <3>3. EntryTyped([entry EXCEPT !.cursor = Clamped(0, Len(entry.cells), entry.cursor + d)])
      BY <1>2, <3>2, CaretKeeps
    <3>4. ASSUME entry' = [entry EXCEPT !.cursor = Clamped(0, Len(Text), @ + d)] PROVE EntryTyped(entry')
      <4>1. entry' = [entry EXCEPT !.cursor = Clamped(0, Len(entry.cells), entry.cursor + d)]
        BY <1>2, <3>4, Zenon
      <4> QED
        BY <3>3, <4>1
    <3> QED
      BY <2>1, <3>4
  <2> QED
    BY <2>1, <2>2, <2>3, FieldStep
<1> QED
  BY <1>4, <1>5, <1>6, CompletionTyped

\* A key that stays in the mode and starts no calculation.
LEMMA KeyStep ==
  ASSUME StateTyped, UNCHANGED <<mode, history, running>>, effort' = effort \/ Counted,
         Screened(mode), template' \in {NoTemplate, template} \/ TemplateTyped(template'), SheetTyped(sheet')
  PROVE  StateTyped'
<1>1. mode \in Modes /\ (template = NoTemplate \/ TemplateTyped(template))
  BY DEF StateTyped
<1>2. mode' \in Modes /\ Screened(mode') /\ (template' = NoTemplate \/ TemplateTyped(template'))
  BY <1>1
<1>3. effort' \in 0..MaxEffort
  BY EffortHolds
<1> QED
  BY <1>2, <1>3, QuietStep

\* Moving among the lines of a result.
LEMMA LinesTyped ==
  ASSUME StateTyped, NEW d \in {-1, 1}, MoveResultLine(d)
  PROVE  StateTyped'
<1> DEFINE n == Clamped(1, flow.lines, flow.line + d)
<1>1. /\ flow # NoFlow /\ entry' = Shows(entry, Banner)
      /\ UNCHANGED <<mode, template, recall, history, running, sheet, effort>>
      /\ flow' = [flow EXCEPT !.line = n]
  BY DEF MoveResultLine, InResults
<1>2. FlowTyped(flow) /\ EntryTyped(entry) /\ RecallTyped(recall) /\ SheetTyped(sheet)
  BY <1>1 DEF StateTyped
<1>3. n \in 1..flow.lines
  <2>1. flow.lines \in Nat /\ flow.line \in 1..flow.lines
    BY <1>2 DEF FlowTyped, FlowPlace
  <2>2. 1 \in Int /\ flow.lines \in Int /\ 1 <= flow.lines /\ flow.line + d \in Int
    BY <2>1
  <2> QED
    BY <2>2, ClampedFacts
<1> HIDE DEF n
<1>4. FlowTyped(flow')
  BY <1>1, <1>2, <1>3, FlowPlaced
<1>5. EntryTyped(entry') /\ Faithful(entry')
  BY <1>1, <1>2, ShowsPlainly
<1>6. Screened(mode) /\ SheetTyped(sheet')
  BY <1>1, <1>2, <1>4, <1>5 DEF Screened
<1> QED
  BY <1>1, <1>6, KeyStep

\* Moving on the sheet, and what a cell holds.
LEMMA GridTyped ==
  ASSUME StateTyped,
         SubmitSheet \/ \E d \in {-1, 1}, column \in BOOLEAN : MoveSheet(column, d)
  PROVE  StateTyped'
<1>1. flow # NoFlow /\ flow.phase = "sheet" /\ UNCHANGED <<mode, template, history, running, effort>>
  BY DEF MoveSheet, SubmitSheet, OnSheet
<1>2. FlowTyped(flow) /\ EntryTyped(entry) /\ RecallTyped(recall) /\ SheetTyped(sheet)
  BY <1>1 DEF StateTyped
<1>3. flow.mode = "Spreadsheet" /\ "mode" \in DOMAIN flow
  BY <1>1, <1>2 DEF FlowTyped, FlowOrigin, FlowKeys
<1>4. ASSUME NEW d \in {-1, 1}, NEW column \in BOOLEAN, MoveSheet(column, d) PROVE StateTyped'
  <2>1. sheet' = sheet /\ ShowCell(IF column THEN MoveColumn(flow, d) ELSE MoveRow(flow, d), recall)
    BY <1>4 DEF MoveSheet
  <2>2. PICK f : f \in {MoveColumn(flow, d), MoveRow(flow, d)} /\ ShowCell(f, recall)
    BY <2>1
  <2>3. FlowTyped(f) /\ f.mode = "Spreadsheet"
    <3>1. d \in Int
      OBVIOUS
    <3>2. FlowTyped(MoveColumn(flow, d)) /\ FlowTyped(MoveRow(flow, d))
      BY <1>2, <1>3, <3>1, SheetsTyped
    <3>3. MoveColumn(flow, d).mode = flow.mode /\ MoveRow(flow, d).mode = flow.mode
      BY <1>3 DEF MoveColumn, MoveRow
    <3> QED
      BY <1>3, <2>2, <3>2, <3>3
  <2>4. SheetTyped(sheet')
    BY <1>2, <2>1
  <2>5. Screened(mode)
    BY <1>2, <2>2, <2>3, <2>4, ShowCellTyped
  <2> QED
    BY <1>1, <2>4, <2>5, KeyStep
<1>5. ASSUME NEW b PROVE FlowTyped([flow EXCEPT !.editing = b]) /\ [flow EXCEPT !.editing = b].mode = "Spreadsheet"
  BY <1>2, <1>3, FlowFlags
<1>6. CASE SubmitSheet
  <2>1. \/ /\ sheet' = [sheet EXCEPT ![Address(flow)] = Text]
           /\ ShowCell([flow EXCEPT !.editing = FALSE], recall)
        \/ /\ flow' = [flow EXCEPT !.editing = TRUE]
           /\ UNCHANGED <<entry, recall, sheet>>
    BY <1>6 DEF SubmitSheet
  <2>2. CASE sheet' = [sheet EXCEPT ![Address(flow)] = Text] /\ ShowCell([flow EXCEPT !.editing = FALSE], recall)
    <3> DEFINE f == [flow EXCEPT !.editing = FALSE]
    <3>1. IsSeq(Text)
      BY <1>2, TextIsSeq
    <3>2. SheetTyped(sheet')
      BY <1>2, <2>2, <3>1 DEF SheetTyped
    <3>3. FlowTyped(f) /\ f.mode = "Spreadsheet" /\ ShowCell(f, recall)
      BY <1>5, <2>2
    <3> HIDE DEF f
    <3>4. Screened(mode)
      BY <1>2, <3>2, <3>3, ShowCellTyped
    <3> QED
      BY <1>1, <3>2, <3>4, KeyStep
  <2>3. CASE flow' = [flow EXCEPT !.editing = TRUE] /\ UNCHANGED <<entry, recall, sheet>>
    <3>1. FlowTyped(flow') /\ flow'.mode = "Spreadsheet"
      BY <1>5, <2>3
    <3>2. ~AtEntry(mode, flow')
      BY <3>1, FlowTakesEntry
    <3>3. Screened(mode) /\ SheetTyped(sheet')
      BY <1>2, <2>3, <3>1, <3>2 DEF Screened
    <3> QED
      BY <1>1, <3>3, KeyStep
  <2> QED
    BY <2>1, <2>2, <2>3
<1> QED
  BY <1>4, <1>6

\* The keys that belong to an open workflow.
LEMMA WorkflowKeysTyped ==
  ASSUME StateTyped,
         \/ \E d \in {-1, 1} : MoveResultLine(d) \/ \E column \in BOOLEAN : MoveSheet(column, d)
         \/ SubmitSheet \/ RestartFlow \/ SheetOptions
  PROVE  StateTyped'
<1>1. CASE RestartFlow
  <2>1. /\ flow # NoFlow /\ flow.mode # "History" /\ StartFlow(flow.mode, Text, recall)
        /\ UNCHANGED <<mode, history, running, effort>>
    BY <1>1 DEF RestartFlow, InForm, InResults, InHistory
  <2>2. EntryTyped(entry) /\ RecallTyped(recall) /\ SheetTyped(sheet) /\ IsSeq(Text) /\ flow.mode \in Workflows
    BY <2>1, TextIsSeq DEF StateTyped, FlowTyped, FlowOrigin
  <2>3. Screened(mode) /\ template' = NoTemplate /\ sheet' = sheet
    BY <2>1, <2>2, StartFlowTyped
  <2>4. SheetTyped(sheet')
    BY <2>2, <2>3
  <2> QED
    BY <2>1, <2>3, <2>4, KeyStep
<1>2. CASE SheetOptions
  <2>1. /\ flow # NoFlow /\ flow.mode = "Spreadsheet" /\ sheet' = sheet
        /\ UNCHANGED <<mode, history, running, effort>>
    BY <1>2 DEF SheetOptions
  <2>2. /\ FlowTyped(flow) /\ EntryTyped(entry) /\ RecallTyped(recall) /\ SheetTyped(sheet) /\ SheetTyped(sheet')
    BY <2>1 DEF StateTyped
  <2>3. CASE InResults
    <3>1. ShowCell(StartSheet(flow), recall) /\ UNCHANGED template
      BY <1>2, <2>3 DEF SheetOptions
    <3>2. FlowTyped(StartSheet(flow)) /\ StartSheet(flow).mode = "Spreadsheet"
      BY <2>1, <2>2, SheetsTyped
    <3>3. Screened(mode)
      BY <2>2, <3>1, <3>2, ShowCellTyped
    <3> QED
      BY <2>1, <2>2, <3>1, <3>3, KeyStep
  <2>4. CASE ~InResults /\ flow.editing
    <3>1. SetExpr(Blank, flow, recall)
      BY <1>2, <2>4 DEF SheetOptions
    <3>2. Screened(mode) /\ template' = NoTemplate
      BY <2>2, <3>1, BannerAndBlank, SetExprTyped
    <3> QED
      BY <2>1, <2>2, <3>2, KeyStep
  <2>5. CASE ~InResults /\ ~flow.editing
    <3>1. ShowForm(flow, "sheet_tool", SheetFields("sheet_tool"), recall) /\ UNCHANGED template
      BY <1>2, <2>5 DEF SheetOptions
    <3>2. ProperFields(flow.mode, "sheet_tool", SheetFields("sheet_tool"))
      BY <2>1, SheetFieldsProper
    <3>3. flow.mode \in Workflows /\ "x" \notin DOMAIN flow.values
      BY <2>1, <2>2 DEF Workflows, FlowTyped, FlowValues
    <3>4. Screened(mode)
      BY <2>2, <3>1, <3>2, <3>3, ShowFormTyped
    <3> QED
      BY <2>1, <2>2, <3>1, <3>4, KeyStep
  <2> QED
    BY <2>3, <2>4, <2>5
<1> QED
  BY <1>1, <1>2, LinesTyped, GridTyped

\* OPTN, the calculus keys and the history list open the first stage of a workflow.
LEMMA MenuKeysTyped ==
  ASSUME StateTyped, OpenFromMenu \/ IntegralKey \/ DerivativeKey \/ ShowHistory
  PROVE  StateTyped'
<1>1. UNCHANGED <<mode, history, running>> /\ (effort' = effort \/ Counted)
  BY DEF OpenFromMenu, IntegralKey, DerivativeKey, ShowHistory
<1>2. /\ EntryTyped(entry) /\ RecallTyped(recall) /\ SheetTyped(sheet) /\ IsSeq(Text) /\ HistoryTyped(history)
      /\ mode \in Modes
  BY TextIsSeq DEF StateTyped
<1> DEFINE r == [recall EXCEPT !.pos = Len(history), !.available = FALSE]
<1>3. RecallTyped(r)
  BY <1>2, RecallStays
<1> HIDE DEF r
<1>4. ASSUME NEW w \in Workflows, NEW s, RecallTyped(s), StartFlow(w, Text, s) PROVE StateTyped'
  <2>1. Screened(mode) /\ template' = NoTemplate /\ sheet' = sheet
    BY <1>2, <1>4, StartFlowTyped
  <2>2. SheetTyped(sheet')
    BY <1>2, <2>1
  <2> QED
    BY <1>1, <2>1, <2>2, KeyStep
<1>5. "Integral" \in Workflows /\ "ComplexIntegral" \in Workflows
  BY DEF Workflows, FirstStage
<1>6. CASE OpenFromMenu
  <2>1. \/ StartFlow("ComplexIntegral", Text, recall)
        \/ mode \notin DocumentModes \cup {"BaseN"} /\ StartFlow(mode, Text, recall)
    BY <1>6 DEF OpenFromMenu
  <2> QED
    BY <1>2, <1>4, <1>5, <2>1, ModesOfWorkflows
<1>7. CASE IntegralKey
  <2>1. \E w \in {"Integral", "ComplexIntegral"} : StartFlow(w, Text, r)
    BY <1>7 DEF IntegralKey, r
  <2> QED
    BY <1>3, <1>4, <1>5, <2>1
<1>8. CASE DerivativeKey
  <2>1. /\ template' = Open("derivative", 0, {2} \cup (IF Text = Blank THEN {} ELSE {Body}))
        /\ flow' = NoFlow /\ entry' = Shows(entry, Blank) /\ recall' = r /\ sheet' = sheet
    BY <1>8 DEF DerivativeKey, r
  <2>2. TemplateTyped(template')
    <3>1. SlotCount("derivative", 0) = 3
      BY DEF SlotCount
    <3>2. "derivative" \in Kinds /\ SizeFits("derivative", 0)
      BY DEF Kinds, SizeFits, Equations
    <3>3. {2} \cup (IF Text = Blank THEN {} ELSE {Body}) \subseteq 1..3
      BY DEF Body
    <3> QED
      BY <2>1, <3>1, <3>2, <3>3, OpenTyped
  <2>3. EntryTyped(entry') /\ Faithful(entry')
    BY <1>2, <2>1, ShowsPlainly
  <2>4. Screened(mode) /\ SheetTyped(sheet')
    BY <1>2, <1>3, <2>1, <2>3 DEF Screened
  <2> QED
    BY <1>1, <2>2, <2>4, KeyStep
<1>9. CASE ShowHistory
  <2> DEFINE g == FreshFlow("History", Blank)
             f == [g EXCEPT !.entries = Reverse(history)]
             n == IF history = <<>> THEN 1 ELSE Len(history)
  <2>1. ShowResultList(f, n, recall) /\ template' = NoTemplate /\ sheet' = sheet
    BY <1>9 DEF ShowHistory
  <2>2. FlowTyped(g) /\ g.mode = "History" /\ g.phase = "new"
    <3>1. IsSeq(Blank)
      BY BannerAndBlank
    <3>2. FlowTyped(g) /\ g.mode = "History"
      BY <3>1, FreshFlowTyped
    <3> QED
      BY <3>2 DEF FreshFlow
  <2>3. RecordsFit(Reverse(history))
    BY <1>2, ReversedFits
  <2> HIDE DEF g
  <2>4. /\ DOMAIN f = DOMAIN g /\ f.mode = g.mode /\ f.phase = g.phase /\ f.source = g.source
        /\ f.entries = Reverse(history) /\ f.column = g.column /\ f.row = g.row /\ f.line = g.line
        /\ f.lines = g.lines /\ f.draft = g.draft /\ f.stage = g.stage /\ f.values = g.values
        /\ f.fields = g.fields /\ f.index = g.index
    BY <2>2 DEF FlowTyped, FlowKeys
  <2> HIDE DEF f
  <2>5. FlowTyped(f)
    <3>1. FlowOrigin(f.mode, f.phase, f.source, f.entries)
      BY <2>2, <2>3, <2>4 DEF FlowTyped, FlowOrigin
    <3>2. FlowForm(f.mode, f.phase, f.stage, f.fields, f.index, f.values)
      BY <2>2, <2>4 DEF FlowForm
    <3> QED
      BY <2>2, <2>4, <3>1, <3>2 DEF FlowTyped
  <2>6. n \in Nat \ {0}
    <3>1. IsRecorded(history)
      BY <1>2 DEF HistoryTyped
    <3>2. Len(history) \in Nat /\ (history # <<>> => Len(history) # 0)
      BY <3>1 DEF IsRecorded
    <3> QED
      BY <3>2
  <2> HIDE DEF n
  <2>7. Screened(mode)
    BY <1>2, <2>1, <2>5, <2>6, ShowResultListTyped
  <2>8. SheetTyped(sheet')
    BY <1>2, <2>1
  <2> QED
    BY <1>1, <2>1, <2>7, <2>8, KeyStep
<1> QED
  BY <1>6, <1>7, <1>8, <1>9

-----------------------------------------------------------------------------
(***************************************************************************)
(* The keys that bring a record back, and those of templates.              *)
(***************************************************************************)

\* The arrows recall lines, with the documents kept for them.
LEMMA RecallKeysTyped ==
  ASSUME StateTyped, IInv, RecallFromList \/ UpKey \/ BrowseHistory(1)
  PROVE  StateTyped'
<1>1. UNCHANGED <<mode, history, running, sheet, effort>>
  BY DEF RecallFromList, UpKey, RestoreSubmitted, BrowseHistory
<1>2. /\ EntryTyped(entry) /\ RecallTyped(recall) /\ SheetTyped(sheet) /\ HistoryTyped(history)
      /\ AtEntry(mode, flow) => Faithful(entry)
  BY DEF StateTyped
<1>3. SheetTyped(sheet')
  BY <1>1, <1>2
<1>4. ASSUME NEW record, NEW r, Recalled(record, NoFlow, r), record.kind \in RecordKinds, RecordFits(record),
             RecallTyped(r), AtEntry(mode, NoFlow) => Faithful(entry)
      PROVE  StateTyped'
  <2>1. Screened(mode) /\ (template' \in {NoTemplate, template} \/ TemplateTyped(template'))
    BY <1>4, RecalledTyped
  <2> QED
    BY <1>1, <1>3, <2>1, KeyStep
<1>5. ASSUME NEW n PROVE RecallTyped([recall EXCEPT !.pos = n])
  BY <1>2, RecallStays
<1>6. CASE RecallFromList
  <2>1. /\ flow # NoFlow /\ flow.mode = "History" /\ flow.line \in DOMAIN flow.entries
        /\ Recalled(flow.entries[flow.line], NoFlow, [recall EXCEPT !.pos = Len(history)])
    BY <1>6 DEF RecallFromList, InHistory
  <2>2. FlowTyped(flow) /\ IsRecorded(flow.entries)
    BY <2>1 DEF StateTyped, IInv, FlowInvariant, Screen, FlowShape
  <2>3. flow.entries[flow.line].kind \in RecordKinds
    BY <2>1, <2>2 DEF IsRecorded
  <2>4. RecordFits(flow.entries[flow.line])
    BY <2>1, <2>2 DEF FlowTyped, FlowOrigin, RecordsFit
  <2>5. AtEntry(mode, NoFlow) => Faithful(entry)
    BY <1>2, <2>1 DEF AtEntry
  <2> QED
    BY <1>4, <1>5, <2>1, <2>3, <2>4, <2>5
<1>7. CASE RestoreSubmitted
  <2>1. SetExpr(recall.last, NoFlow, recall)
    BY <1>7 DEF RestoreSubmitted, KeysReachEntry
  <2>2. IsSeq(recall.last)
    BY <1>2 DEF RecallTyped
  <2>3. Screened(mode) /\ template' = NoTemplate
    BY <1>2, <2>1, <2>2, SetExprTyped
  <2> QED
    BY <1>1, <1>3, <2>3, KeyStep
<1>8. ASSUME NEW d \in {-1, 1}, BrowseHistory(d) PROVE StateTyped'
  <2> DEFINE pos == HistoryCursor(d)
             r == [recall EXCEPT !.pos = pos]
  <2>1. /\ flow = NoFlow
        /\ \/ pos = Len(history) /\ recall' = r /\ UNCHANGED <<flow, template, entry>>
           \/ pos # Len(history) /\ Recalled(history[pos + 1], NoFlow, r)
    BY <1>8 DEF BrowseHistory, KeysReachEntry
  <2>2. RecallTyped(r)
    BY <1>5
  <2>3. Len(history) \in Nat
    BY <1>2 DEF HistoryTyped, IsRecorded
  <2>4. pos \in 0..Len(history)
    <3>1. recall.pos \in Int
      BY DEF IInv, Cursor
    <3> QED
      BY <2>3, <3>1 DEF HistoryCursor, Clamped
  <2> HIDE DEF pos
  <2>5. CASE pos = Len(history)
    <3>1. recall' = r /\ flow' = NoFlow /\ template' = template /\ entry' = entry
      BY <2>1, <2>5
    <3> HIDE DEF r
    <3>2. Screened(mode)
      BY <1>2, <2>1, <2>2, <3>1 DEF Screened
    <3> QED
      BY <1>1, <1>3, <3>1, <3>2, KeyStep
  <2>6. CASE pos # Len(history)
    <3>1. pos + 1 \in 1..Len(history)
      BY <2>3, <2>4, <2>6
    <3>2. RecordFits(history[pos + 1]) /\ history[pos + 1].kind \in RecordKinds
      BY <1>2, <3>1, RecordOfHistory
    <3>3. Recalled(history[pos + 1], NoFlow, r)
      BY <2>1, <2>6
    <3> HIDE DEF r
    <3> QED
      BY <1>2, <1>4, <2>1, <2>2, <3>2, <3>3
  <2> QED
    BY <2>5, <2>6
<1> QED
  BY <1>6, <1>7, <1>8 DEF UpKey

\* A calculation starts, and takes the history with it.
LEMMA StartStep ==
  ASSUME StateTyped, UNCHANGED <<mode, flow, template, entry, recall, history, sheet>>,
         NEW kind, NEW size, NEW source, NEW filled, Start(kind, size, source, filled), IsSeq(source),
         kind # "other" => RecordFits(Entry(kind, size, source, filled))
  PROVE  StateTyped'
<1>1. Counted /\ running' = [kind |-> kind, size |-> size, source |-> source, filled |-> filled,
                             history |-> history]
  BY DEF Start
<1>2. effort' \in 0..MaxEffort
  BY <1>1, EffortHolds
<1>3. kind # "other" => RecordFits(running')
  BY <1>1 DEF RecordFits, Entry
<1>4. HistoryTyped(running'.history) /\ IsSeq(running'.source) /\ running'.kind = kind
  BY <1>1 DEF StateTyped
<1>5. RunningTyped'
  BY <1>3, <1>4 DEF RunningTyped
<1> QED
  BY <1>2, <1>5 DEF StateTyped

\* The keys of an open template keep its slots within its size.
LEMMA TemplateKeysTyped ==
  ASSUME StateTyped, IInv,
         \/ \E letter \in BOOLEAN : TypeInTemplate(letter)
         \/ \E d \in {-1, 1} : MoveInTemplate(d)
         \/ EraseInTemplate \/ EscapeTemplate \/ EvaluateTemplate \/ TemplateStartFails
         \/ AcceptEquation \/ SolveTemplate
  PROVE  StateTyped'
<1>1. template # NoTemplate /\ UNCHANGED <<mode, history, sheet>>
  BY DEF TypeInTemplate, MoveInTemplate, EraseInTemplate, EscapeTemplate, EvaluateTemplate,
         TemplateStartFails, AcceptEquation, SolveTemplate, NoTemplate
<1>2. /\ TemplateTyped(template) /\ EntryTyped(entry) /\ RecallTyped(recall) /\ SheetTyped(sheet)
      /\ AtEntry(mode, flow) => Faithful(entry)
      /\ flow = NoFlow \/ FlowTyped(flow)
  BY <1>1 DEF StateTyped
<1>3. SheetTyped(sheet')
  BY <1>1, <1>2
<1>4. UNCHANGED <<flow, entry, recall>> => Screened(mode)
  BY <1>2 DEF Screened
<1>5. CASE \/ \E letter \in BOOLEAN : TypeInTemplate(letter)
           \/ \E d \in {-1, 1} : MoveInTemplate(d)
           \/ EraseInTemplate \/ AcceptEquation
  <2>1. UNCHANGED <<mode, flow, entry, recall, history, running, effort>>
    BY <1>5 DEF TypeInTemplate, MoveInTemplate, EraseInTemplate, AcceptEquation
  <2>2. \/ \E letter \in BOOLEAN : template' = FillSlot(template, letter)
        \/ \E d \in {-1, 1} : template' = MoveSlot(template, d)
        \/ template' = EraseSlot(template)
        \/ template' = AcceptRow(template) /\ template.kind = "simultaneous" /\ ~LastRowReached(template)
    BY <1>5 DEF TypeInTemplate, MoveInTemplate, EraseInTemplate, AcceptEquation
  <2>3. TemplateTyped(template')
    BY <1>2, <2>2, SlotKeys, NextEquation
  <2> QED
    BY <1>3, <1>4, <2>1, <2>3, KeyStep
<1>6. CASE EscapeTemplate
  <2>1. SetExpr(Blank, flow, recall) /\ UNCHANGED <<mode, history, running, effort>>
    BY <1>6 DEF EscapeTemplate
  <2>2. Screened(mode) /\ template' = NoTemplate
    BY <1>2, <2>1, BannerAndBlank, SetExprTyped
  <2> QED
    BY <1>3, <2>1, <2>2, KeyStep
<1>7. CASE EvaluateTemplate
  <2>1. /\ Start(template.kind, template.size, Blank, template.filled) /\ InBackground(template.kind)
        /\ UNCHANGED <<mode, flow, template, entry, recall, history, sheet>>
    BY <1>7 DEF EvaluateTemplate
  <2>2. IsSeq(Blank)
    BY BannerAndBlank
  <2>3. RecordFits(Entry(template.kind, template.size, Blank, template.filled))
    <3>1. /\ template.kind = "multiple_integral" => template.size \in 1..3
          /\ template.filled \subseteq 1..SlotCount(template.kind, template.size)
      BY <1>2 DEF TemplateTyped, SizeFits
    <3>2. template.kind = "ode_details" => {1, 2, 3} \subseteq template.filled
      BY <1>7 DEF EvaluateTemplate, Ready
    <3> QED
      BY <2>2, <3>1, <3>2 DEF RecordFits, Entry, IsSeq
  <2> QED
    BY <2>1, <2>2, <2>3, StartStep
<1>8. CASE TemplateStartFails
  <2>1. template' = NoTemplate /\ UNCHANGED <<mode, flow, entry, recall, history, running, effort>>
    BY <1>8 DEF TemplateStartFails
  <2> QED
    BY <1>3, <1>4, <2>1, KeyStep
<1>9. CASE SolveTemplate
  <2>1. /\ \E n \in 1..MaxLines : ShowResultList(FreshFlow("Equation", Blank), n, recall)
        /\ template' = NoTemplate /\ UNCHANGED <<mode, history, running, effort>>
    BY <1>9 DEF SolveTemplate
  <2>2. PICK n \in Nat \ {0} : ShowResultList(FreshFlow("Equation", Blank), n, recall)
    BY <2>1, FormsAssumption
  <2>3. FlowTyped(FreshFlow("Equation", Blank))
    <3>1. "Equation" \in Workflows /\ IsSeq(Blank)
      BY BannerAndBlank DEF Workflows, FirstStage
    <3> QED
      BY <3>1, FreshFlowTyped
  <2>4. Screened(mode)
    BY <1>2, <2>2, <2>3, ShowResultListTyped
  <2> QED
    BY <1>3, <2>1, <2>4, KeyStep
<1> QED
  BY <1>5, <1>6, <1>7, <1>8, <1>9

-----------------------------------------------------------------------------
(***************************************************************************)
(* Calculations, AC and the modes.                                         *)
(***************************************************************************)

\* What is sent to the engine.
LEMMA SubmissionIsMeant ==
  ASSUME StateTyped
  PROVE  /\ IsSeq(Submission)
         /\ DocumentActive => Source(CurrentDocument) = Meant(entry.cells)
<1>1. EntryTyped(entry) /\ (DocumentActive => Faithful(entry))
  BY PreparedKeeps
<1>2. DocumentActive => Source(CurrentDocument) = Meant(entry.cells)
  BY <1>1, CurrentCells, DocumentIsItsCells
<1>3. IsSeq(Meant(entry.cells)) /\ IsSeq(Text)
  BY <1>1, ShownFacts, TextIsSeq DEF EntryTyped
<1> QED
  BY <1>2, <1>3 DEF Submission

\* Starting a calculation of the entry or another one, and clearing the history.
LEMMA OtherStartsTyped ==
  ASSUME StateTyped, EvaluateEntry \/ EvaluateOther \/ ForgetHistory
  PROVE  StateTyped'
<1>1. CASE EvaluateEntry \/ EvaluateOther
  <2>1. PICK kind \in {"evaluate", "other"} : Start(kind, 0, Submission, {})
    BY <1>1 DEF EvaluateEntry, EvaluateOther
  <2>2. UNCHANGED <<mode, flow, template, entry, recall, history, sheet>>
    BY <1>1 DEF EvaluateEntry, EvaluateOther
  <2>3. IsSeq(Submission)
    BY SubmissionIsMeant
  <2>4. kind # "other" => RecordFits(Entry(kind, 0, Submission, {}))
    BY <2>1, <2>3 DEF RecordFits, Entry, IsSeq
  <2> QED
    BY <2>1, <2>2, <2>3, <2>4, StartStep
<1>2. CASE ForgetHistory
  <2>1. /\ Counted /\ history' = <<>>
        /\ recall' \in {recall, [recall EXCEPT !.pos = 0]}
        /\ sheet' \in {sheet, [a \in Addresses |-> Blank]}
        /\ UNCHANGED <<mode, flow, template, entry, running>>
    BY <1>2 DEF ForgetHistory
  <2>2. RecallTyped(recall')
    <3>1. RecallTyped([recall EXCEPT !.pos = 0])
      BY RecallStays DEF StateTyped
    <3> QED
      BY <2>1, <3>1 DEF StateTyped
  <2>3. SheetTyped(sheet')
    <3>1. IsSeq(Blank)
      BY BannerAndBlank
    <3>2. SheetTyped([a \in Addresses |-> Blank])
      BY <3>1 DEF SheetTyped
    <3> QED
      BY <2>1, <3>2 DEF StateTyped
  <2>4. HistoryTyped(history')
    BY <2>1, NoRecordsFit
  <2>5. effort' \in 0..MaxEffort
    BY <2>1, EffortHolds
  <2>6. RunningTyped'
    BY <2>1 DEF StateTyped, RunningTyped, Idle
  <2> QED
    BY <2>1, <2>2, <2>3, <2>4, <2>5, <2>6 DEF StateTyped
<1> QED
  BY <1>1, <1>2

\* A calculation ends.
LEMMA EndStep ==
  ASSUME StateTyped, mode' = mode, sheet' = sheet, effort' = effort, running' = NoCalculation,
         Screened(mode), HistoryTyped(history'), template' \in {NoTemplate, template}
  PROVE  StateTyped'
<1>1. RunningTyped'
  BY DEF RunningTyped, Idle
<1> QED
  BY <1>1 DEF StateTyped, Screened

\* The callbacks of a calculation.
LEMMA EndingsTyped ==
  ASSUME StateTyped, IInv, SucceedEntry \/ SucceedOther \/ SucceedTemplate \/ Fail
  PROVE  StateTyped'
<1>1. /\ ~Idle /\ running' = NoCalculation /\ UNCHANGED <<mode, sheet, effort>>
  BY DEF SucceedEntry, SucceedOther, SucceedTemplate, Fail, Idle, NoCalculation, Kinds
<1>2. /\ EntryTyped(entry) /\ RecallTyped(recall) /\ HistoryTyped(history)
      /\ AtEntry(mode, flow) => Faithful(entry)
      /\ flow = NoFlow \/ FlowTyped(flow)
  BY DEF StateTyped
<1>3. /\ IsSeq(running.source) /\ HistoryTyped(running.history)
      /\ running.kind # "other" => RecordFits(running)
  BY <1>1 DEF StateTyped, RunningTyped
<1>4. HistoryTyped(Extended("evaluate"))
  <2>1. "evaluate" \in RecordKinds
    BY DEF RecordKinds
  <2>2. RecordFits(Entry("evaluate", running.size, running.source, running.filled))
    BY <1>3 DEF RecordFits, Entry, IsSeq
  <2> QED
    BY <1>3, <2>1, <2>2, ExtendedFits
<1>5. UNCHANGED <<flow, entry>> /\ RecallTyped(recall') => Screened(mode)
  BY <1>2 DEF Screened
<1>6. CASE SucceedEntry
  <2>1. /\ history' = Extended("evaluate") /\ recall' = Record(running.source, recall)
        /\ UNCHANGED <<flow, template, entry>>
    BY <1>6 DEF SucceedEntry
  <2>2. RecallTyped(recall')
    BY <1>2, <1>3, <2>1, RecordKeepsDocuments DEF EntryTyped
  <2> QED
    BY <1>1, <1>4, <1>5, <2>1, <2>2, EndStep
<1>7. CASE SucceedOther
  <2>1. history' = Extended("evaluate") /\ UNCHANGED <<flow, template, entry, recall>>
    BY <1>7 DEF SucceedOther
  <2> QED
    BY <1>1, <1>2, <1>4, <1>5, <2>1, EndStep
<1>8. CASE SucceedTemplate
  <2>1. /\ running.kind \in Kinds /\ history' \in {running.history, Extended(running.kind)}
        /\ template' = NoTemplate /\ UNCHANGED <<flow, entry, recall>>
    BY <1>8 DEF SucceedTemplate
  <2>2. running.kind \in RecordKinds /\ running.kind # "other"
    BY <1>1, <2>1 DEF IInv, RecordInvariant, RunningKinds, Kinds
  <2>3. RecordFits(Entry(running.kind, running.size, running.source, running.filled))
    BY <1>3, <2>2 DEF RecordFits, Entry
  <2>4. HistoryTyped(Extended(running.kind))
    BY <1>3, <2>2, <2>3, ExtendedFits
  <2> QED
    BY <1>1, <1>2, <1>3, <1>5, <2>1, <2>4, EndStep
<1>9. CASE Fail
  <2>1. history' = history
    BY <1>9 DEF Fail
  <2>2. CASE template # NoTemplate
    <3>1. UNCHANGED <<flow, template, entry, recall>>
      BY <1>9, <2>2 DEF Fail
    <3> QED
      BY <1>1, <1>2, <1>5, <2>1, <3>1, EndStep
  <2>3. CASE template = NoTemplate
    <3> DEFINE f == IF InForm THEN [flow EXCEPT !.draft = With(flow.draft, CurrentSpec(flow).key, Blank)]
                    ELSE flow
    <3>1. SetExpr(Blank, f, recall)
      BY <1>9, <2>3 DEF Fail
    <3>2. f = NoFlow \/ FlowTyped(f)
      <4>1. ASSUME FlowTyped(flow) PROVE FlowDrafts(With(flow.draft, CurrentSpec(flow).key, Blank))
        BY <4>1, BannerAndBlank, DraftsChange DEF FlowTyped
      <4>2. ASSUME FlowTyped(flow)
            PROVE  FlowTyped([flow EXCEPT !.draft = With(flow.draft, CurrentSpec(flow).key, Blank)])
        BY <4>1, <4>2, FlowDrafted
      <4> QED
        BY <1>2, <4>2 DEF InForm
    <3> HIDE DEF f
    <3>3. Screened(mode) /\ template' = NoTemplate
      BY <1>2, <3>1, <3>2, BannerAndBlank, SetExprTyped
    <3> QED
      BY <1>1, <1>2, <2>1, <3>3, EndStep
  <2> QED
    BY <2>2, <2>3
<1> QED
  BY <1>6, <1>7, <1>8, <1>9

\* AC, a change of mode and an = in Base-N.
LEMMA ModeKeysTyped ==
  ASSUME StateTyped, EvaluateBase \/ Ac \/ \E m \in Modes : SelectMode(m)
  PROVE  StateTyped'
<1>1. /\ EntryTyped(entry) /\ RecallTyped(recall) /\ SheetTyped(sheet) /\ mode \in Modes
      /\ AtEntry(mode, flow) => Faithful(entry)
      /\ IsDocument(entry.spans)
  BY DEF StateTyped, EntryTyped
<1>2. CASE EvaluateBase
  <2>1. /\ flow = NoFlow /\ template = NoTemplate /\ Counted
        /\ UNCHANGED <<mode, history, running, sheet>>
        /\ \/ recall' = Record(Text, recall) /\ UNCHANGED <<flow, template, entry>>
           \/ SetExpr(Blank, NoFlow, recall)
    BY <1>2 DEF EvaluateBase, KeysReachEntry
  <2>2. Screened(mode) /\ template' = NoTemplate
    <3>1. CASE recall' = Record(Text, recall) /\ UNCHANGED <<flow, template, entry>>
      <4>1. IsSeq(Text)
        BY <1>1, TextIsSeq
      <4>2. RecallTyped(recall')
        BY <1>1, <3>1, <4>1, RecordKeepsDocuments
      <4> QED
        BY <1>1, <2>1, <3>1, <4>2 DEF Screened
    <3>2. CASE SetExpr(Blank, NoFlow, recall)
      BY <1>1, <3>2, BannerAndBlank, SetExprTyped
    <3> QED
      BY <2>1, <3>1, <3>2
  <2>3. SheetTyped(sheet')
    BY <1>1, <2>1
  <2> QED
    BY <2>1, <2>2, <2>3, KeyStep
<1>3. ASSUME NEW m \in Modes, NEW spans, IsDocument(spans), Home(m, spans), mode' = m,
             history' = history, running' \in {running, NoCalculation}, effort' \in 0..MaxEffort
      PROVE  StateTyped'
  <2>1. Screened(m) /\ template' = NoTemplate /\ sheet' = sheet
    BY <1>3, HomeTyped
  <2>2. Screened(mode') /\ SheetTyped(sheet')
    BY <1>1, <1>3, <2>1
  <2> QED
    BY <1>3, <2>1, <2>2, QuietStep
<1>4. CASE Ac
  <2>1. PICK spans \in {NoSpans, entry.spans} : Home(mode, spans)
    BY <1>4 DEF Ac
  <2>2. IsDocument(spans)
    BY <1>1, <2>1, NoSpansIsDocument DEF NoSpans
  <2>3. /\ mode' = mode /\ history' = history /\ running' = NoCalculation
        /\ effort' \in 0..MaxEffort
    BY <1>4 DEF Ac, StateTyped
  <2> QED
    BY <1>1, <1>3, <2>1, <2>2, <2>3
<1>5. ASSUME NEW m \in Modes, SelectMode(m) PROVE StateTyped'
  <2>1. Home(m, entry.spans) /\ mode' = m /\ history' = history /\ running' = running
    BY <1>5 DEF SelectMode
  <2>2. \E n \in {1, 2} : Effort(n)
    BY <1>5 DEF SelectMode
  <2>3. effort' \in 0..MaxEffort
    BY <2>2, InterfaceAssumption DEF StateTyped, Effort
  <2> QED
    BY <1>1, <1>3, <2>1, <2>3
<1> QED
  BY <1>2, <1>4, <1>5

-----------------------------------------------------------------------------
(***************************************************************************)
(* The second invariant and what it gives.                                 *)
(***************************************************************************)

\* The interface starts typed, whatever history it restores.
LEMMA InitTyped == Init => TypedInv
<1> SUFFICES ASSUME Init PROVE TypedInv
  OBVIOUS
<1>1. /\ mode = "Calculate" /\ flow = NoFlow /\ template = NoTemplate /\ running = NoCalculation
      /\ entry = [cells |-> <<>>, cursor |-> 0, spans |-> NoSpans, undo |-> <<>>, overwrite |-> FALSE]
      /\ recall = [pos |-> Len(history), last |-> Blank, available |-> FALSE, documents |-> <<>>]
      /\ history \in InitialHistories /\ sheet = [a \in Addresses |-> Blank] /\ effort = 0 /\ lastKey = "ac"
  BY DEF Init
<1>2. IsSeq(<<>>) /\ Len(<<>>) = 0 /\ IsSeq(Blank) /\ IsDocument(<<>>)
  BY EmptyIsSeq, NoSpansIsDocument, BannerAndBlank
<1>3. mode \in Modes /\ effort \in 0..MaxEffort
  BY <1>1, InterfaceAssumption
<1>4. EntryTyped(entry)
  <2>1. UndoList(<<>>)
    BY <1>2, InterfaceAssumption DEF UndoList
  <2> QED
    BY <1>1, <1>2, <2>1 DEF EntryTyped, EntryShape, NoSpans
<1>5. Faithful(entry)
  <2>1. CellsOfSpans(entry.spans) = entry.cells
    BY <1>1, NothingShown DEF NoSpans
  <2> QED
    BY <1>1, <1>2, <2>1, FaithfulDocument DEF NoSpans
<1>6. RecallTyped(recall)
  <2>1. Known(<<>>)
    BY <1>2, InterfaceAssumption DEF Known
  <2> QED
    BY <1>1, <1>2, <2>1 DEF RecallTyped, RecallShape
<1>7. HistoryTyped(history)
  BY <1>1, HistoryAssumption DEF HistoryTyped
<1>8. RunningTyped /\ SheetTyped(sheet)
  BY <1>1, <1>2 DEF RunningTyped, Idle, SheetTyped
<1> QED
  BY <1>1, <1>3, <1>4, <1>5, <1>6, <1>7, <1>8 DEF TypedInv, StateTyped

\* The steps of OtherKey, group by group.
LEMMA OtherKeyTyped == StateTyped /\ IInv /\ OtherKey => StateTyped'
BY EntryKeysTyped, FormKeysTyped, WorkflowKeysTyped, MenuKeysTyped, RecallKeysTyped, TemplateKeysTyped,
   OtherStartsTyped, EndingsTyped, ModeKeysTyped
DEF OtherKey

\* Every step keeps the second invariant: one case for each group of keys.
LEMMA NextTyped == TypedInv /\ IInv /\ [Next]_vars => TypedInv'
<1> SUFFICES ASSUME TypedInv, IInv, [Next]_vars PROVE TypedInv'
  OBVIOUS
<1>1. StateTyped
  BY DEF TypedInv
<1>2. CASE UNCHANGED vars
  <2>1. UNCHANGED <<mode, flow, template, entry, recall, history, running, sheet, effort, lastKey>>
    BY <1>2 DEF vars
  <2>2. RunningTyped'
    BY <1>1, <2>1 DEF StateTyped, RunningTyped, Idle
  <2> QED
    BY <2>1, <2>2 DEF TypedInv, StateTyped
<1>3. Ac \/ (\E m \in Modes : SelectMode(m)) => StateTyped'
  BY <1>1, ModeKeysTyped
<1>4. SucceedEntry => StateTyped'
  BY <1>1, EndingsTyped
<1>5. UpKey \/ OtherKey => StateTyped'
  BY <1>1, RecallKeysTyped, OtherKeyTyped
<1>6. ~UNCHANGED vars => lastKey' \in {"ac", "equals", "up", "other"}
  BY DEF Next
<1> QED
  BY <1>2, <1>3, <1>4, <1>5, <1>6 DEF Next, TypedInv

\* What AC and MENU leave behind for the next up arrow.
LEMMA HomeRecalls ==
  ASSUME RecallTyped(recall), NEW m, NEW spans, Home(m, spans)
  PROVE  recall'.pos = Len(history) /\ recall'.available = FALSE
<1> DEFINE r == AtNewest(recall)
<1>1. RecallShape(r) /\ r.pos = Len(history) /\ r.available = FALSE
  BY DEF RecallTyped, RecallShape, AtNewest
<1>2. recall' = r \/ recall' = [r EXCEPT !.available = FALSE]
  BY DEF Home, StartFlow, ShowCell, ShowForm
<1> HIDE DEF r
<1> QED
  BY <1>1, <1>2 DEF RecallShape

\* The first = of a line leaves the line behind, and its record as the newest.
LEMMA SubmittedIsNewest ==
  ASSUME StateTyped, SucceedEntry
  PROVE  /\ recall'.available /\ recall'.last # Blank
         /\ history' # <<>> /\ Last(history').kind = "evaluate" /\ Last(history').source = recall'.last
<1>1. /\ running.kind = "evaluate" /\ running.source # Blank /\ ~Idle
      /\ history' = Extended("evaluate") /\ recall' = Record(running.source, recall)
  BY DEF SucceedEntry, CanSucceed, Idle, NoCalculation
<1>2. /\ IsSeq(running.source) /\ HistoryTyped(running.history) /\ RecallTyped(recall)
      /\ IsDocument(entry.spans)
  BY <1>1 DEF StateTyped, RunningTyped, EntryTyped
<1>3. recall'.last = running.source /\ recall'.available = TRUE
  BY <1>1, <1>2, RecordKeepsDocuments
<1>4. /\ Extended("evaluate") # <<>>
      /\ Last(Extended("evaluate")) = Entry("evaluate", running.size, running.source, running.filled)
  <2>1. "evaluate" \in RecordKinds
    BY DEF RecordKinds
  <2>2. RecordFits(Entry("evaluate", running.size, running.source, running.filled))
    BY <1>2 DEF RecordFits, Entry, IsSeq
  <2> QED
    BY <1>2, <2>1, <2>2, ExtendedFits
<1> QED
  BY <1>1, <1>3, <1>4 DEF Entry

\* Every step keeps what the up arrow relies on.
LEMMA NextPromise == PromiseInv /\ TypedInv /\ [Next]_vars => PromiseInv'
<1> SUFFICES ASSUME PromiseInv, TypedInv, [Next]_vars PROVE PromiseInv'
  OBVIOUS
<1>1. StateTyped /\ RecallTyped(recall)
  BY DEF TypedInv, StateTyped
<1>2. CASE UNCHANGED vars
  BY <1>2 DEF vars, PromiseInv
<1>3. CASE (Ac \/ \E m \in Modes : SelectMode(m)) /\ lastKey' = "ac"
  <2>1. (\E m, spans : Home(m, spans)) /\ history' = history
    BY <1>3 DEF Ac, SelectMode
  <2>2. recall'.pos = Len(history) /\ recall'.available = FALSE
    BY <1>1, <2>1, HomeRecalls
  <2> QED
    BY <1>3, <2>1, <2>2 DEF PromiseInv
<1>4. CASE SucceedEntry /\ lastKey' = "equals"
  BY <1>1, <1>4, SubmittedIsNewest DEF PromiseInv
<1>5. CASE lastKey' \in {"up", "other"}
  BY <1>5 DEF PromiseInv
<1> QED
  BY <1>2, <1>3, <1>4, <1>5 DEF Next

\* Recalling an expression shows what it meant, from its document or as a text.
LEMMA RecalledMeans ==
  ASSUME StateTyped, NEW record, RecordFits(record), NEW r, Recalled(record, NoFlow, r)
  PROVE  IF record.kind = "evaluate" THEN Meant(entry'.cells) = record.source
         ELSE template' = Restored(record)
<1>1. EntryTyped(entry) /\ RecallTyped(recall) /\ IsSeq(record.source)
  BY DEF StateTyped, RecordFits, IsSeq
<1>2. CASE record.kind # "evaluate"
  BY <1>2 DEF Recalled
<1>3. CASE record.kind = "evaluate" /\ mode \in DocumentModes /\ Documents(record.source) # {}
  <2>1. PICK d \in Documents(record.source) :
          entry' = ShowsDocument(entry, d.spans, CellsOfSpans(d.spans), Len(Display(d.spans)))
    BY <1>3 DEF Recalled
  <2>2. PICK i \in DOMAIN recall.documents : d = recall.documents[i]
    BY <2>1 DEF Documents, Range
  <2>3. IsDocument(d.spans) /\ Source(d.spans) = d.source /\ d.source = record.source
    <3>1. DOMAIN recall.documents = 1..Len(recall.documents)
      BY <1>1, SeqFacts DEF RecallTyped, Known
    <3> QED
      BY <1>1, <2>1, <2>2, <3>1 DEF RecallTyped, Known, KeptDocument, Documents
  <2>4. entry'.cells = CellsOfSpans(d.spans)
    BY <1>1, <2>1 DEF ShowsDocument, EntryTyped, EntryShape
  <2>5. Meant(CellsOfSpans(d.spans)) = Source(d.spans)
    BY <2>3, DocumentIsItsCells
  <2> QED
    BY <1>3, <2>3, <2>4, <2>5
<1>4. CASE record.kind = "evaluate" /\ ~(mode \in DocumentModes /\ Documents(record.source) # {})
  <2>1. SetExpr(record.source, NoFlow, r)
    BY <1>4 DEF Recalled
  <2>2. entry'.cells = CellsOfText(record.source)
    BY <1>1, <2>1 DEF SetExpr, Shows, EntryTyped, EntryShape
  <2> QED
    BY <1>1, <1>4, <2>2, CellsOfTextFacts
<1> QED
  BY <1>2, <1>3, <1>4

\* What does not come back.
Lost(t) == IF t.kind = "complex_integral" THEN {Body} ELSE {}

\* A recalled template has the texts of its record, one case per kind and mode.
LEMMA RestoredShowsInput ==
  ASSUME NEW record, RecordFits(record), record.kind \in RecordKinds, record.kind # "evaluate",
         template' = Restored(record)
  PROVE  ShownAgain(record, Lost(template'))
<1> DEFINE kind == TemplateOf(record)
           given == Given(record)
<1> SUFFICES /\ template'.kind = kind
             /\ record.kind = "multiple_integral" => template'.size = record.size
             /\ given \ Lost(template') \subseteq template'.filled
             /\ template'.filled \subseteq given \cup VariableSlots(kind, template'.size)
  BY Zenon DEF ShownAgain
<1>1. record.kind \in Kinds \ Equations
  BY DEF RecordKinds, InBackground, Equations
<1>2. record.filled \subseteq 1..SlotCount(record.kind, record.size)
  BY DEF RecordFits
<1>3. CASE record.kind \in {"integral", "complex_integral"} /\ mode = "Complex"
  <2>1. /\ template'.kind = "complex_integral" /\ kind = "complex_integral"
        /\ template'.filled = record.filled \cap {2, 3}
    BY <1>3 DEF Restored, Open, TemplateOf
  <2>2. given = record.filled \cap 1..3 /\ Lost(template') = {1}
    BY <1>3, <2>1 DEF Given, SlotCount, Lost, Body
  <2> QED
    BY <1>3, <2>1, <2>2
<1>4. CASE record.kind \in {"integral", "complex_integral"} /\ mode # "Complex"
  <2>1. /\ template'.kind = "integral" /\ kind = "integral"
        /\ template'.filled = record.filled \cup {4}
    BY <1>4 DEF Restored, Open, TemplateOf
  <2>2. record.filled \subseteq 1..4
    BY <1>2, <1>4 DEF SlotCount
  <2>3. given = record.filled \cap 1..4 /\ VariableSlots(kind, template'.size) = {4}
    BY <1>4, <2>1 DEF Given, SlotCount, VariableSlots
  <2> QED
    BY <1>4, <2>1, <2>2, <2>3
<1>5. CASE record.kind = "derivative"
  <2>1. /\ template'.kind = "derivative" /\ kind = "derivative"
        /\ template'.filled = record.filled \cup {2}
    BY <1>5 DEF Restored, Open, TemplateOf
  <2>2. record.filled \subseteq 1..3
    BY <1>2, <1>5 DEF SlotCount
  <2>3. given = record.filled \cap 1..3 /\ VariableSlots(kind, template'.size) = {2}
    BY <1>5, <2>1 DEF Given, SlotCount, VariableSlots
  <2> QED
    BY <1>5, <2>1, <2>2, <2>3
<1>6. CASE record.kind = "ode"
  <2>1. template'.kind = "ode_details" /\ kind = "ode_details" /\ template'.filled = {1, 2, 3}
    BY <1>6 DEF Restored, Open, TemplateOf
  <2>2. given = {1, 2, 3} \cap 1..4
    BY <1>6, <2>1 DEF Given, SlotCount
  <2> QED
    BY <1>6, <2>1, <2>2
<1>7. CASE record.kind = "ode_details"
  <2>1. /\ template'.kind = "ode_details" /\ kind = "ode_details"
        /\ template'.filled = {1, 2, 3} \cup record.filled
    BY <1>7 DEF Restored, Open, TemplateOf
  <2>2. record.filled \subseteq 1..4 /\ {1, 2, 3} \subseteq record.filled
    BY <1>2, <1>7 DEF SlotCount, RecordFits
  <2>3. given = record.filled \cap 1..4
    BY <1>7, <2>1 DEF Given, SlotCount
  <2> QED
    BY <1>7, <2>1, <2>2, <2>3
<1>8. CASE record.kind = "multiple_integral"
  <2>1. /\ template'.kind = "multiple_integral" /\ kind = "multiple_integral"
        /\ template'.size = record.size /\ template'.filled = record.filled
    BY <1>8 DEF Restored, Open, TemplateOf
  <2>2. given = record.filled
    BY <1>2, <1>8, <2>1 DEF Given
  <2> QED
    BY <1>8, <2>1, <2>2
<1> QED
  BY <1>1, <1>3, <1>4, <1>5, <1>6, <1>7, <1>8 DEF Kinds, Equations

\* With that kept, up after equals recalls the last line submitted.
LEMMA UpStep ==
  ASSUME StateTyped, IInv, PromiseInv, lastKey \in {"ac", "equals"}, UpKey, history # <<>>
  PROVE  ShownAgain(Last(history), Lost(template'))
<1>1. HistoryTyped(history) /\ EntryTyped(entry) /\ RecallTyped(recall)
  BY DEF StateTyped
<1>2. Len(history) \in Nat \ {0} /\ Last(history) = history[Len(history)]
  BY <1>1 DEF HistoryTyped, IsRecorded, Last
<1>3. RecordFits(Last(history)) /\ Last(history).kind \in RecordKinds
  BY <1>1, <1>2, RecordOfHistory
<1>4. CASE RestoreSubmitted
  <2>1. /\ recall.available /\ recall.last # Blank /\ SetExpr(recall.last, flow, recall)
    BY <1>4 DEF RestoreSubmitted, HasSubmitted
  <2>2. Last(history).kind = "evaluate" /\ Last(history).source = recall.last
    BY <2>1 DEF PromiseInv
  <2>3. entry'.cells = CellsOfText(recall.last)
    BY <1>1, <2>1 DEF SetExpr, Shows, EntryTyped, EntryShape
  <2>4. Meant(entry'.cells) = recall.last
    BY <1>1, <2>3, CellsOfTextFacts DEF RecallTyped
  <2> QED
    BY <2>2, <2>4 DEF ShownAgain
<1>5. CASE BrowseHistory(-1)
  <2> DEFINE pos == HistoryCursor(-1)
  <2>1. /\ flow = NoFlow /\ ~HasSubmitted
        /\ pos # Len(history) => Recalled(history[pos + 1], NoFlow, [recall EXCEPT !.pos = pos])
    BY <1>5 DEF BrowseHistory, KeysReachEntry
  <2>2. recall.pos = Len(history)
    BY <2>1 DEF PromiseInv, HasSubmitted
  <2>3. pos = Len(history) - 1
    BY <1>2, <2>2 DEF HistoryCursor, Clamped
  <2> HIDE DEF pos
  <2>4. pos # Len(history) /\ pos + 1 = Len(history)
    BY <1>2, <2>3
  <2>5. Recalled(Last(history), NoFlow, [recall EXCEPT !.pos = pos])
    BY <1>2, <2>1, <2>4
  <2>6. CASE Last(history).kind = "evaluate"
    <3>1. Meant(entry'.cells) = Last(history).source
      BY <1>3, <2>5, <2>6, RecalledMeans
    <3> QED
      BY <2>6, <3>1 DEF ShownAgain
  <2>7. CASE Last(history).kind # "evaluate"
    <3>1. template' = Restored(Last(history))
      BY <1>3, <2>5, <2>7, RecalledMeans
    <3> QED
      BY <1>3, <2>7, <3>1, RestoredShowsInput
  <2> QED
    BY <2>6, <2>7
<1> QED
  BY <1>4, <1>5 DEF UpKey

\* The second invariant, on top of the first, in every reachable state.
THEOREM TypedInvHolds == Spec => []TypedInv
<1> QED
  BY InvariantHolds, InitTyped, NextTyped, PTL DEF Spec

\* The third one, on top of the second.
THEOREM PromiseInvHolds == Spec => []PromiseInv
<1>1. Init => PromiseInv
  BY DEF Init, PromiseInv
<1> QED
  BY <1>1, TypedInvHolds, NextPromise, PTL DEF Spec

\* Caret, field index, result line, template slot, grid cursor and lists stay within
\* their bounds, whatever handlers of app.py run after each other.
THEOREM TypeHolds == Spec => []TypeOK
<1>1. IInv /\ TypedInv => TypeOK
  <2> SUFFICES ASSUME IInv, TypedInv PROVE TypeOK
    OBVIOUS
  <2>1. StateTyped
    BY DEF TypedInv
  <2>2. entry.cursor \in 0..Len(Text) /\ entry.overwrite \in BOOLEAN /\ Len(entry.undo) <= MaxUndo
    BY <2>1, TextIsSeq DEF StateTyped, EntryTyped, UndoList
  <2>3. template # NoTemplate => template.index \in 1..template.count /\ template.filled \subseteq 1..template.count
    BY <2>1 DEF StateTyped, TemplateTyped
  <2>4. ASSUME flow # NoFlow
        PROVE  /\ Address(flow) \in Addresses
               /\ flow.phase \in {"form", "results", "sheet"}
               /\ InForm => flow.index \in DOMAIN flow.fields
               /\ InResults => flow.line \in 1..flow.lines
    <3>1. FlowTyped(flow) /\ SheetTyped(sheet) /\ Screen(mode, flow)
      BY <2>1, <2>4 DEF StateTyped, IInv, FlowInvariant
    <3>2. Address(flow) \in Addresses
      BY <3>1, CellsAreSeqs
    <3>3. InForm => flow.index \in DOMAIN flow.fields
      BY <3>1, FieldOnDisplay DEF InForm
    <3> QED
      BY <3>1, <3>2, <3>3 DEF Screen, FlowTyped, FlowPlace
  <2>5. Len(history) <= HistoryLimit /\ Len(recall.documents) <= DocumentLimit
    BY <2>1 DEF StateTyped, HistoryTyped, RecallTyped, Known
  <2> QED
    BY <2>1, <2>2, <2>3, <2>4, <2>5 DEF TypeOK, TypedInv, StateTyped
<1> QED
  BY <1>1, InvariantHolds, TypedInvHolds, PTL

\* The source that = sends to the engine is that of the cells on display, however the
\* document was typed, cut, overwritten, undone, recalled or left behind.
THEOREM SubmittedHolds == Spec => []SubmittedMeansTyped
<1>1. TypedInv => SubmittedMeansTyped
  BY SubmissionIsMeant DEF TypedInv, SubmittedMeansTyped
<1> QED
  BY <1>1, TypedInvHolds, PTL

\* Every kept document is that of the line it is kept for, and no line has two.
THEOREM DocumentsHold == Spec => []DocumentsMatchTheirLines
<1>1. TypedInv => DocumentsMatchTheirLines
  BY KnownDocumentsMatch DEF TypedInv, StateTyped
<1> QED
  BY <1>1, TypedInvHolds, PTL

\* The first up arrow after =, AC or MENU shows the newest record of history_move: its
\* line, or its template with all that was filled in, but for the integrand that
\* start_integral_template leaves out in Complex.
THEOREM PromiseHolds == Spec => UpKeepsItsPromise
<1>1. IInv /\ TypedInv /\ PromiseInv /\ [Next]_vars =>
        [FirstUp => ShownAgain(Last(history), Lost(template'))]_vars
  <2> SUFFICES ASSUME IInv, TypedInv, PromiseInv, Next, FirstUp
               PROVE  ShownAgain(Last(history), Lost(template'))
    BY DEF vars
  <2>1. UpKey /\ lastKey \in {"ac", "equals"} /\ history # <<>>
    BY DEF Next, FirstUp
  <2> QED
    BY <2>1, UpStep DEF TypedInv
<1> QED
  BY <1>1, InvariantHolds, TypedInvHolds, PromiseInvHolds, PTL DEF Spec, UpKeepsItsPromise, Lost
=============================================================================
