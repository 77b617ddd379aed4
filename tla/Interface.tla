------------------------------ MODULE Interface ------------------------------
(***************************************************************************)
(* The keys of the calculator (app.py): what they do to the entry, to the     *)
(* open workflow (LcdForms), to the open template (MathTemplates), to the      *)
(* history cursor, and to the entry again when a calculation ends. The three   *)
(* owners of the keys share one entry widget, and a key handler finds out by   *)
(* looking at all of them which one is meant.                                *)
(*                                                                         *)
(* Every action is one Tk callback. What a calculation computes, Ans and the   *)
(* memories are BackgroundCalculation's matter: here it may succeed or fail.   *)
(* Caret movement inside a template slot, labels and result rows are left out. *)
(***************************************************************************)
EXTENDS ExpressionDocument, LcdForms, MathTemplates

CONSTANTS
  Tokens,           \* what number, operator and memory keys type
  EngineerKeys,     \* the engineering symbols in use
  Modes,            \* the modes in use
  InitialHistories, \* what load_calculation_history may have restored
  HistoryLimit,     \* 10
  DocumentLimit,    \* the 10 of _record_submitted_expression
  MaxUndo,          \* 50
  MaxEffort         \* bound on the keys that bring in something new, see Effort

DocumentModes == {"Calculate", "Complex"}

ASSUME InterfaceAssumption ==
  /\ EngineerKeys \subseteq Symbols
  /\ "Calculate" \in Modes
  /\ Modes \subseteq DocumentModes \cup {"BaseN", "Spreadsheet"} \cup (DOMAIN FirstStage \ {"Integral", "ComplexIntegral"})
  /\ HistoryLimit \in Nat \ {0} /\ DocumentLimit \in Nat \ {0}
  /\ MaxUndo \in Nat \ {0} /\ MaxEffort \in Nat

\* What a history records: expressions, and what a template sends to the worker.
RecordKinds == {"evaluate"} \cup {kind \in Kinds : InBackground(kind)}
IsRecorded(h) == h \in Seq(Range(h)) /\ \A i \in DOMAIN h : h[i].kind \in RecordKinds

\* What a record says of its template is what an earlier session can have sent.
RecordFits(r) ==
  /\ r.source \in Seq(Range(r.source))
  /\ r.kind = "multiple_integral" => r.size \in 1..3
  /\ r.kind # "evaluate" => r.filled \subseteq 1..SlotCount(r.kind, r.size)
  /\ r.kind = "ode_details" => {1, 2, 3} \subseteq r.filled
RecordsFit(h) == \A i \in DOMAIN h : RecordFits(h[i])

ASSUME HistoryAssumption ==
  \A h \in InitialHistories : IsRecorded(h) /\ Len(h) <= HistoryLimit /\ RecordsFit(h)

VARIABLES
  mode,
  flow,      \* _lcd_flow
  template,  \* the template session
  entry,     \* the entry widget, _expression_document, the undo list, overwrite
  recall,    \* history_pos, _last_submitted_expression, its flag, _history_documents
  history,   \* core.history: what made each entry
  running,   \* the calculation that _calculation_busy stands for
  sheet,     \* sheet.cells
  effort,    \* keys so far that Effort bounds
  lastKey    \* what the user did last: "ac", "equals", "up" or "other"

vars == <<mode, flow, template, entry, recall, history, running, sheet, effort, lastKey>>

NoCalculation == [kind |-> "none"]
Idle == running = NoCalculation

\* A character typed, deleted or undone, a calculation, a mode, ∫, a derivative, the
\* history list: the keys that are bounded. The arrows, = in a workflow, OPTN, the
\* keys of a template and AC are not. A mode that has a workflow costs two.
Effort(n) == effort + n <= MaxEffort /\ effort' = effort + n
Counted == Effort(1)

Addresses == (0..LastColumn) \X (0..LastRow)
\* What the entry shows above a list of results: a text, and DEL can edit it.
Banner == <<"menu">>

-----------------------------------------------------------------------------
(***************************************************************************)
(* The entry.                                                              *)
(***************************************************************************)

Text == Shown(entry.cells)

\* _document_editing_active in mode m with this flow and this template.
DocumentIn(m, f, t) == m \in DocumentModes /\ f = NoFlow /\ t = NoTemplate
DocumentActive == DocumentIn(mode, flow, template)

\* Mutant of CurrentDocument: the document is trusted.
StaleDocument == entry.spans

\* _expression_document_for_entry: a document that is not on display is stale.
CurrentDocument == IF Display(entry.spans) = Text THEN entry.spans ELSE FromText(Text)

\* _expression_source
Submission == IF DocumentActive THEN Source(CurrentDocument) ELSE Text

\* Mutant of Shows: the caret stays where it was.
ShowsKeepsCaret(e, text) == [e EXCEPT !.cells = CellsOfText(text)]

\* _set_lcd_expression
Shows(e, text) == [e EXCEPT !.cells = CellsOfText(text), !.cursor = Len(text)]

\* _set_expression_document
ShowsDocument(e, spans, cells, cursor) ==
  [e EXCEPT !.spans = spans, !.cells = cells, !.cursor = cursor]

\* set_expr, with the flow and the recall state the caller has left.
SetExpr(text, f, r) ==
  /\ template' = NoTemplate
  /\ flow' = IF f # NoFlow /\ f.phase = "form" THEN [f EXCEPT !.armed = FALSE] ELSE f
  /\ recall' = [r EXCEPT !.available = FALSE]
  /\ entry' = [Shows(entry, text) EXCEPT
                 !.spans = IF DocumentIn(mode, f, NoTemplate) THEN FromText(text) ELSE @]

\* remember
Remembered(e) ==
  LET item == [document |-> DocumentActive, cells |-> e.cells,
               spans |-> IF DocumentActive THEN CurrentDocument ELSE NoSpans]
      longer == Append(e.undo, item)
  IN [e EXCEPT !.undo = IF Len(longer) > MaxUndo THEN Tail(longer) ELSE longer]

\* _lcd_prepare_direct_entry: the first key replaces a default.
Armed == flow # NoFlow /\ flow.phase = "form" /\ flow.armed
Prepared == IF Armed THEN Shows(entry, Blank) ELSE entry
Disarmed == IF Armed THEN [flow EXCEPT !.armed = FALSE] ELSE flow

\* _lcd_matrix_row_allows_insert looks at the row before a default is replaced.
RowTakesMore ==
  flow # NoFlow /\ flow.phase = "form" /\ CurrentSpec(flow).type = "matrix_row"
    => Len(Text) < CurrentSpec(flow).max

\* A key on the grid starts an edit of the cell.
OnSheet(f) == f # NoFlow /\ f.phase = "sheet"
Editing(f) == IF OnSheet(f) THEN [f EXCEPT !.editing = TRUE] ELSE f

InForm == flow # NoFlow /\ flow.phase = "form"
InResults == flow # NoFlow /\ flow.phase = "results"
InHistory == flow # NoFlow /\ flow.mode = "History"
Unavailable == [recall EXCEPT !.available = FALSE]

\* One character at the caret; with overwrite it replaces the one behind it.
Typed(e, token) ==
  LET over == e.overwrite /\ e.cursor < Len(e.cells)
      kept == IF over THEN RemoveAt(e.cells, e.cursor + 1) ELSE e.cells
      document == IF e.overwrite THEN DeleteForward(CurrentDocument, e.cursor) ELSE CurrentDocument
  IN [e EXCEPT !.cells = InsertAt(kept, e.cursor + 1, CharCell(token)),
               !.cursor = @ + 1,
               !.spans = IF DocumentActive THEN InsertText(document, e.cursor, <<token>>) ELSE @]

\* insert. The CONST window inserts its number during a calculation too.
Type(token) ==
  /\ ~InHistory
  /\ template = NoTemplate
  /\ RowTakesMore
  /\ Counted
  /\ recall' = Unavailable
  /\ flow' = Editing(Disarmed)
  /\ entry' = Typed(Remembered(Prepared), token)
  /\ UNCHANGED <<mode, template, history, running, sheet>>

\* OPTN, Engineer Symbol: _insert_engineering_prefix
InsertPrefix(symbol) ==
  /\ Idle
  /\ mode = "Calculate"
  /\ DocumentActive
  /\ Counted
  /\ LET e == Remembered(entry)
     IN entry' = ShowsDocument(e, InsertEngineeringPrefix(CurrentDocument, e.cursor, symbol),
                               InsertAt(e.cells, e.cursor + 1, PrefixCell(symbol)), e.cursor + 1)
  /\ recall' = Unavailable
  /\ UNCHANGED <<mode, flow, template, history, running, sheet>>

\* DEL. An armed default goes at once, and is not remembered.
Delete ==
  /\ Idle
  /\ Counted
  /\ ~InHistory
  /\ template = NoTemplate
  /\ LET e == Prepared
         r == Remembered(e)
     IN entry' = IF e.cursor = 0 THEN e
                 ELSE [r EXCEPT !.cells = RemoveAt(@, e.cursor), !.cursor = @ - 1,
                                !.spans = IF DocumentActive
                                          THEN DeleteBackward(CurrentDocument, e.cursor) ELSE @]
  /\ recall' = Unavailable
  /\ flow' = Editing(Disarmed)
  /\ UNCHANGED <<mode, template, history, running, sheet>>

\* SHIFT DEL
ToggleOverwrite ==
  /\ Idle
  /\ Counted
  /\ ~InHistory
  /\ template = NoTemplate
  /\ entry' = [entry EXCEPT !.overwrite = ~@]
  /\ flow' = Editing(flow)
  /\ UNCHANGED <<mode, template, recall, history, running, sheet>>

\* ALPHA DEL: the entry and the remembered text change places.
Undo ==
  /\ Idle
  /\ Counted
  /\ ~InHistory
  /\ template = NoTemplate
  /\ entry.undo # <<>>
  /\ LET e == [entry EXCEPT !.undo = Append(Front(@), Last(Remembered(entry).undo))]
         previous == Last(entry.undo)
     IN IF previous.document
        THEN /\ entry' = ShowsDocument(e, previous.spans, previous.cells, Len(previous.cells))
             /\ flow' = Editing(flow)
             /\ UNCHANGED recall
        ELSE /\ entry' = [Shows(e, Shown(previous.cells)) EXCEPT
                            !.spans = IF DocumentActive THEN FromText(Shown(previous.cells)) ELSE @]
             /\ flow' = Editing(Disarmed)
             /\ recall' = Unavailable
  /\ UNCHANGED <<mode, template, history, running, sheet>>

\* ◀ ▶ where no workflow and no template has a use for them.
MoveCaret(d) ==
  /\ Idle
  /\ flow = NoFlow \/ (InResults /\ ~InHistory) \/ (OnSheet(flow) /\ flow.editing)
  /\ template = NoTemplate
  /\ entry.cursor + d \in 0..Len(Text)
  /\ entry' = [entry EXCEPT !.cursor = @ + d]
  /\ UNCHANGED <<mode, flow, template, recall, history, running, sheet, effort>>

-----------------------------------------------------------------------------
(***************************************************************************)
(* Workflows.                                                              *)
(***************************************************************************)

\* _lcd_begin_form
ShowForm(f, stage, fields, r) ==
  /\ flow' = BeginForm(f, stage, fields)
  /\ entry' = Shows(entry, FieldEntry(flow'))
  /\ recall' = [r EXCEPT !.available = FALSE]

ShowCell(f, r) ==
  /\ flow' = f
  /\ entry' = IF f.editing THEN entry ELSE Shows(entry, sheet'[Address(f)])
  /\ recall' = r

ShowResultList(f, n, r) ==
  /\ flow' = ShowResults(f, n)
  /\ entry' = Shows(entry, Banner)
  /\ recall' = r

\* Mutant of StartFlow: an open template keeps the keys.
StartFlowOverTemplate(m, source, r) ==
  /\ UNCHANGED <<template, sheet>>
  /\ IF m = "Spreadsheet" THEN ShowCell(StartSheet(FreshFlow(m, source)), r)
     ELSE \E fields \in Fields(m, FirstStage[m], NoTexts) :
            ShowForm(FreshFlow(m, source), FirstStage[m], fields, r)

\* _start_lcd_flow
StartFlow(m, source, r) ==
  /\ template' = NoTemplate
  /\ sheet' = sheet
  /\ IF m = "Spreadsheet" THEN ShowCell(StartSheet(FreshFlow(m, source)), r)
     ELSE \E fields \in Fields(m, FirstStage[m], NoTexts) :
            ShowForm(FreshFlow(m, source), FirstStage[m], fields, r)

\* set_expr(source) and start_integral_template or start_multiple_integral_template.
OpenIntegral(choice, source) ==
  LET kind == CASE mode = "Complex" -> "complex_integral"
                [] mode # "Complex" /\ choice = "definite" -> "integral"
                [] OTHER -> "multiple_integral"
  IN /\ template' = Open(kind, IF kind = "multiple_integral" THEN Layers(choice) ELSE 0,
                         IF mode = "Complex" \/ source = Blank THEN {} ELSE {Body})
     /\ flow' = NoFlow
     /\ entry' = [Shows(entry, source) EXCEPT
                    !.spans = IF mode \in DocumentModes THEN FromText(source) ELSE @]
     /\ recall' = Unavailable
     /\ sheet' = sheet

\* start_ode_template, start_polynomial_template, start_simultaneous_template
OpenEquation(kind, f) ==
  /\ template' = Open(kind, CASE kind = "polynomial" -> f.values["polynomial_degree"]
                              [] kind = "simultaneous" -> f.values["simultaneous_size"]
                              [] OTHER -> 0, {})
  /\ flow' = NoFlow
  /\ UNCHANGED <<entry, recall, sheet>>

\* _lcd_error in a form: the field is blank, and so is the entry.
FormError(f) ==
  /\ SetExpr(Blank, [f EXCEPT !.draft = With(@, CurrentSpec(f).key, Blank)], recall)
  /\ sheet' = sheet

\* The _lcd_run_sheet_ handlers that succeed: what the sheet may contain then.
SheetsAfter(stage, f) ==
  LET here == Address(f)
      target == TargetAddress(f)
      Between(i, j, k) == (i <= k /\ k <= j) \/ (j <= k /\ k <= i)
  IN CASE stage = "sheet_delete" -> {[sheet EXCEPT ![here] = Blank]}
       [] stage = "sheet_copy" ->
            {[sheet EXCEPT ![target] = sheet[here]],
             [a \in Addresses |-> IF a = target THEN sheet[here] ELSE IF a = here THEN Blank ELSE sheet[a]]}
       [] stage = "sheet_grab" ->
            LET prefix == f.values["sheet_reference_prefix"]
            IN IF target # here /\ prefix # Blank /\ prefix[1] = "="
               THEN {[sheet EXCEPT ![target] = Append(prefix, "ref")]} ELSE {}
       [] stage = "sheet_fill" ->
            {[a \in Addresses |->
                IF Between(here[1], target[1], a[1]) /\ Between(here[2], target[2], a[2])
                THEN f.values["sheet_fill_text"] ELSE sheet[a]]}
       [] stage = "sheet_delete_all" /\ f.values["sheet_confirm"] = "Delete all" ->
            {[a \in Addresses |-> Blank]}
       [] OTHER -> {sheet}

\* One outcome of _lcd_complete_flow, f being the flow with the last value stored.
Completed(f, outcome) ==
  CASE outcome.to = "form" ->
         /\ \E fields \in Fields(f.mode, outcome.at, f.values) : ShowForm(f, outcome.at, fields, recall)
         /\ UNCHANGED <<template, sheet>>
    [] outcome.to = "template" /\ outcome.at \in Range(IntegralKinds) ->
         OpenIntegral(outcome.at, f.source)
    [] outcome.to = "template" /\ outcome.at \notin Range(IntegralKinds) ->
         OpenEquation(outcome.at, f)
    [] outcome.to = "results" ->
         /\ \E n \in 1..MaxLines : ShowResultList(f, n, recall)
         /\ UNCHANGED <<template, sheet>>
    [] outcome.to = "sheet" ->
         /\ sheet' \in SheetsAfter(outcome.at, f)
         /\ ShowCell(SheetReturn(f), recall)
         /\ UNCHANGED template
    [] outcome.to = "edit" ->
         /\ flow' = EditCell(f)
         /\ entry' = Shows(entry, sheet[Address(f)])
         /\ UNCHANGED <<template, recall, sheet>>
    [] OTHER -> FormError(f)

\* = on a field: refused, stored with the next one shown, or the last one.
RefuseField ==
  /\ Idle
  /\ InForm
  /\ ~Accepts(CurrentSpec(flow), Submitted(flow, Text))
  /\ FormError(flow)
  /\ UNCHANGED <<mode, history, running, effort>>

StoreField ==
  /\ Idle
  /\ InForm
  /\ flow.index < Len(flow.fields)
  /\ Accepts(CurrentSpec(flow), Submitted(flow, Text))
  /\ flow' = Render([Stored(flow, Text) EXCEPT !.index = @ + 1])
  /\ entry' = Shows(entry, FieldEntry(flow'))
  /\ UNCHANGED <<mode, template, recall, history, running, sheet, effort>>

\* What = on the last field of a form may lead to.
FormOutcomes ==
  IF InForm /\ flow.index = Len(flow.fields) /\ Accepts(CurrentSpec(flow), Submitted(flow, Text))
  THEN LET f == Stored(flow, Text) IN Completions(f.mode, f.stage, f.fields, f.values)
  ELSE {}

CompleteForm(outcome) ==
  /\ Idle
  /\ outcome \in FormOutcomes
  /\ Completed(Stored(flow, Text), outcome)
  /\ UNCHANGED <<mode, history, running, effort>>

\* ▲ ▼ in a form; capturing a choice that names no option raises, and nothing moves.
MoveFormField(d) ==
  /\ Idle
  /\ InForm
  /\ CanCapture(flow, Text)
  /\ flow' = MoveField(flow, Text, d)
  /\ entry' = Shows(entry, FieldEntry(flow'))
  /\ UNCHANGED <<mode, template, recall, history, running, sheet, effort>>

\* ◀ ▶ in a form: the next option, or the neighbour in the linear template. At
\* the ends the text is captured, and the key moves the caret.
MoveAcross(d) ==
  /\ Idle
  /\ InForm
  /\ IF CurrentSpec(flow).type = "choice"
     THEN flow' = Cycle(flow, Text, d) /\ entry' = Shows(entry, FieldEntry(flow'))
     ELSE IF HasNeighbour(flow, d)
          THEN flow' = MoveField(flow, Text, d) /\ entry' = Shows(entry, FieldEntry(flow'))
          ELSE /\ flow' = Capture(flow, Text)
               /\ entry' = [entry EXCEPT !.cursor = Clamped(0, Len(Text), @ + d)]
  /\ UNCHANGED <<mode, template, recall, history, running, sheet, effort>>

MoveResultLine(d) ==
  /\ Idle
  /\ InResults
  /\ flow' = [flow EXCEPT !.line = Clamped(1, flow.lines, @ + d)]
  /\ entry' = Shows(entry, Banner)
  /\ UNCHANGED <<mode, template, recall, history, running, sheet, effort>>

MoveSheet(column, d) ==
  /\ Idle
  /\ OnSheet(flow)
  /\ ~flow.editing
  /\ sheet' = sheet
  /\ ShowCell(IF column THEN MoveColumn(flow, d) ELSE MoveRow(flow, d), recall)
  /\ UNCHANGED <<mode, template, history, running, effort>>

\* = on the grid: an unchanged cell is opened for editing, a changed one is saved.
\* A text the sheet refuses raises out of the handler and leaves everything as it is.
SubmitSheet ==
  /\ Idle
  /\ OnSheet(flow)
  /\ IF flow.editing \/ Text # sheet[Address(flow)]
     THEN /\ sheet' = [sheet EXCEPT ![Address(flow)] = Text]
          /\ ShowCell([flow EXCEPT !.editing = FALSE], recall)
     ELSE /\ flow' = [flow EXCEPT !.editing = TRUE]
          /\ UNCHANGED <<entry, recall, sheet>>
  /\ UNCHANGED <<mode, template, history, running, effort>>

\* OPTN in a workflow, and = below its results, start it anew.
RestartFlow ==
  /\ Idle
  /\ InForm \/ InResults
  /\ ~InHistory
  /\ InForm => flow.mode # "Spreadsheet"
  /\ StartFlow(flow.mode, Text, recall)
  /\ UNCHANGED <<mode, history, running, effort>>

\* OPTN in Spreadsheet: back from the results, refused while a cell is edited, or
\* the tools, with the values of the tools used before.
SheetOptions ==
  /\ Idle
  /\ flow # NoFlow
  /\ flow.mode = "Spreadsheet"
  /\ sheet' = sheet
  /\ CASE InResults -> ShowCell(StartSheet(flow), recall) /\ UNCHANGED template
       [] ~InResults /\ flow.editing -> SetExpr(Blank, flow, recall)
       [] OTHER -> ShowForm(flow, "sheet_tool", SheetFields("sheet_tool"), recall) /\ UNCHANGED template
  /\ UNCHANGED <<mode, history, running, effort>>

\* OPTN without a workflow: Calculus in Complex, "Open ... workspace" elsewhere.
OpenFromMenu ==
  /\ Idle
  /\ flow = NoFlow
  /\ \/ mode = "Complex" /\ StartFlow("ComplexIntegral", Text, recall)
     \/ mode \notin DocumentModes \cup {"BaseN"} /\ StartFlow(mode, Text, recall)
  /\ UNCHANGED <<mode, history, running, effort>>

-----------------------------------------------------------------------------
(***************************************************************************)
(* Templates. The focused canvas takes its keys during a calculation too.     *)
(***************************************************************************)

TypeInTemplate(letter) ==
  /\ template # NoTemplate
  /\ template' = FillSlot(template, letter)
  /\ UNCHANGED <<mode, flow, entry, recall, history, running, sheet, effort>>

EraseInTemplate ==
  /\ template # NoTemplate
  /\ template' = EraseSlot(template)
  /\ UNCHANGED <<mode, flow, entry, recall, history, running, sheet, effort>>

\* ▲ ▼ and Tab, and ◀ ▶ in the templates that do not keep them.
MoveInTemplate(d) ==
  /\ template # NoTemplate
  /\ template' = MoveSlot(template, d)
  /\ UNCHANGED <<mode, flow, entry, recall, history, running, sheet, effort>>

\* Escape in the canvas: the template closes, a calculation goes on.
EscapeTemplate ==
  /\ template # NoTemplate
  /\ SetExpr(Blank, flow, recall)
  /\ UNCHANGED <<mode, history, running, sheet, effort>>

\* The worker takes the history with it, and brings it back with one more record.
Start(kind, size, source, filled) ==
  /\ Counted
  /\ running' = [kind |-> kind, size |-> size, source |-> source, filled |-> filled,
                  history |-> history]

\* = in a template whose calculation goes to the worker.
EvaluateTemplate ==
  /\ Idle
  /\ template # NoTemplate
  /\ InBackground(template.kind)
  /\ Ready(template)
  /\ Start(template.kind, template.size, Blank, template.filled)
  /\ UNCHANGED <<mode, flow, template, entry, recall, history, sheet>>

\* The worker does not start: of the templates, only a derivative closes.
TemplateStartFails ==
  /\ Idle
  /\ template.kind = "derivative"
  /\ Ready(template)
  /\ template' = NoTemplate
  /\ UNCHANGED <<mode, flow, entry, recall, history, running, sheet, effort>>

\* = in a system of equations, before the last equation.
AcceptEquation ==
  /\ Idle
  /\ template.kind = "simultaneous"
  /\ RowComplete(template)
  /\ ~LastRowReached(template)
  /\ template' = AcceptRow(template)
  /\ UNCHANGED <<mode, flow, entry, recall, history, running, sheet, effort>>

\* = in a polynomial, or in the last equation: a flow that shows the solutions.
SolveTemplate ==
  /\ Idle
  /\ \/ template.kind = "polynomial" /\ Ready(template)
     \/ template.kind = "simultaneous" /\ LastRowReached(template) /\ Solvable(template)
  /\ \E n \in 1..MaxLines : ShowResultList(FreshFlow("Equation", Blank), n, recall)
  /\ template' = NoTemplate
  /\ UNCHANGED <<mode, history, running, sheet, effort>>

\* ∫: a form that keeps the entry as its source.
IntegralKey ==
  /\ Idle
  /\ Counted
  /\ ~InHistory
  /\ mode \in DocumentModes
  /\ StartFlow(IF mode = "Calculate" THEN "Integral" ELSE "ComplexIntegral", Text,
               [recall EXCEPT !.pos = Len(history), !.available = FALSE])
  /\ UNCHANGED <<mode, history, running>>

\* SHIFT ∫: the entry becomes the body of a derivative.
DerivativeKey ==
  /\ Idle
  /\ Counted
  /\ ~InHistory
  /\ mode \in DocumentModes
  /\ template' = Open("derivative", 0, {2} \cup (IF Text = Blank THEN {} ELSE {Body}))
  /\ flow' = NoFlow
  /\ entry' = Shows(entry, Blank)
  /\ recall' = [recall EXCEPT !.pos = Len(history), !.available = FALSE]
  /\ UNCHANGED <<mode, history, running, sheet>>

-----------------------------------------------------------------------------
(***************************************************************************)
(* History.                                                                *)
(***************************************************************************)

\* A record: an expression, or the template it came from with its filled slots.
Entry(kind, size, source, filled) ==
  [kind |-> kind, size |-> size, source |-> source, filled |-> filled]

\* Mutant of Restored: an integral comes back without its bounds.
RestoredWithoutBounds(record) ==
  CASE record.kind \in {"integral", "complex_integral"} ->
         IF mode = "Complex" THEN Open("complex_integral", 0, {})
         ELSE Open("integral", 0, {Body, 4})
    [] record.kind = "derivative" -> Open("derivative", 0, record.filled \cup {2})
    [] record.kind \in {"ode", "ode_details"} -> Open("ode_details", 0, {1, 2, 3})
    [] OTHER -> Open(record.kind, record.size, record.filled)

\* _recall_structured_history: the template of a record, in the mode of today.
Restored(record) ==
  CASE record.kind \in {"integral", "complex_integral"} ->
         IF mode = "Complex" THEN Open("complex_integral", 0, record.filled \cap {2, 3})
         ELSE Open("integral", 0, record.filled \cup {4})
    [] record.kind = "derivative" -> Open("derivative", 0, record.filled \cup {2})
    [] record.kind \in {"ode", "ode_details"} ->
         Open("ode_details", 0, {1, 2, 3} \cup (IF record.kind = "ode" THEN {} ELSE record.filled))
    [] OTHER -> Open(record.kind, record.size, record.filled)

\* The document that was kept for a source.
Documents(source) == {d \in Range(recall.documents) : d.source = source}

\* _recall_structured_history, else _recall_expression.
Recalled(record, f, r) ==
  IF record.kind # "evaluate"
  THEN /\ template' = Restored(record)
       /\ flow' = f
       /\ entry' = entry
       /\ recall' = r
  ELSE IF mode \in DocumentModes /\ Documents(record.source) # {}
  THEN /\ \E d \in Documents(record.source) :
            entry' = ShowsDocument(entry, d.spans, CellsOfSpans(d.spans), Len(Display(d.spans)))
       /\ template' = template
       /\ flow' = f
       /\ recall' = r
  ELSE SetExpr(record.source, f, r)

\* MENU, History: the list, newest first.
ShowHistory ==
  /\ Idle
  /\ Counted
  /\ ~InHistory
  /\ mode \in DocumentModes
  /\ ShowResultList([FreshFlow("History", Blank) EXCEPT !.entries = Reverse(history)],
                    IF history = <<>> THEN 1 ELSE Len(history), recall)
  /\ template' = NoTemplate
  /\ UNCHANGED <<mode, history, running, sheet>>

\* = in the list
RecallFromList ==
  /\ Idle
  /\ InHistory
  /\ flow.line \in DOMAIN flow.entries
  /\ Recalled(flow.entries[flow.line], NoFlow, [recall EXCEPT !.pos = Len(history)])
  /\ UNCHANGED <<mode, history, running, sheet, effort>>

\* Mutant of KeysReachEntry: a running calculation is not looked at.
KeysReachEntryWhileBusy == flow = NoFlow /\ template = NoTemplate

KeysReachEntry == Idle /\ flow = NoFlow /\ template = NoTemplate
HasSubmitted == recall.available /\ recall.last # Blank

\* ▲ after =
RestoreSubmitted ==
  /\ KeysReachEntry
  /\ HasSubmitted
  /\ SetExpr(recall.last, flow, recall)
  /\ UNCHANGED <<mode, history, running, sheet, effort>>

\* Mutant of HistoryCursor: the place behind the newest entry is an entry.
HistoryCursorSkips(d) ==
  LET n == Len(history)
      pos == Clamped(0, n - 1, recall.pos)
  IN IF d < 0 THEN Clamped(0, n, pos - 1) ELSE Clamped(0, n, pos + 1)

\* history_move: the cursor, from the place behind the newest entry.
HistoryCursor(d) ==
  LET n == Len(history)
      pos == Clamped(0, n, recall.pos)
  IN IF d < 0 THEN Clamped(0, n, pos - 1) ELSE Clamped(0, n, pos + 1)

\* ▲ ▼ with an empty entry; pos is counted from 0, so record pos + 1 is shown.
BrowseHistory(d) ==
  /\ KeysReachEntry
  /\ ~(d < 0 /\ HasSubmitted)
  /\ Text = Blank
  /\ history # <<>>
  /\ LET pos == HistoryCursor(d)
         r == [recall EXCEPT !.pos = pos]
     IN IF pos = Len(history)
        THEN recall' = r /\ UNCHANGED <<flow, template, entry>>
        ELSE Recalled(history[pos + 1], flow, r)
  /\ UNCHANGED <<mode, history, running, sheet, effort>>

\* SETUP, Clear History or Reset; RESET, Initialize All leaves the cursor.
ForgetHistory ==
  /\ Counted
  /\ history' = <<>>
  /\ \/ recall' = [recall EXCEPT !.pos = 0] /\ sheet' = sheet
     \/ recall' = recall /\ sheet' = [a \in Addresses |-> Blank]
  /\ UNCHANGED <<mode, flow, template, entry, running>>

-----------------------------------------------------------------------------
(***************************************************************************)
(* Calculations.                                                           *)
(***************************************************************************)

\* = with neither a flow nor a template
EvaluateEntry ==
  /\ KeysReachEntry
  /\ mode # "BaseN"
  /\ Submission # Blank
  /\ Start("evaluate", 0, Submission, {})
  /\ UNCHANGED <<mode, flow, template, entry, recall, history, sheet>>

\* CALC, SOLVE, sum, degrees, SHIFT =: these look at the entry, whatever has the keys.
EvaluateOther ==
  /\ Idle
  /\ ~InHistory
  /\ Start("other", 0, Submission, {})
  /\ UNCHANGED <<mode, flow, template, entry, recall, history, sheet>>

\* Mutant of Record: the document on display is kept for the line.
RecordDisplayed(source, r) ==
  LET known == {i \in DOMAIN r.documents : r.documents[i].source = source}
      kept == IF known # {}
              THEN [r.documents EXCEPT ![CHOOSE i \in known : TRUE].spans = entry.spans]
              ELSE Append(r.documents, [source |-> source, spans |-> entry.spans])
  IN [r EXCEPT !.last = source, !.available = TRUE, !.pos = Len(history'),
               !.documents = IF Len(kept) > DocumentLimit THEN Tail(kept) ELSE kept]

\* _record_submitted_expression, after the history is replaced.
Record(source, r) ==
  LET known == {i \in DOMAIN r.documents : r.documents[i].source = source}
      kept == IF Source(entry.spans) # source THEN r.documents
              ELSE IF known # {}
              THEN [r.documents EXCEPT ![CHOOSE i \in known : TRUE].spans = entry.spans]
              ELSE Append(r.documents, [source |-> source, spans |-> entry.spans])
  IN [r EXCEPT !.last = source, !.available = TRUE, !.pos = Len(history'),
               !.documents = IF Len(kept) > DocumentLimit THEN Tail(kept) ELSE kept]

\* = in Base-N: at once, and without a history entry.
EvaluateBase ==
  /\ KeysReachEntry
  /\ mode = "BaseN"
  /\ Text # Blank
  /\ Counted
  /\ history' = history
  /\ \/ /\ Range(Text) \subseteq Range(Numeral)
        /\ recall' = Record(Text, recall)
        /\ UNCHANGED <<flow, template, entry>>
     \/ SetExpr(Blank, flow, recall)
  /\ UNCHANGED <<mode, running, sheet>>

\* The history of a successful calculation.
Extended(kind) ==
  LET h == Append(running.history, Entry(kind, running.size, running.source, running.filled))
  IN IF Len(h) > HistoryLimit THEN Tail(h) ELSE h

\* Neither a blank entry nor the banner of a workflow evaluates to anything.
CanSucceed == running.source # Blank /\ Range(Banner) \cap Range(running.source) = {}

\* apply_success, then on_success of the key that started it.
SucceedEntry ==
  /\ running.kind = "evaluate"
  /\ CanSucceed
  /\ history' = Extended("evaluate")
  /\ recall' = Record(running.source, recall)
  /\ running' = NoCalculation
  /\ UNCHANGED <<mode, flow, template, entry, sheet, effort>>

SucceedOther ==
  /\ running.kind = "other"
  /\ CanSucceed
  /\ history' = Extended("evaluate")
  /\ running' = NoCalculation
  /\ UNCHANGED <<mode, flow, template, entry, recall, sheet, effort>>

\* cancel_template is the last thing a template's on_success does. An integral
\* that diverges and a limit that is not decided leave no record.
SucceedTemplate ==
  /\ running.kind \in Kinds
  /\ history' \in {running.history, Extended(running.kind)}
  /\ template' = NoTemplate
  /\ running' = NoCalculation
  /\ UNCHANGED <<mode, flow, entry, recall, sheet, effort>>

\* err: a template keeps what was submitted, anything else is cleared. A start
\* that is refused is reported the same way, before or after on_start.
Fail ==
  /\ ~Idle
  /\ running' = NoCalculation
  /\ IF template # NoTemplate THEN UNCHANGED <<flow, template, entry, recall>>
     ELSE LET f == IF InForm THEN [flow EXCEPT !.draft = With(@, CurrentSpec(flow).key, Blank)] ELSE flow
          IN SetExpr(Blank, f, recall)
  /\ UNCHANGED <<mode, history, sheet, effort>>

-----------------------------------------------------------------------------
(***************************************************************************)
(* AC and the modes.                                                       *)
(***************************************************************************)

AtNewest(r) == [r EXCEPT !.pos = Len(history), !.available = FALSE]

\* The first screen of mode m, with nothing typed.
Home(m, spans) ==
  IF m \in DocumentModes \cup {"BaseN"}
  THEN /\ template' = NoTemplate
       /\ flow' = NoFlow
       /\ entry' = [Shows(entry, Blank) EXCEPT !.spans = spans]
       /\ recall' = AtNewest(recall)
       /\ sheet' = sheet
  ELSE StartFlow(m, Blank, AtNewest(recall))

\* ac_key, and Escape outside of a template: _reset_active_mode_after_ac
Ac ==
  /\ running' = NoCalculation
  /\ Home(mode, IF mode \in DocumentModes THEN NoSpans ELSE entry.spans)
  /\ UNCHANGED <<mode, history, effort>>

\* MENU; the stale document stays behind the blank entry.
SelectMode(m) ==
  /\ Idle
  /\ Effort(IF m \in DocumentModes \cup {"BaseN"} THEN 1 ELSE 2)
  /\ ~InHistory
  /\ mode' = m
  /\ Home(m, entry.spans)
  /\ UNCHANGED <<history, running>>

Init ==
  /\ mode = "Calculate"
  /\ flow = NoFlow
  /\ template = NoTemplate
  /\ entry = [cells |-> <<>>, cursor |-> 0, spans |-> NoSpans, undo |-> <<>>, overwrite |-> FALSE]
  /\ history \in InitialHistories
  /\ recall = [pos |-> Len(history), last |-> Blank, available |-> FALSE, documents |-> <<>>]
  /\ running = NoCalculation
  /\ sheet = [a \in Addresses |-> Blank]
  /\ effort = 0
  /\ lastKey = "ac"

UpKey == RestoreSubmitted \/ BrowseHistory(-1)

\* All other callbacks.
OtherKey ==
  \/ \E token \in Tokens : Type(token)
  \/ \E symbol \in EngineerKeys : InsertPrefix(symbol)
  \/ Delete \/ ToggleOverwrite \/ Undo
  \/ RefuseField \/ StoreField
  \/ \E outcome \in FormOutcomes : CompleteForm(outcome)
  \/ \E d \in {-1, 1} :
       \/ MoveCaret(d) \/ MoveFormField(d) \/ MoveAcross(d) \/ MoveResultLine(d)
       \/ MoveInTemplate(d)
       \/ \E column \in BOOLEAN : MoveSheet(column, d)
  \/ BrowseHistory(1)
  \/ SubmitSheet \/ RestartFlow \/ SheetOptions \/ OpenFromMenu
  \/ \E letter \in BOOLEAN : TypeInTemplate(letter)
  \/ EraseInTemplate \/ EscapeTemplate \/ EvaluateTemplate \/ TemplateStartFails
  \/ AcceptEquation \/ SolveTemplate \/ IntegralKey \/ DerivativeKey
  \/ ShowHistory \/ RecallFromList \/ ForgetHistory
  \/ EvaluateEntry \/ EvaluateOther \/ EvaluateBase
  \/ SucceedOther \/ SucceedTemplate \/ Fail

Next ==
  \/ Ac /\ lastKey' = "ac"
  \/ \E m \in Modes : SelectMode(m) /\ lastKey' = "ac"
  \/ SucceedEntry /\ lastKey' = "equals"
  \/ UpKey /\ lastKey' = "up"
  \/ OtherKey /\ lastKey' = "other"

Spec == Init /\ [][Next]_vars

-----------------------------------------------------------------------------
(***************************************************************************)
(* Properties.                                                             *)
(***************************************************************************)

\* Positions stay inside what they point into: the caret in the entry, the field
\* index in a form that was replaced under it, the line in a list, the slot in a
\* template, the cursor on the grid. No list outgrows its limit.
TypeOK ==
  /\ mode \in Modes
  /\ entry.cursor \in 0..Len(Text)
  /\ entry.overwrite \in BOOLEAN
  /\ Len(entry.undo) <= MaxUndo
  /\ Len(history) <= HistoryLimit
  /\ Len(recall.documents) <= DocumentLimit
  /\ effort \in 0..MaxEffort
  /\ lastKey \in {"ac", "equals", "up", "other"}
  /\ template # NoTemplate =>
       /\ template.index \in 1..template.count
       /\ template.filled \subseteq 1..template.count
  /\ flow # NoFlow =>
       /\ Address(flow) \in Addresses
       /\ flow.phase \in {"form", "results", "sheet"}
       /\ InForm => flow.index \in DOMAIN flow.fields
       /\ InResults => flow.line \in 1..flow.lines

\* A workflow and a template never claim the keys together, and a workflow belongs
\* to the mode it runs in: insert, DEL, the arrows, = and OPTN ask for the two in
\* different orders, so a state with both would answer different keys differently.
Owner == [Integral |-> "Calculate", ComplexIntegral |-> "Complex"]
KeysHaveOneOwner ==
  /\ flow = NoFlow \/ template = NoTemplate
  /\ flow # NoFlow =>
       \/ flow.mode = mode
       \/ flow.mode = "History" /\ mode \in DocumentModes
       \/ flow.mode \in DOMAIN Owner /\ mode = Owner[flow.mode]

\* The field whose text the entry holds is the one the linear template has active:
\* ◀ ▶ move by the template, ▲ ▼ and = by the index, and each corrects the other.
SlotFollowsIndex ==
  InForm => flow.slot = CurrentSpec(flow).key

\* When the callback of a template's calculation closes the template, that is the
\* one it was started from, or none: Escape may have closed it, nothing may have
\* opened another one meanwhile.
CallbackMeetsItsTemplate ==
  running.kind \in Kinds => flow = NoFlow /\ template.kind \in {"none", running.kind}

\* What = sends to the engine is what was typed, prefix or memory, however the
\* spans were cut, joined, overwritten, undone, recalled or left behind by a mode.
SubmittedMeansTyped ==
  DocumentActive => Source(CurrentDocument) = Meant(entry.cells)

\* A document is kept for the line it was submitted as, even if the entry changed
\* while the calculation ran: recalling the line never brings back another one.
DocumentsMatchTheirLines ==
  \A i, j \in DOMAIN recall.documents :
    /\ Source(recall.documents[i].spans) = recall.documents[i].source
    /\ recall.documents[i].source = recall.documents[j].source => i = j

\* The slots of a template, as the mode of today has it, that a record has a text for.
\* ode_details asks for the equation, the function and the variable by themselves.
TemplateOf(record) ==
  CASE record.kind \in {"integral", "complex_integral"} ->
         IF mode = "Complex" THEN "complex_integral" ELSE "integral"
    [] record.kind \in {"ode", "ode_details"} -> "ode_details"
    [] OTHER -> record.kind
Given(record) ==
  (IF record.kind = "ode" THEN {1, 2, 3} ELSE record.filled)
    \cap 1..SlotCount(TemplateOf(record), record.size)

\* What the record holds is on display again, the texts of the lost slots excepted;
\* nothing else is, but the variable that a template proposes.
ShownAgain(record, lost) ==
  IF record.kind = "evaluate" THEN Meant(entry'.cells) = record.source
  ELSE /\ template'.kind = TemplateOf(record)
       /\ record.kind = "multiple_integral" => template'.size = record.size
       /\ Given(record) \ lost \subseteq template'.filled
       /\ template'.filled \subseteq
            Given(record) \cup VariableSlots(template'.kind, template'.size)

FirstUp == lastKey \in {"ac", "equals"} /\ lastKey' = "up" /\ history # <<>>

\* "After =, the first up arrow restores the expression, after AC the newest record"
\* (USER_GUIDE.md): whatever was browsed, cleared, failed or calculated before. All
\* that was filled in comes back, but for the integrand of an integral in Complex.
UpKeepsItsPromise ==
  [][FirstUp =>
       ShownAgain(Last(history), IF template'.kind = "complex_integral" THEN {Body} ELSE {})]_vars

\* "History retains the complete integral or derivative expression" (USER_GUIDE.md on
\* Complex) and recalling it is to "restore user-entered calculus fields" (app.py).
\* The code breaks it: an integral is recalled in Complex without its integrand.
UpRestoresTheWholeInput == [][FirstUp => ShownAgain(Last(history), {})]_vars

\* A system of equations is solved from all its coefficients, although = looks at
\* one equation at a time and the others may have been erased since.
SolvedSystemsAreComplete ==
  [][template.kind = "simultaneous" /\ flow' # NoFlow /\ flow'.phase = "results"
       => template.filled = 1..template.count]_vars

\* "Enter the highlighted value and press = to advance or run it, use the up and
\* down arrows to change fields." (USER_GUIDE.md) The code breaks it: a form runs on
\* the values stored with =, not on the ones its fields show.
FormRunsOnWhatItShows ==
  [][\A outcome \in FormOutcomes \ {Failure} :
       CompleteForm(outcome) =>
         \A i \in DOMAIN flow.fields \ {flow.index} :
           /\ flow.fields[i].key \in DOMAIN flow.values
           /\ flow.values[flow.fields[i].key] = Parsed(flow.fields[i], FieldText(flow, flow.fields[i]))]_vars
=============================================================================
