------------------------------ MODULE LcdForms ------------------------------
(***************************************************************************)
(* The LCD workflows of app.py, with lcd_forms.py, lcd_fields.py,             *)
(* lcd_flow_state.py, spreadsheet_cursor.py and the linear MathTemplate: the  *)
(* stages of each mode, the fields of a stage, what text a field accepts,     *)
(* and what the keys do to the record of the open workflow.                  *)
(*                                                                         *)
(* A text is a sequence of tokens: a numeral, the memory M, whose value is 0,  *)
(* or "=". Operations that differ only in their formula are one option:       *)
(* "binary" is A + B, A - B and A * B. What the engine answers to a complete   *)
(* form is a result or an error.                                            *)
(***************************************************************************)
EXTENDS Integers, SequencesExt

CONSTANTS LastColumn, LastRow,  \* 4 and 44: A1 to E45, counted from 0
          MaxLayers,            \* 3: the layers of a multiple integral
          MaxLines,             \* bound on the rows of a result
          SheetTools            \* the tools of the spreadsheet in use, all eight

ASSUME FormsAssumption ==
  /\ LastColumn \in 0..4
  /\ LastRow \in 0..44
  /\ MaxLayers \in 1..3
  /\ MaxLines \in Nat \ {0}
  /\ SheetTools # {}

Numeral == <<"1", "2", "3", "4", "5", "6", "7", "8", "9">>
Code(i) == <<Numeral[i]>>
Blank == <<>>

\* str of an integer of at most two digits.
Figure(n) == IF n = 0 THEN "0" ELSE Numeral[n]
Decimal(n) == IF n < 10 THEN <<Figure(n)>> ELSE <<Figure(n \div 10), Figure(n % 10)>>

IsNumeric(text) ==
  text # Blank /\ \A i \in DOMAIN text : text[i] \in Range(Numeral) \cup {"0", "M"}

Digit(token) == IF token = "0" THEN 0 ELSE CHOOSE i \in DOMAIN Numeral : Numeral[i] = token

ValueOf(text) ==
  IF "M" \in Range(text) THEN 0
  ELSE FoldLeft(LAMBDA value, token : 10 * value + Digit(token), 0, text)

-----------------------------------------------------------------------------
(***************************************************************************)
(* Fields.                                                                 *)
(***************************************************************************)

Field(key, type, default) ==
  [key |-> key, type |-> type, default |-> default, options |-> <<>>, min |-> 0, max |-> 0]

Choice(key, options) == [Field(key, "choice", Code(1)) EXCEPT !.options = options]
Number(key, default) == Field(key, "number", <<default>>)
\* A count has no upper bound in the code.
MaxCount == 99
Integer(key, default, min, max) ==
  [Field(key, "integer", <<default>>) EXCEPT !.min = min, !.max = max]
\* A row of a matrix: max is its number of columns, each written as one token.
MatrixRow(key, columns) == [Field(key, "matrix_row", Blank) EXCEPT !.max = columns]

\* parse_field succeeds.
Accepts(field, text) ==
  CASE field.type = "choice" -> IsNumeric(text) /\ ValueOf(text) \in DOMAIN field.options
    [] field.type = "integer" -> IsNumeric(text) /\ ValueOf(text) \in field.min..field.max
    [] field.type = "matrix_row" -> IsNumeric(text) /\ Len(text) = field.max
    [] field.type = "raw" -> TRUE
    [] OTHER -> IsNumeric(text)

\* What parse_field returns.
Parsed(field, text) ==
  CASE field.type = "choice" -> field.options[ValueOf(text)]
    [] field.type = "integer" -> ValueOf(text)
    [] field.type = "number" /\ "M" \in Range(text) -> <<"0">>
    [] OTHER -> text

\* The text a stored value is shown as.
Written(field, value) ==
  CASE field.type = "choice" -> Code(CHOOSE i \in DOMAIN field.options : field.options[i] = value)
    [] field.type = "integer" -> Decimal(value)
    [] OTHER -> value

-----------------------------------------------------------------------------
(***************************************************************************)
(* The stages of each mode: first its fields, then where a complete form      *)
(* leads. v holds the values stored so far in the workflow.                  *)
(***************************************************************************)

Form(stage) == [to |-> "form", at |-> stage]
Template(kind) == [to |-> "template", at |-> kind]
Results == [to |-> "results", at |-> ""]
Failure == [to |-> "error", at |-> ""]
Answered == {Results, Failure}

IntegralKinds == <<"definite", "double", "triple">>
Layers(kind) == CHOOSE n \in DOMAIN IntegralKinds : IntegralKinds[n] = kind
IntegralFields == <<Choice("calculus_action", SubSeq(IntegralKinds, 1, MaxLayers))>>
ComplexIntegralFields == <<Choice("calculus_action", <<"definite">>)>>

\* _lcd_choose_calculus_action
IntegralNext(v) == {Template(v["calculus_action"])}

Matrices == <<"A", "Ans">>
RowKeys == <<"matrix_row_0", "matrix_row_1", "matrix_row_2", "matrix_row_3">>

MatrixFields(stage, v) ==
  CASE stage = "matrix_action" ->
         <<Choice("action", <<"Define / Edit", "binary", "unary", "Identity", "Copy">>)>>
    [] stage = "matrix_shape" ->
         <<Choice("matrix_name", Matrices), Integer("matrix_rows", "2", 1, 4),
           Integer("matrix_cols", "2", 1, 4)>>
    [] stage = "matrix_rows" ->
         [r \in 1..v["matrix_rows"] |-> MatrixRow(RowKeys[r], v["matrix_cols"])]
    [] stage = "matrix_identity" -> <<Integer("matrix_size", "2", 1, 4)>>
    [] stage = "matrix_copy" ->
         <<Choice("matrix_source", Matrices), Choice("matrix_destination", Matrices)>>
    [] stage = "matrix_operation" ->
         <<Choice("matrix_a", Matrices)>>
         \o (IF v["action"] = "binary" THEN <<Choice("matrix_b", Matrices)>> ELSE <<>>)

MatrixNext(stage, v) ==
  CASE stage = "matrix_action" ->
         {Form(CASE v["action"] = "Define / Edit" -> "matrix_shape"
                 [] v["action"] = "Identity" -> "matrix_identity"
                 [] v["action"] = "Copy" -> "matrix_copy"
                 [] OTHER -> "matrix_operation")}
    [] stage = "matrix_shape" -> {Form("matrix_rows")}
    [] OTHER -> Answered

Vectors == <<"A", "Ans">>
ComponentKeys == <<"vector_0", "vector_1", "vector_2">>

VectorFields(stage, v) ==
  CASE stage = "vector_action" ->
         <<Choice("action", <<"Define / Edit", "binary", "unary", "scale", "Copy">>)>>
    [] stage = "vector_shape" ->
         <<Choice("vector_name", Vectors), Integer("vector_dimension", "2", 2, 3)>>
    [] stage = "vector_values" ->
         [i \in 1..v["vector_dimension"] |-> Number(ComponentKeys[i], "0")]
    [] stage = "vector_copy" ->
         <<Choice("vector_source", Vectors), Choice("vector_destination", Vectors)>>
    [] stage = "vector_operation" ->
         <<Choice("vector_a", Vectors)>>
         \o (CASE v["action"] = "binary" -> <<Choice("vector_b", Vectors)>>
               [] v["action"] = "scale" -> <<Number("vector_scalar", "1")>>
               [] OTHER -> <<>>)

VectorNext(stage, v) ==
  CASE stage = "vector_action" ->
         {Form(CASE v["action"] = "Define / Edit" -> "vector_shape"
                 [] v["action"] = "Copy" -> "vector_copy"
                 [] OTHER -> "vector_operation")}
    [] stage = "vector_shape" -> {Form("vector_values")}
    [] OTHER -> Answered

\* frequency: settings.statistics_freq
StatisticsFields(stage, v, frequency) ==
  LET xs == <<Field("stat_x", "numbers", Blank)>>
            \o (IF frequency THEN <<Field("stat_frequency", "numbers", Blank)>> ELSE <<>>)
  IN IF stage = "statistics_action"
     THEN <<Choice("analysis", <<"1-Variable", "regression", "P(t)", "x->t">>)>>
     ELSE
       CASE v["analysis"] = "1-Variable" -> xs
         [] v["analysis"] = "P(t)" -> <<Number("stat_t", "0")>>
         [] v["analysis"] = "x->t" -> Append(xs, Number("stat_target", "0"))
         [] OTHER -> <<Field("stat_x", "numbers", Blank), Field("stat_y", "numbers", Blank)>>

StatisticsNext(stage) ==
  IF stage = "statistics_action" THEN {Form("statistics_run")} ELSE Answered

DistributionKinds == <<"Normal PD", "Normal CD", "Poisson PD">>

DistributionFields(stage, v) ==
  IF stage = "distribution_kind" THEN <<Choice("distribution_kind", DistributionKinds)>>
  ELSE
    CASE v["distribution_kind"] = "Normal PD" -> <<Number("x", "0"), Number("sigma", "1"), Number("mu", "0")>>
      [] v["distribution_kind"] = "Normal CD" ->
           <<Number("lower", "0"), Number("upper", "1"), Number("sigma", "1"), Number("mu", "0")>>
      [] OTHER -> <<Integer("x", "0", 0, MaxCount), Number("lam", "1")>>

DistributionNext(stage) ==
  IF stage = "distribution_kind" THEN {Form("distribution_run")} ELSE Answered

\* two: settings.table_two_functions
TableFields(two) ==
  <<Field("table_f", "function", <<"M">>)>>
  \o (IF two THEN <<Field("table_g", "function", <<"M">>)>> ELSE <<>>)
  \o <<Number("table_start", "0"), Number("table_end", "1"), Number("table_step", "1")>>

EquationFields(stage) ==
  CASE stage = "equation_kind" ->
         <<Choice("equation_kind", <<"polynomial", "simultaneous", "ode">>)>>
    [] stage = "equation_poly_degree" -> <<Integer("polynomial_degree", "2", 2, 4)>>
    [] OTHER -> <<Integer("simultaneous_size", "2", 2, 4)>>

EquationNext(stage, v) ==
  CASE stage = "equation_kind" ->
         {CASE v["equation_kind"] = "polynomial" -> Form("equation_poly_degree")
            [] v["equation_kind"] = "simultaneous" -> Form("equation_simul_size")
            [] OTHER -> Template("ode")}
    [] stage = "equation_poly_degree" -> {Template("polynomial")}
    [] OTHER -> {Template("simultaneous")}

CoefficientKeys == <<"inequality_0", "inequality_1", "inequality_2", "inequality_3", "inequality_4">>

InequalityFields(stage, v) ==
  IF stage = "inequality_degree" THEN <<Integer("inequality_degree", "2", 1, 4)>>
  ELSE Append([i \in 1..(v["inequality_degree"] + 1) |-> Number(CoefficientKeys[i], "0")],
              Choice("inequality_relation", <<">", "<">>))

InequalityNext(stage) ==
  IF stage = "inequality_degree" THEN {Form("inequality_values")} ELSE Answered

RatioFields(stage, v) ==
  IF stage = "ratio_kind" THEN <<Choice("ratio_kind", <<"A:B = X:D", "A:B = C:X">>)>>
  ELSE <<Number("ratio_A", "0"), Number("ratio_B", "1"),
         Number(IF v["ratio_kind"] = "A:B = X:D" THEN "ratio_D" ELSE "ratio_C", "1")>>

RatioNext(stage) == IF stage = "ratio_kind" THEN {Form("ratio_values")} ELSE Answered

\* The choice of a column names all of them.
ColumnNames == SubSeq(<<"A", "B", "C", "D", "E">>, 1, LastColumn + 1)
TargetFields ==
  <<Choice("sheet_target_column", ColumnNames), Integer("sheet_target_row", "1", 1, LastRow + 1)>>

AllTools == <<"Copy cell", "Edit cell", "Delete cell", "Insert reference", "Fill value",
              "Recalculate", "Free space", "Delete all">>

SheetFields(stage) ==
  CASE stage = "sheet_tool" ->
         <<Choice("sheet_tool", SelectSeq(AllTools, LAMBDA tool : tool \in SheetTools))>>
    [] stage = "sheet_grab" -> Append(TargetFields, Field("sheet_reference_prefix", "raw", <<"=">>))
    [] stage = "sheet_fill" -> Append(TargetFields, Field("sheet_fill_text", "raw", Blank))
    [] stage = "sheet_delete_all" -> <<Choice("sheet_confirm", <<"Cancel", "Delete all">>)>>
    [] OTHER -> TargetFields

\* _lcd_choose_sheet_tool; "sheet" carries a tool out and returns to the grid.
SheetNext(stage, v) ==
  IF stage # "sheet_tool" THEN {[to |-> "sheet", at |-> stage], Failure}
  ELSE
    CASE v["sheet_tool"] = "Copy cell" -> {Form("sheet_copy")}
      [] v["sheet_tool"] = "Edit cell" -> {[to |-> "edit", at |-> ""]}
      [] v["sheet_tool"] = "Insert reference" -> {Form("sheet_grab")}
      [] v["sheet_tool"] = "Fill value" -> {Form("sheet_fill")}
      [] v["sheet_tool"] = "Free space" -> {Results}
      [] v["sheet_tool"] = "Delete all" -> {Form("sheet_delete_all")}
      [] v["sheet_tool"] = "Delete cell" -> {[to |-> "sheet", at |-> "sheet_delete"], Failure}
      [] OTHER -> {[to |-> "sheet", at |-> "sheet_recalculate"], Failure}

FirstStage ==
  [Matrix |-> "matrix_action", Vector |-> "vector_action", Statistics |-> "statistics_action",
   Distribution |-> "distribution_kind", Table |-> "table_run", Equation |-> "equation_kind",
   Inequality |-> "inequality_degree", Ratio |-> "ratio_kind", Integral |-> "calculus_action",
   ComplexIntegral |-> "calculus_action"]

\* The field lists a stage may have, for any setting.
Fields(mode, stage, v) ==
  CASE mode = "Integral" -> {IntegralFields}
    [] mode = "ComplexIntegral" -> {ComplexIntegralFields}
    [] mode = "Matrix" -> {MatrixFields(stage, v)}
    [] mode = "Vector" -> {VectorFields(stage, v)}
    [] mode = "Statistics" -> {StatisticsFields(stage, v, f) : f \in BOOLEAN}
    [] mode = "Distribution" -> {DistributionFields(stage, v)}
    [] mode = "Table" -> {TableFields(two) : two \in BOOLEAN}
    [] mode = "Equation" -> {EquationFields(stage)}
    [] mode = "Inequality" -> {InequalityFields(stage, v)}
    [] mode = "Ratio" -> {RatioFields(stage, v)}
    [] mode = "Spreadsheet" -> {SheetFields(stage)}

\* values.get(...) or a test for the key: the handler does without them.
Optional == {"matrix_b", "vector_b", "vector_scalar", "table_g", "stat_frequency"}

\* _lcd_complete_flow: what the handler of the stage may lead to. A missing value
\* raises KeyError, which is shown like any other error.
Completions(mode, stage, fields, v) ==
  IF \E i \in DOMAIN fields : fields[i].key \notin DOMAIN v \cup Optional THEN {Failure}
  ELSE CASE mode \in {"Integral", "ComplexIntegral"} -> IntegralNext(v)
         [] mode = "Matrix" -> MatrixNext(stage, v)
         [] mode = "Vector" -> VectorNext(stage, v)
         [] mode = "Statistics" -> StatisticsNext(stage)
         [] mode = "Distribution" -> DistributionNext(stage)
         [] mode = "Equation" -> EquationNext(stage, v)
         [] mode = "Inequality" -> InequalityNext(stage)
         [] mode = "Ratio" -> RatioNext(stage)
         [] mode = "Spreadsheet" -> SheetNext(stage, v)
         [] OTHER -> Answered

-----------------------------------------------------------------------------
(***************************************************************************)
(* The record of an open workflow (LCDFlowState).                           *)
(***************************************************************************)

NoFlow == [phase |-> "none"]

NoTexts == [key \in {} |-> Blank]
With(f, key, value) == [k \in DOMAIN f \cup {key} |-> IF k = key THEN value ELSE f[k]]
Without(f, key) == [k \in DOMAIN f \ {key} |-> f[k]]

\* A new workflow, before its first screen.
FreshFlow(mode, source) ==
  [mode |-> mode, phase |-> "new", stage |-> "", fields |-> <<>>, index |-> 1,
   slot |-> "", values |-> NoTexts, draft |-> NoTexts, armed |-> FALSE,
   line |-> 1, lines |-> 1, column |-> 0, row |-> 0, editing |-> FALSE,
   source |-> source, entries |-> <<>>]

CurrentSpec(flow) == flow.fields[flow.index]

\* field_text
FieldText(flow, field) ==
  CASE field.key \in DOMAIN flow.draft -> flow.draft[field.key]
    [] field.key \in DOMAIN flow.values \ DOMAIN flow.draft -> Written(field, flow.values[field.key])
    [] OTHER -> field.default

\* _lcd_render_field: the record, and the text it puts into the entry.
Render(flow) ==
  [flow EXCEPT !.slot = CurrentSpec(flow).key, !.armed = CurrentSpec(flow).type # "choice"]
FieldEntry(flow) ==
  IF CurrentSpec(flow).type = "choice" THEN Blank ELSE FieldText(flow, CurrentSpec(flow))

\* _lcd_begin_form: the drafts of the form before it are dropped, its values stay.
BeginForm(flow, stage, fields) ==
  Render([flow EXCEPT !.phase = "form", !.stage = stage, !.fields = fields,
                      !.index = 1, !.draft = NoTexts])

\* _lcd_capture_draft raises on a choice whose text names no option.
CanCapture(flow, text) ==
  CurrentSpec(flow).type # "choice" \/ text # Blank \/ Accepts(CurrentSpec(flow), FieldText(flow, CurrentSpec(flow)))

Capture(flow, text) ==
  LET field == CurrentSpec(flow)
      kept == IF field.type = "choice" /\ text = Blank
              THEN Written(field, Parsed(field, FieldText(flow, field))) ELSE text
  IN [flow EXCEPT !.draft = With(@, field.key, kept), !.slot = field.key]

Clamped(low, high, n) == IF n < low THEN low ELSE IF n > high THEN high ELSE n

\* Mutant of MoveField: the linear template keeps its slot.
MoveFieldKeepsSlot(flow, text, d) ==
  [Capture(flow, text) EXCEPT !.index = Clamped(1, Len(flow.fields), @ + d)]

\* _lcd_vertical_move in a form.
MoveField(flow, text, d) ==
  Render([Capture(flow, text) EXCEPT !.index = Clamped(1, Len(flow.fields), @ + d)])

\* _lcd_move in a form: the linear template moves, the index follows its slot.
HasNeighbour(flow, d) == flow.index + d \in DOMAIN flow.fields

\* _lcd_cycle_choice: from what is typed, else from what is shown, else from the first.
Cycle(flow, text, d) ==
  LET field == CurrentSpec(flow)
      raw == IF text # Blank THEN text ELSE FieldText(flow, field)
      n == IF Accepts(field, raw) THEN ValueOf(raw) ELSE 1
      count == Len(field.options)
  IN Render([flow EXCEPT !.draft = With(@, field.key, Code(((n - 1 + d) % count) + 1))])

\* The first part of _lcd_submit: what = stores.
Submitted(flow, text) ==
  LET field == CurrentSpec(flow)
  IN IF field.type = "choice" /\ text = Blank THEN FieldText(flow, field) ELSE text

Stored(flow, text) ==
  LET key == CurrentSpec(flow).key
  IN [flow EXCEPT !.values = With(@, key, Parsed(CurrentSpec(flow), Submitted(flow, text))),
                  !.draft = Without(@, key)]

\* _lcd_show_results with n lines.
ShowResults(flow, n) ==
  [flow EXCEPT !.phase = "results", !.line = 1, !.lines = n, !.armed = FALSE]

\* _lcd_start_sheet, _lcd_sheet_return and the cursor.
StartSheet(flow) ==
  [flow EXCEPT !.phase = "sheet", !.stage = "sheet", !.column = 0, !.row = 0, !.editing = FALSE]
SheetReturn(flow) ==
  [flow EXCEPT !.phase = "sheet", !.stage = "sheet", !.editing = FALSE, !.draft = NoTexts]
EditCell(flow) == [flow EXCEPT !.phase = "sheet", !.stage = "sheet", !.editing = TRUE]
MoveColumn(flow, d) == [flow EXCEPT !.column = Clamped(0, LastColumn, @ + d)]
MoveRow(flow, d) == [flow EXCEPT !.row = Clamped(0, LastRow, @ + d)]
Address(flow) == <<flow.column, flow.row>>
TargetAddress(flow) ==
  <<(CHOOSE i \in DOMAIN ColumnNames : ColumnNames[i] = flow.values["sheet_target_column"]) - 1,
    flow.values["sheet_target_row"] - 1>>
=============================================================================
