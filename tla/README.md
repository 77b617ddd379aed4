# TLA+ models of ScientificCalculator

This directory models the stateful core of the calculator: the process that runs
one calculation in the background, the application around it, the keys and the
forms, templates and lists they act on, the settings database that several instances
share, the SETUP windows, the spreadsheet, and the control flow of the calculus
operations. TLC checks each model on small instances; the proofs in the eight
`*Proofs.tla` modules hold for every value of the constants that the modules' assumptions admit.

## Inventory

The program is a Tk desktop application (`src/src/scientific_calculator/`). One
thread, Tk's, runs every handler; one spawned process computes.

| Component | State | Operations | Talks to |
| --- | --- | --- | --- |
| Calculation controller (`calculation_controller.py`) | active operation number, process, pipe, callbacks, start time | start, poll, cleanup, cancel, close | Tk `after`, the worker's pipe and signals, four callbacks of the application |
| Calculation worker (`calculation_worker.py`) | a copy of the engine | one of 16 allowlisted operations | answers through the pipe |
| Application (`app.py`, `calculation_session.py`) | input lock, LCD, template, form, mode, windows | keys, SETUP/RESET/CONV windows, close, restart | controller, engine, store |
| Engine facade (`calculator_engine.py`) | Ans, memory, history (10 entries), settings object, matrices, vectors | evaluate, solve, calculus, store, reset | parser, calculus, SymPy |
| Settings store (`settings_store.py`, `application_persistence.py`) | one SQLite file: settings, history, schema version | load, save, save_history, save_state, reset_defaults | other instances, through SQLite's lock |
| Spreadsheet (`spreadsheet.py`) | cells, cache, dirty cells, needs_recalculation | set, delete, copy, cut, fill, recalculate | the engine, synchronously |
| Entry and history browsing (`app.py`, `expression_document.py`) | text, caret, document of spans, undo list, overwrite; history cursor, last submission, kept documents | number, operator and engineering keys, DEL, undo, ◀ ▶ ▲ ▼ = AC, CALC, SOLVE, HISTORY | forms and templates share its widget |
| LCD forms (`app.py`, `lcd_forms.py`, `lcd_fields.py`, `lcd_flow_state.py`, `spreadsheet_cursor.py`) | mode, phase, stage, field index, drafts, values, result line, sheet cursor | the same keys, OPTN, menus | engine, spreadsheet |
| Templates (`app.py`, `template_session.py`) | kind, slots, index, completed equations | the same keys, Escape | engine, through a background calculation |
| Calculus (`calculus.py`, root finder, sums and derivatives of `calculator_engine.py`) | none of its own; writes Ans and history | integrals, limits, derivatives, differential equations, solve, sum | SymPy, mpmath, the CAS worker |
| CAS worker (`cas_worker.py`) | none | run_cas, isolated or inline | engine |
| Other mathematics (`engine/*.py`), parser, formatter, layout, constants, packaging | none | pure functions | engine, application |

What is hard in it: timers that outlive what they were for; a worker that can
answer, hang, crash or be killed between any two statements of the Tk thread; a
commit that overwrites the live engine with a copy taken earlier; windows that are
neither modal nor locked; two flags for "busy"; saves that fail after memory was
changed; schema migration in several instances at once; object aliasing in SETUP;
a cache of spreadsheet values that is allowed to be stale as long as it says so; a
key whose meaning depends on four pieces of state that other callbacks replace, one
of them while a calculation runs; a document that has to say the same as the text of
a widget it does not own; an algebra system that may fail, leave a question open or
answer it misleadingly.
`PROJECT.json` lists these hazards at their lines, with the properties that
catch them, or the reason why none does.

## Modules

    CalculationService        what the application may rely on
      ^ implemented by             ^ used by (INSTANCE Controller)
    CalculationController     BackgroundCalculation
      ^ proved in                  ^ proved in
    CalculationControllerProofs    BackgroundCalculationProofs

    ProfileRegister           what the application asks of the database
      ^ implemented by
    SettingsStore             SetupDialog       which settings object a name refers to
      ^ proved in                  ^ proved in
    SettingsStoreProofs       SetupDialogProofs

    SpreadsheetValues         what a sheet evaluates to
      ^ used by                    ^ compared with
    SpreadsheetModel          SpreadsheetPass
    cells, cache and marks    one depth-first pass
      ^ both proved in SpreadsheetProofs
      ^ both instances for TLC: MCSpreadsheet

    ExpressionDocument  LcdForms  MathTemplates
    spans of an entry   screens   slots
      ^ proved in  ^       ^         ^  EXTENDS
      |                Interface        who a key belongs to and what it does
      |                    ^ instances for TLC: MCInterface
      |                    ^ proved in
    ExpressionDocumentProofs  <-- InterfaceProofs

    Calculus                  how an answer is put together
      ^ proved in
    CalculusProofs

### CalculationController

One action per handler, or per branch of a handler that ends in an early return:
`StartFails`, `Start` and `StartRollsBack` are the three ways out of
`start_engine_method`; `PollStale`, `PollTimeout`, `PollReceive`, `PollNoData`,
`PollAgain`, `PollAgainRaises` and `PollWorkerGone` are `_poll`; `CleanupReaps`,
`CleanupRetries`, `CleanupGivesUp` and `CleanupFails` are `_poll_cleanup`; `Cancel`, `Close` and `Shutdown` are `cancel`,
`close` and the window's end. Between `_poll`'s two questions, `connection.poll()`
and `process.is_alive()`, the worker runs on, so they are two actions with `midPoll`
set between them; everything else in a handler is atomic towards the worker. The
five fields that `_detach` clears together are one variable, `activeId`.
`_schedule_cleanup` includes its fallback when `after()` raises.

Every call with which a worker is stopped may raise: `after()`, `terminate()`, `join()`,
`is_alive()` and `kill()`. In `_poll_cleanup` this ends the chain of callbacks
(`CleanupFails`, before or after a signal of that turn), in `_schedule_cleanup`, the rollback
of a start and `close()` it is passed over. In `_poll` the re-arming `after()` may raise
(`PollAgainRaises`), which nothing catches. `dropped` holds the operations this has happened to
and `cancelled` those that `cancel` withdrew; both only serve to state properties. The worker
(`WorkerResponds`, `WorkerExits`) may write one response or none and may end at any
point, before or after it; the clock (`Expire`) may pass the deadline at any point.

`CalculationService` is the same thing without processes or timers: an operation is
accepted under a new number, completed with an answer or withdrawn, once.

### BackgroundCalculation

`app.py` around the controller, which it takes as `CalculationService`: every action
is one Tk callback. `Begin`, `Succeed`, `SucceedUnseen` and `Fail` are
`_run_background_calculation` with its callbacks; `Apply` is
`CalculationSession.apply_success`, applied to one of the `Payloads` the worker may
return. The keys test the lock, the windows do not, as in the code. An answer is
represented by the number of the operation that computed it, so that "this comes
from a cancelled operation" can be said of Ans, memory, history, the database and the
next worker's snapshot alike. `cleared` and `disturbed` remember what the user did and
guide no action.

### SettingsStore and ProfileRegister

Every SQL statement of `_connect`, `_migrate` and the public calls is a step, for
several instances of the application. Schema statements commit by themselves, as
they do with Python's `sqlite3`; the first `DELETE` takes the write lock until commit.
Any statement up to the commit may raise (`Abort`) and the process may die between
any two (`Crash`). `Init` ranges over a new file and over what each release left
behind. `ProfileRegister` is the promise: every call takes effect at one instant and
entirely, or not at all.

### SetupDialog

`setup_dialog` captures `s = core.settings` when it is opened, `save` writes to `s` and
saves `core.settings`, and a failed save, a reset or RESET Setup Data replaces
`core.settings`. The module gives settings objects an identity to see which one is
written, saved and used. Beside the windows there are Clear History, which saves
`core.settings` too, and two things that change settings without saving them and leave the LCD as it
is: RESET (`SetupData`) and the angle menu (`SetAngle`, in place). `Relaunch` ends the session
and starts one with what the database holds. `drifted` remembers that settings were
changed without being saved, and guides no action.

### Spreadsheet

`SpreadsheetValues` has no state: addresses, the shift of references when a formula is
copied, the memory a sheet uses, and what each cell evaluates to on its own. A formula is
reduced to the sum over one range, with or without the calculator's memory `x`, and
references keep their dollar signs; a text the engine cannot evaluate is `Broken`. Bytes
are counted per kind of text, not per character.

`SpreadsheetModel` is the object: cells, cache, `dirty_cells`, `needs_recalculation`, the
setting it reads and the memory its formulas read. Each method of the class is an action,
which ends in `_commit_cells` (`Commit`): with automatic calculation all cells are evaluated
and nothing is marked (`Trust`), without it everything is (`Mark`). A call that raises
restores all four attributes, so it is no step. `usedX` remembers the memory of the last
calculation and guides no action.

`SpreadsheetPass` is the pass of `_calculate_cache` as it is carried out, a state machine with one
dictionary of values shared by all cells of the pass (`calculated`). A call of `_value` for a
formula is a frame of the stack; its cells are the set that the code hands down to find circles. Each
early return of `_value` is an action, in the code's order: a value found before (`Reuse`), a
circle, a reference to no cell (`Blank`), a constant, a text that raises; `Enter` begins a formula and
`Leave` ends it. The first error ends the pass. The order in which a caller asks for its cells is
left open, so what is said of the pass holds for the code's order, too.

### Interface, with ExpressionDocument, LcdForms and MathTemplates

`Interface` has one action per Tk callback of the calculator's keys and menus and per
callback of a calculation. Its variables are the mode, the open form (`flow`, that is
`_lcd_flow`), the open template, the entry, the history cursor with what it needs
(`recall`), the history, the running calculation and the sheet. Each handler finds out by
looking at these which one the key is meant for; the guards do so in the handler's order.
A calculation may succeed or fail; what it computes is left to BackgroundCalculation.

The three modules it extends have operators only. `ExpressionDocument` is the list of spans
behind the entry: text, and engineering prefixes that are shown as one character and stand
for a power of ten, so that the text `M` may be a memory or a prefix. Insertion and
deletion split, cut and merge spans as in the code. Beside the spans, `entry.cells` keeps
what was typed, and `SubmittedMeansTyped` compares the two. `LcdForms` has the stages of each mode,
the fields of a stage, what a field accepts, and the step from a complete form to the next
form, to results or to an error. Operations that differ in their formula only are one
option; the count of a Poisson distribution, which the code does not bound, is at most `MaxCount`, 99.
`MathTemplates` numbers the slots of a template and keeps of each slot whether there
is something in it.

Of a text only a few tokens are used; the caret inside a template's slot, labels and the
rows of a result are left out. `lastKey` and `effort` remember and bound what the user did; the
first guides no action.

### Calculus

An operation is asked for (`Ask`), passes through stages, one for each question to SymPy or
quadrature, and ends with a result, a status or an error. Of a function only what
the decisions ask about is kept: its interior singularities and the nature of each end
of each piece. Every question may fail or stay open. Assumed is that limits, finite integrals
and sets of singularities are right when SymPy gives them; not assumed is that an integral
reported as infinite is, of a whole part or of a truncated one, that quadrature notices a pole, or
that anything is answered. The code takes a truncated integral that SymPy reports as infinite for
divergent (`AskTruncated`); `misled` remembers that this answer was given against the function, and
guides no action.

`Record` is `format_result` followed by `_commit_outcome`. Four operations
(`symbolic_integral`, `symbolic_derivative`, `derivative`, `complex_eval`) write Ans before they
format, so that a result too long for the display leaves Ans changed without a record for direct
callers of the engine; the application's worker discards that engine. They are the `Stepwise`
ones, and `AnsHasItsRecord` speaks of the others. Double and triple integrals have no
domain analysis in the code, and complex segments treat a failed query for
singularities as none, so `ValueMeansConvergence` is about integrals of one variable only.

## Runs

| Run | Question | Bounds and why they are enough |
| --- | --- | --- |
| controller | Is every operation settled once, and never stranded? Do workers die? Does the controller implement the service? | Two operations: one whose timers and worker linger, one they could hurt. KillAfter 1 and MaxAttempts 3 keep the order of 20 and 40: a turn before, at and after kill(). Deadlock is off: the application may be closed. |
| background | What do commits, keys, windows, failed saves and restarts leave in Ans, memory, history and database? | Three operations and two history entries of at most two parts each: a commit, a trim and a window action meet in one behaviour. Deadlock is off: the operations are used up. |
| store | Is the database an atomic register during migrations, errors and crashes of two instances? | Two instances race in every statement; two values tell their writes apart. Deadlock is off only because TLC looks for it in temporal runs too; a call is always enabled. |
| setup | When do the engine's settings and the stored ones part, with two SETUP windows beside RESET and the angle menu? What does a failed Save change? | Four settings objects: two windows, a rollback and a reset; a relaunch begins again with one. |
| spreadsheet | Is every value that is not marked right, across copies, fills, failures and Auto Calc? Does sharing values in a pass change anything? | A 2 by 2 grid: references in both directions, a cycle of two, shifts that leave the grid on each side. Two formulas, a constant and a broken text as input; copies and fills derive the others. The memory holds two formulas, or one and a constant, or three constants, so the limit is met. The pass is given every sheet on this grid of seven texts (references and ranges that meet, circles of one to four cells, ranges given from either corner, a constant, a broken text), with either number in `x`, and takes the cells in every order. Deadlock is checked: a pass that is not over can go on. |
| interface | Is what = sends what was typed? Does a line bring back its own document, and ▲ what the guide says? Is there one owner of the keys in every screen? Are systems solved from all coefficients? | All twelve modes with all their stages. A text that is also a prefix's symbol; MaxEffort 3: three keys that bring in something new, of which two can end up in one text around a prefix; or a workflow mode with an answer, a calculation or a template against its next screen. A history of an earlier session with a differential equation and an integral without bounds. HistoryLimit 3 and DocumentLimit 1 are exceeded by the lines of the run. A 2 by 1 sheet: an arrow moves or stays. MaxLayers 1 and MaxLines 2: a last and a next line. |
| calculus | Does a value mean convergence? What does "diverges" rest on? Does Ans have its record? | Two interior singularities: components between two of them and at both ends, with every combination of natures. Two requests and a history of one: a record that is trimmed. |
| orphan_worker | Can a cancelled worker outlive the application though no call fails? (yes) | one operation |
| cleared_history | Can cleared history come back? (yes) | two operations |
| recall | Does ▲ restore all that was filled in? (no, in Complex) | two modes, MaxEffort 2, a history with one integral |
| setup_retry | Can "Settings saved" be said of values that were not? (yes) | one window |
| form_values | Can a form run on other values than it shows? (yes) | Ratio mode, MaxEffort 3 |

The interface run has all modes and all keys, and bounds what is brought in by `MaxEffort`. `Counted` names the keys that MaxEffort bounds: typing, prefixes, DEL, undo, the overwrite key,
starting a calculation, the two calculus keys, and opening or clearing the history list; choosing a
mode costs one, or two if the mode has a workflow, whose screens are the larger part of the
states. Arrows, =, OPTN and AC are not bounded. Deadlock is off since the effort
is used up, and in calculus since the requests are.

Every property of a passing run has a mutant in its module: a definition named in
`PROJECT.json` under `mutants`, with the change a plausible mistake would make and a
comment that names it. TLC finds the property violated once the mutant takes the
definition's place.

## What the runs show

The controller keeps its promises: one `on_finish` per operation, at most one answer,
no stale poll that touches a later operation, no worker signalled while it is active. Every operation
ends, unless the `after()` that re-arms its own `_poll` raises, and every detached worker dies while
the Tk root lives, unless a call that stops this very worker raises. The settings in use and the
stored ones part only by RESET, by the angle menu, and by a failed Save in a window whose object
is no longer in use; the next save brings them together. The
store is an atomic register. What ends in the history came from successful
calculations, in order. The spreadsheet never shows a stale value without its mark, and
the values shared in one pass neither change a result nor hide a cycle. Within the bounds of
the runs, no sequence of keys makes two owners claim them; what = sends from an entry with a document is
what was typed into it by keys, undo and recall (the ∫ and derivative keys are not among them:
they take the displayed text, see the observations); no system of equations is solved from erased
coefficients. No integral of one variable that diverges is given a value, whichever questions SymPy
leaves open; "diverges" is only said where a piece does diverge or where SymPy reports the truncated
integral as infinite, which the code does not question.

Five statements of the documentation, the comments or the dialogs are not true of the
code; each has a run whose counterexample shows it.

1. `orphan_worker`: start, cancel, then close the window before the next callback. `cancel` defers
   `terminate()` to a callback that dies with the Tk root, and `close` does nothing for
   an operation that is no longer active.
2. `cleared_history`: "This cannot be undone" is undone by the commit of a calculation
   that was running. `OnlyWindowsDisturb`, which holds, shows that the windows are
   the only way to it: no key gets through the lock.
3. `setup_retry`: after a failed Save the window writes to an object that the engine no
   longer uses; the next Save reports success and saves the old values.
4. `form_values`: go back to a field of a form with ▲, type another value and leave it with ▼:
   the field shows the new value and the form runs on the old one. `USER_GUIDE.md:182`
   describes exactly this use of the arrows.
5. `recall`: in Complex mode ▲ brings an integral of the history back without its integrand.
   `USER_GUIDE.md:197` says that the history retains the complete expression there, and `:72` that the
   first ▲ is the newest entry. `UpKeepsItsPromise`, which holds, says that nothing else is lost.

### Observations

Met while modelling; each is in the model as the code has it, and no run is about it.

- A poll that finds no data and then a dead worker reports a crash, although the answer came
  in between (`calculation_controller.py:99`).
- A failed load at launch starts with defaults and an empty history, which the next save writes
  over the stored ones (`app.py:406`).
- DMS of a complex value: `float()` raises after the commit, and "Calculating…" stays on an
  unlocked display (`app.py:3646`).
- Escape in a focused template during a calculation closes the template and cancels nothing
  (`app.py:2359`).
- ▲ and ▼ browse the history only from an empty entry (`app.py:2330`); the cursor is not
  reset by the results of CALC, SOLVE, Σ and templates.
- Recalling a template from the history list leaves the list's banner in the entry
  (`app.py:1549`).
- If the `after()` in `_poll` raises, the calculator stays on "Calculating…" until AC, and the worker's
  answer is never read (`calculation_controller.py:101`).
- If a call in `_poll_cleanup` raises, the worker is left to itself: neither killed nor reaped
  (`calculation_controller.py:164`).
- "Settings saved" stays on the LCD while RESET or the angle menu change the settings that were saved
  (`app.py:3687`, `3728`). Two failed Saves of one window leave the engine with the values of the first.
- `_evaluate_improper_component` takes an infinite answer for a truncated integral as a proof of divergence
  (`calculus.py:460`), although the comment above it distrusts such answers about a whole part.
- An engineering prefix loses its meaning when ∫ or the derivative key takes over the displayed text.
- A refused edit of the sheet shows no message; an error while the cursor moves blanks the
  entry, and the next = then erases the cell (`app.py:1995`).
- Undoing a document in an open form leaves the form's entry armed for it; a choice field with an
  invalid draft raises on ▲ and ▼.
- A full row of a matrix that is armed for replacement cannot be replaced by one key
  (`app.py:2188`, against the comment at 1206).
- A sheet does not notice that the memory its formulas use was changed, and two broken cells
  cannot be repaired one after the other while Auto Calc is on.

## Fairness

`CalculationController` assumes that Tk runs every callback that is due (weak fairness
of `Poll`, of `PollAgain \/ PollAgainRaises \/ PollWorkerGone`, which end a handler, and of `PollCleanup`),
that time passes (`Expire`) and that a signalled process dies. It does not assume that a
worker answers, exits by itself, or that anyone cancels, nor that any call of the controller succeeds: the
liveness properties except the operations in `dropped`, for which there is nobody left to act. `SettingsStore` assumes that a
call runs on and that a statement that cannot run raises, which `sqlite3` does after
its five-second lock timeout; no call is assumed to succeed, nor is any lock assumed to
be free. The other modules state no liveness and no fairness.

## Proofs

`CalculationControllerProofs` proves, for every number of operations and every
`KillAfter < MaxAttempts`:

- `TypeCorrect`: `Spec => []TypeOK`.
- `BusyIsPolled`, `OperationsSettleOnce`, `CleanupIsConfined`, `ReportsAreGenuine`: the four
  safety invariants of the controller run.
- `ControllerImplementsService`: `Spec => Service!Spec`, by mapping every action to an
  action of the service or to a stutter.

They rest on the assumption `ControllerAssumption` (the constants are naturals, None is
neither a number nor a response) and on one inductive invariant, `IInv`. None of the
four is inductive alone. That the active operation is polled once needs to know that a
poll callback belongs to a number already given out, so that a new operation never
meets a queued poll of its own number; that on_finish is called once needs to know that
numbers beyond `operationId` are unborn and unfinished; that an answer is genuine needs
to know that a response in the pipe is never replaced. `IInv` is the conjunction of those
facts with the four invariants; `InitIInv` and `NextIInv` show it inductive, with one
step per action, and each theorem is read off `InvariantHolds`. The refinement needs
`IInv` too: `Complete` and `Withdraw` of the service require that the operation was not
done before.

`SpreadsheetProofs` proves, for every grid, every set of inputs and every memory limit:

- `TypeCorrect`: references stay in the grid and no error is cached. Every committed
  candidate is a sheet (`OnlySheetsAreCommitted`), because the fills stay in a rectangle
  between two addresses and shifted formulas are checked.
- `UnmarkedValuesAreRight` and `MarksAgree`. They follow from `IInv`, which says more: marks
  are on all cells or on none, and without marks the cache is the evaluation of the sheet,
  no more and no less. It is established anew by every commit (`TrustEstablishes`,
  `MarkEstablishes`) and kept by what touches neither cells nor cache.
- `OnlyRecalculateRefreshes`: the action property, by the four kinds of steps.
- `MemoryHolds`: every step leaves the cells alone, clears them, or commits cells whose size was
  checked (`StepKinds`). That an empty sheet uses no memory (`NothingUsed`) is read off
  the sums below.

These four use of the evaluation only that it has a value for each cell of the sheet. They rest on
`SpreadsheetAssumption` and `InputAssumption`.

The pass needs the evaluation itself. `Value` is the recursive function that says what a cell is worth when
those of a path are being calculated; nothing is known of it until it is shown to exist:

- `ValuesExist`: the equation it was defined by has a solution, since a path can only grow until it is
  the grid. The tables for smaller and smaller paths are put together, by induction on a set of subsets
  (`SmallestSubset`, `LargestSubset`, from the well-foundedness of strict inclusion).
- `LongerPath`: a longer path only turns values into errors; `UselessOnPath`: a cell that has a value is
  not needed for it. So (`FormulaFromCells`) the value of a formula is its cells' own values put together, which is
  why values may be shared at all.
- `TotalFacts`, `SumsAddLast`: a sum does not depend on the order its elements are added in.

With these, for every grid, every sheet of the texts, every memory and every order of the cells:

- `PassHolds`: `PassSpec => []PassIsRight`. The invariant, `PassInv`, says what a suspended call knows: its sum so far
  is that of the values it was told, and each of them is right (`FrameFits`); each call waits for the one
  above it (`Chained`), no cell is begun twice (`OnceOnPath`) or has its value before it is done
  (`NotFoundYet`), and `evaluated` counts the values found. That a circle is an error of the evaluation, too,
  needs more: if the first formula begun has a value, so have all the others, on the path that leads to them
  (`NoCircleYet`); a cell that is asked for on its own path contradicts this (`CircleShows`).
- `PassEnds`: the action property `PassComesToAnEnd`, on sheets with circles as well. Every step raises, or leaves fewer
  cells to begin, or as many to begin and fewer begun, or as much of both and less to tell the caller.
  Together with the run's deadlock check, which shows that a pass can go on until it is over, this is its
  termination, without any fairness between cells.
- `PassDepth`: `PassSpec => []DepthIsBounded`. Each formula begun takes its share of the sheet's memory (`PathIsStack`, `SumsGrow`,
  `SumsOfEqual`). With `MemoryHolds`, the 1700 bytes of the code bound the recursion: a formula
  takes at least 50 of them, so `_value` is never more than 34 formulas deep, whatever refers to
  whatever.

TLC checked `PassInv`, `PassComesToAnEnd` and `DepthIsBounded` on the instance of the run before they
were proved. Assumed: `SpreadsheetAssumption` and `CandidateAssumption`, that the sheets have addresses
of the grid and texts.

`BackgroundCalculationProofs` proves the six invariants of its run for every number of
operations and every history limit. The engine is written by commits with what the snapshot
held when the calculation began, so what is said of the live engine (that it shows
answered operations only, in order, and overwrites no key) must be said of the snapshot as
well, and that the running operation is later than all that were done (`RunningIsLatest`). The
lemmas about sequences say what a trim, a batch of expressions and its end leave
of an ordered history. Assumed: `BackgroundAssumption` and `NoneIsNoValue`.

`SetupDialogProofs` proves the two invariants and the action property of its run for any number
of windows. `EngineMatchesDatabase` is inductive together with the types: an object that a window
refers to has been created, so no later one is the same.

`SettingsStoreProofs` proves, for any number of instances and values:

- `TypeCorrect`, and `NewerStaysAsItIs`: a database of a later release is not changed.
- `CurrentMeansMigrated`: each connection knows how far it has brought the schema
  (`SchemaIsAhead`), and since tables and columns are never taken away, what one has seen
  stays true whatever the others do and wherever they die.
- `StoreImplementsRegister`: `Spec => Register!Spec`. A call takes effect in the register when it
  commits. `TransactionIsUnderWay` says why: the rows a writer has so far, completed by the
  statements it has yet to execute, are what the call is for, and the lock keeps the committed
  rows as they were when the transaction began.

`CalculusProofs` proves the two invariants and the action property of its run for functions with any
number of singularities. `PointsAreSound` and `AnswersAreSound` say what a partial analysis has
established: the points not in `problems` are harmless, and the components already found to
exist converge. `ValueMeansConvergence` follows when the last component is added.
`DivergenceRestsOnTruncation` (`DivergesByTruncation`) says what "diverges" rests on: a divergent end, or an infinite
truncated integral that SymPy got wrong. That the second does not occur is not assumed, and so not claimed.
The theorems rest on what is assumed of SymPy above, which is in the actions and not in an ASSUME.

`ExpressionDocumentProofs` proves, for documents of any length, what the editing operations of
`expression_document.py` do. A document is `IsDocument` if its spans are texts and known
prefixes; its cells are the flat sequence of characters and prefixes it stands for.

- `DocumentIsItsCells`: what is shown and what is meant can be read off the cells, one by one.
- `CompactKeepsCells`, `SplitAtCutsCells`: merging neighbouring texts changes no cell, and splitting
  cuts the cells exactly at the position, never inside a prefix.
- `InsertionInsertsACell`, `DeletionDeletesACell`: a key inserts one cell at the caret or removes one.

They hold without any assumption. Texts are joined by folds, so each is an induction over the length of the
document; as the provers cannot use induction theorems that take an operator, each is laid out
with the set of lengths for which the claim holds, which contains 0 and with n also n + 1.

`InterfaceProofs` proves, for every set of modes, tokens and restored histories, every effort and
history limit, and grids up to the program's own 5 by 45 (`LastColumn` to 4, `LastRow` to 44, one to three
layers), eight results by three inductive invariants. The first, `IInv`, says what opens what:

- `OneOwnerHolds`: `Spec => []KeysHaveOneOwner`. Not inductive: the solutions of a template of
  equations open an Equation workflow, so such a template must be open in Equation mode only
  (`FitsMode`). This in turn needs that history restores no such template, hence that the list on
  the LCD, the history and the one a calculation brings back contain only what is ever recorded
  (`IsRecorded`), and that a calculus form opens integrals only, hence that its one field
  offers nothing else (`CalculusForm`, `OutcomesOpen`).
- `SlotHolds`: `Spec => []SlotFollowsIndex`, from one lemma per operation on forms
  (`RenderedIsScreen`, `FormBegins`, `FormMoves`, `StoredIsScreen`).
- `CallbackHolds`: `Spec => []CallbackMeetsItsTemplate`.
- `SystemsHold`: the action property `SolvedSystemsAreComplete`; `SystemStep` excludes every key but
  the `=` that has looked at all coefficients.

`IInv` is the conjunction of these parts; `NextIInv` has one lemma per group of keys.

The second, `TypedInv`, builds on `IInv` and says what everything holds:

- `TypeHolds`: `Spec => []TypeOK`. That an index stays in a form that is replaced under it needs all of the
  answers given so far: how many fields a stage has, which row of a matrix comes next and how many slots
  a template opens with depend on sizes that earlier stages asked for. So `FlowTyped` says of each
  workflow what its fields ask (`ProperFields`, one lemma per mode) and that each answer kept
  fits what a later stage takes it for (`FlowValues`, `CompleteValues`, `SizesFollow`). A template restored
  from history has its slots within its size, which is why records must fit their templates (`RecordsFit`).
- `SubmittedHolds`: `Spec => []SubmittedMeansTyped`. Whenever the mode has an entry with a document and no form is open,
  the cells typed are the cells of the document (`Faithful`); the keys that edit both keep this by
  `InsertionInsertsACell` and `DeletionDeletesACell`, and an undo because every item of the undo list did so when it was
  saved (`UndoItem`).
- `DocumentsHold`: `Spec => []DocumentsMatchTheirLines`, by `Known`: a document is kept under the source read from it,
  and keeping it removes the older one of the same line.

The third, `PromiseInv`, says what = and AC leave for the next ▲: the recall flag, a last line that is the
newest record's, or a cursor behind it. `PromiseHolds` is the action property `UpKeepsItsPromise`, by
`UpStep`: the line recalled is shown from its document, so that what it means is the record's source
by `TypedInv`; a template has the slots of its record filled again, and no others but a proposed variable,
by `RestoredShowsInput`, kind by kind.

TLC checked `TypedInv` and `PromiseInv` on instances of the interface before they were proved. Assumed: `FormsAssumption`; `InterfaceAssumption` (the engineering keys have prefixes, the modes are the calculator's, limits are positive);
and `HistoryAssumption`, that a restored history contains kinds which the calculator
records, no more than `HistoryLimit` of them, and templates with no other slots than theirs and, for a
differential equation asked for in full, the equation, the function and the variable.

Only model-checked: liveness (`OperationsEnd`, `DetachedWorkersDie`, `LockIsReleased`) and the absence of
deadlocks, which are out of the prover's reach. Every safety invariant and action property of
the passing runs is a theorem; those of the five runs that show a violation are false.

## Plan

Done: the controller, its service and its proofs; the application around it and its proofs;
the store, its register and the proved refinement; the SETUP windows; the spreadsheet, its pass and the proofs of both; the
interface with its forms, templates, history cursor and document, and the proofs of both; the control
flow of the calculus operations and its proofs.

Left, in this order:

1. Base-N words (32-bit wrapping, with reference definitions over all words of a small width) and
   the settings codec.
2. The isolated CAS worker, which only direct callers of the engine use.

## Not modelled

Numbers and formulas (the parser, SymPy itself, equations, statistics, distributions, regression,
matrices), Base-N words, wording and formatting, the layout of the LCD, fonts and skins,
constants and conversions, packaging and scripts: pure functions over floating point or text, or I/O
without state. Tolerances and step sizes of the numerical calculus are left out. Legacy formats
of history entries and the codec of single settings are not modelled; a row is represented by
the value it was saved from. `recv` raising anything but `EOFError`, `OSError` or `ValueError` is
left out, since no operation is known to return a payload that pickles and does not unpickle.
Within BackgroundCalculation the matrices, vectors and settings object of the engine are not
modelled, since a payload carries none of them. Within the interface the result rows, the labels,
the caret of a template's slot, and the substitution of spreadsheet values as text are not
modelled; the CONST window and the SETUP windows are not composed with the keys.
