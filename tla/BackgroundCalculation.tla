----------------------- MODULE BackgroundCalculation -----------------------
(***************************************************************************)
(* app.py around a background calculation: the key that starts it, the      *)
(* input lock, the callbacks that commit its payload, and everything that   *)
(* can happen to Ans, memory and history meanwhile.                        *)
(*                                                                         *)
(* Composes CalculationService (what the controller promises) with the      *)
(* live engine, the worker's snapshot of it and the history in settings.db. *)
(* Every action is one Tk callback, so nothing interleaves inside it. The   *)
(* SETUP, RESET and CONV windows are not modal and not locked: opened        *)
(* beforehand, in any number, they are in reach during a calculation.       *)
(*                                                                         *)
(* An answer is represented by the operation that computed it. 0 stands for *)
(* a value no background operation computed: zero, a conversion, Base-N, nCr.*)
(***************************************************************************)
EXTENDS Naturals, Sequences

CONSTANTS Operations,    \* the background calculations of a behaviour, numbered
          HistoryLimit,  \* the 10 of _commit_outcome and SettingsStore.HISTORY_LIMIT
          MaxParts,      \* bound on the expressions of one colon-separated line
          None

ASSUME BackgroundAssumption ==
  /\ Operations \subseteq Nat \ {0}
  /\ HistoryLimit \in Nat \ {0}
  /\ MaxParts \in Nat \ {0}
  /\ None \notin Nat

Answers == {"ok", "input_error", "timeout", "crash"}

\* What the engine can hold: values by their operation, and its history.
Tokens == Operations \cup {0}
Entries == [op : Tokens, part : 1..MaxParts, of : 1..MaxParts]
Histories == UNION {[1..n -> Entries] : n \in 0..HistoryLimit}
Engines == [ans : Tokens, memory : Tokens, history : Histories]

ASSUME NoneIsNoValue == None \notin Engines \cup Answers

VARIABLES
  running, done, result,  \* the controller, see CalculationService
  snapshot,  \* the engine state in the request of the running operation
  ans,       \* core.ans
  memory,    \* core.memory, as the last operation or key that wrote it
  history,   \* core.history
  stored,    \* the calculation_history table
  input,     \* "locked" while _calculation_busy
  lcd,       \* the last label: "calculating", "cleared" or anything else
  template,  \* whether an integral or derivative template has the focus
  app,       \* "up" from launch until the window is closed or the process dies
  \* What a user remembers, to state properties with:
  cleared,   \* operations finished when "History cleared" was last reported
  disturbed  \* the operation during which a window last changed the engine

serviceVars == <<running, done, result>>
engineVars == <<ans, memory, history>>
userVars == <<cleared, disturbed>>
vars == <<serviceVars, snapshot, engineVars, stored, input, lcd, template, app,
          userVars>>

Controller == INSTANCE CalculationService

Idle == running = None
Live == [ans |-> ans, memory |-> memory, history |-> history]

\* A key is obeyed: _skin_click, _physical_keypress and equals test the lock.
KeyObeyed == app = "up" /\ input = "open"

-----------------------------------------------------------------------------
(***************************************************************************)
(* The engine: history entries and what a successful operation returns.    *)
(***************************************************************************)

\* Entry k of the n one evaluate call records.
Batch(i, n) == [k \in 1..n |-> [op |-> i, part |-> k, of |-> n]]

\* Mutant of Newest: del self.history[:-10] is missing.
NewestKeepsAll(h) == h

Newest(h) ==
  IF Len(h) > HistoryLimit THEN SubSeq(h, Len(h) - HistoryLimit + 1, Len(h)) ELSE h

\* What run_calculation may return for i, started from snapshot s.
Payloads(i, s) ==
  \* A divergent integral, an undecided limit: an answer without a record.
  {s}
  \* A complex derivative that does not exist is recorded but leaves Ans.
  \cup {[s EXCEPT !.history = Newest(@ \o Batch(i, 1))]}
  \* evaluate, calculus, summation, solve_ode
  \cup {[s EXCEPT !.ans = i, !.history = Newest(@ \o Batch(i, n))] : n \in 1..MaxParts}
  \* solve, evaluate_with_values
  \cup {[ans |-> i, memory |-> i, history |-> Newest(s.history \o Batch(i, 1))]}

\* Mutant of Apply: the worker's history is appended to the live one.
ApplyExtends(p) ==
  /\ ans' = p.ans
  /\ memory' = p.memory
  /\ history' = Newest(history \o p.history)

\* CalculationSession.apply_success
Apply(p) ==
  /\ ans' = p.ans
  /\ memory' = p.memory
  /\ history' = p.history

\* A write to the database takes place, or raises and changes nothing.
MaySave(h) == stored' \in {h, stored}

Init ==
  /\ Controller!Init
  /\ snapshot = None
  /\ ans = 0
  /\ memory = 0
  /\ history = <<>>
  /\ stored = <<>>
  /\ input = "open"
  /\ lcd = "other"
  /\ template = "none"
  /\ app = "up"
  /\ cleared = {}
  /\ disturbed = None

-----------------------------------------------------------------------------
(***************************************************************************)
(* _run_background_calculation and its callbacks.                          *)
(***************************************************************************)

Begin(i) ==
  /\ KeyObeyed
  /\ Controller!Accept(i)
  /\ snapshot' = Live
  /\ input' = "locked"
  /\ lcd' = "calculating"
  /\ UNCHANGED <<engineVars, stored, template, app, userVars>>

\* The start is refused before on_start, or rolled back after it; err either way.
BeginFails(i) ==
  /\ KeyObeyed
  /\ UNCHANGED serviceVars \/ Controller!Reject(i)
  /\ lcd' = "other"
  /\ UNCHANGED <<snapshot, engineVars, stored, input, template, app, userVars>>

\* on_success of a template operation closes its template.
Succeed(i) ==
  /\ Controller!Complete(i, "ok")
  /\ \E p \in Payloads(i, snapshot) : Apply(p)
  /\ MaySave(history')
  /\ snapshot' = None
  /\ input' = "open"
  /\ lcd' = "other"
  /\ template' \in {template, "none"}
  /\ UNCHANGED <<app, userVars>>

\* on_success raises once the payload is applied: show_dms of a complex value.
\* finish still runs; nothing is displayed and nothing is saved.
SucceedUnseen(i) ==
  /\ Controller!Complete(i, "ok")
  /\ \E n \in 1..MaxParts :
       Apply([snapshot EXCEPT !.ans = i, !.history = Newest(@ \o Batch(i, n))])
  /\ snapshot' = None
  /\ input' = "open"
  /\ UNCHANGED <<stored, lcd, template, app, userVars>>

\* Mutant of Fail: the payload of a calculation that timed out is committed.
FailCommits(i, a) ==
  /\ a # "ok"
  /\ Controller!Complete(i, a)
  /\ \E p \in Payloads(i, snapshot) : Apply(p)
  /\ snapshot' = None
  /\ input' = "open"
  /\ lcd' = "other"
  /\ UNCHANGED <<stored, template, app, userVars>>

Fail(i, a) ==
  /\ a # "ok"
  /\ Controller!Complete(i, a)
  /\ snapshot' = None
  /\ input' = "open"
  /\ lcd' = "other"
  /\ UNCHANGED <<engineVars, stored, template, app, userVars>>

-----------------------------------------------------------------------------
(***************************************************************************)
(* Keys.                                                                   *)
(***************************************************************************)

\* The controller's cancel or close, and the on_finish it calls.
Withdraw ==
  IF Idle
    THEN UNCHANGED <<serviceVars, snapshot, input>>
    ELSE /\ Controller!Withdraw(running)
         /\ snapshot' = None
         /\ input' = "open"

\* Mutant of AcKey: the controller is cancelled, on_finish is not called.
AcKeyKeepsLock ==
  /\ app = "up"
  /\ IF Idle THEN UNCHANGED <<serviceVars, snapshot>>
             ELSE Controller!Withdraw(running) /\ snapshot' = None
  /\ template' = "none"
  /\ lcd' = "other"
  /\ UNCHANGED <<engineVars, stored, input, app, userVars>>

\* ac_key: AC, or Escape while the entry has the focus.
AcKey ==
  /\ app = "up"
  /\ Withdraw
  /\ template' = "none"
  /\ lcd' = "other"
  /\ UNCHANGED <<engineVars, stored, app, userVars>>

OpenTemplate ==
  /\ KeyObeyed
  /\ template = "none"
  /\ template' = "open"
  /\ UNCHANGED <<serviceVars, snapshot, engineVars, stored, input, lcd, app, userVars>>

\* _template_keypress: the focused template takes Escape; no lock is tested.
EscapeInTemplate ==
  /\ app = "up"
  /\ template = "open"
  /\ template' = "none"
  /\ UNCHANGED <<serviceVars, snapshot, engineVars, stored, input, lcd, app, userVars>>

\* Mutant of Store: the key is obeyed during a calculation.
StoreUnlocked ==
  /\ app = "up"
  /\ memory' = ans
  /\ lcd' = "other"
  /\ UNCHANGED <<serviceVars, snapshot, ans, history, stored, input, template,
                 app, userVars>>

\* STO, M+ and M-: core.store; a table leaves its last argument in x.
Store ==
  /\ KeyObeyed
  /\ memory' \in {ans, 0}
  /\ lcd' = "other"
  /\ UNCHANGED <<serviceVars, snapshot, ans, history, stored, input, template,
                 app, userVars>>

\* The Base-N branch of equals and base_operation.
BaseN ==
  /\ KeyObeyed
  /\ ans' = 0
  /\ lcd' = "other"
  /\ UNCHANGED <<serviceVars, snapshot, memory, history, stored, input, template,
                 app, userVars>>

\* comb_dialog: nPr and nCr are evaluated by the application's own engine.
Combination ==
  /\ KeyObeyed
  /\ ans' = 0
  /\ history' = Newest(history \o Batch(0, 1))
  /\ MaySave(history')
  /\ lcd' = "other"
  /\ UNCHANGED <<serviceVars, snapshot, memory, input, template, app, userVars>>

-----------------------------------------------------------------------------
(***************************************************************************)
(* The windows that stay open beside the calculator.                       *)
(***************************************************************************)

WindowAction ==
  /\ app = "up"
  /\ disturbed' = running
  /\ UNCHANGED <<serviceVars, snapshot, input, template, app>>

\* SETUP, Save
SaveSetup ==
  /\ app = "up"
  /\ MaySave(history)
  /\ lcd' = "other"
  /\ UNCHANGED <<serviceVars, snapshot, engineVars, input, template, app, userVars>>

\* Mutant of ClearHistory: reported without looking at what the save returned.
ClearHistoryUnchecked ==
  /\ WindowAction
  /\ history' = <<>>
  /\ MaySave(<<>>)
  /\ lcd' = "cleared"
  /\ cleared' = done
  /\ UNCHANGED <<ans, memory>>

\* SETUP, Clear History; on a failed save the entries are put back.
ClearHistory ==
  /\ WindowAction
  /\ \/ /\ history' = <<>>
        /\ stored' = <<>>
        /\ lcd' = "cleared"
        /\ cleared' = done
     \/ /\ lcd' = "other"
        /\ UNCHANGED <<history, stored, cleared>>
  /\ UNCHANGED <<ans, memory>>

\* SETUP, Reset to Defaults: the database first, and nothing else if that fails.
ResetToDefaults ==
  /\ WindowAction
  /\ lcd' = "other"
  /\ \/ /\ history' = <<>>
        /\ stored' = <<>>
     \/ UNCHANGED <<history, stored>>
  /\ UNCHANGED <<ans, memory, cleared>>

\* RESET, Memory
ResetMemory ==
  /\ WindowAction
  /\ ans' = 0
  /\ memory' = 0
  /\ UNCHANGED <<history, stored, lcd, cleared>>

\* RESET, Initialize All: the database keeps its history until the next save.
InitializeAll ==
  /\ WindowAction
  /\ ans' = 0
  /\ memory' = 0
  /\ history' = <<>>
  /\ UNCHANGED <<stored, lcd, cleared>>

\* CONV, Convert
Convert ==
  /\ WindowAction
  /\ ans' = 0
  /\ lcd' = "other"
  /\ UNCHANGED <<memory, history, stored, cleared>>

-----------------------------------------------------------------------------
(***************************************************************************)
(* The life of the application.                                            *)
(***************************************************************************)

\* _on_close, and the first half of _restart_application.
CloseWindow ==
  /\ app = "up"
  /\ Withdraw
  /\ MaySave(history)
  /\ app' = "down"
  /\ UNCHANGED <<engineVars, lcd, template, userVars>>

\* The process is killed; no callback runs. Its worker counts for nothing.
Die ==
  /\ app = "up"
  /\ Withdraw
  /\ app' = "down"
  /\ UNCHANGED <<engineVars, stored, lcd, template, userVars>>

\* A new instance: load_calculation_history, or an empty one if that fails.
Launch ==
  /\ app = "down"
  /\ app' = "up"
  /\ ans' = 0
  /\ memory' = 0
  /\ history' \in {stored, <<>>}
  /\ lcd' = "other"
  /\ template' = "none"
  /\ UNCHANGED <<serviceVars, snapshot, stored, input, userVars>>

Next ==
  \/ \E i \in Operations :
       \/ Begin(i)
       \/ BeginFails(i)
       \/ Succeed(i)
       \/ SucceedUnseen(i)
       \/ \E a \in Answers : Fail(i, a)
  \/ AcKey
  \/ OpenTemplate
  \/ EscapeInTemplate
  \/ Store
  \/ BaseN
  \/ Combination
  \/ SaveSetup
  \/ ClearHistory
  \/ ResetToDefaults
  \/ ResetMemory
  \/ InitializeAll
  \/ Convert
  \/ CloseWindow
  \/ Die
  \/ Launch

Spec == Init /\ [][Next]_vars

-----------------------------------------------------------------------------
(***************************************************************************)
(* Properties.                                                             *)
(***************************************************************************)

\* The live state, the snapshot and the table hold what the engine and the store
\* can hold; no history is longer than the limit, whatever commits reach it.
TypeOK ==
  /\ running \in Operations \cup {None}
  /\ done \subseteq Operations
  /\ result \in [Operations -> Answers \cup {None}]
  /\ snapshot \in Engines \cup {None}
  /\ Live \in Engines
  /\ stored \in Histories
  /\ input \in {"open", "locked"}
  /\ lcd \in {"calculating", "cleared", "other"}
  /\ template \in {"none", "open"}
  /\ app \in {"up", "down"}
  /\ cleared \subseteq Operations
  /\ disturbed \in Operations \cup {None}

Recorded(h) == {h[k].op : k \in DOMAIN h}

\* "timed-out and cancelled results are never added to history or Ans": what is
\* in Ans, memory, the history, the database or a worker's snapshot comes from
\* an operation that was answered "ok", through every restart and stale commit.
OnlySuccessesRecorded ==
  \A i \in Operations :
    \/ result[i] = "ok"
    \/ /\ i \notin {ans, memory} \cup Recorded(history) \cup Recorded(stored)
       /\ snapshot # None =>
            i \notin {snapshot.ans, snapshot.memory} \cup Recorded(snapshot.history)

\* The entries of one colon-separated line follow each other up to the last, and
\* the calculations follow each other in the order they were made; only the
\* oldest line can have lost its first entries, to the limit.
InOrder(h) ==
  \A k \in DOMAIN h :
    \/ h[k].part = h[k].of
    \/ /\ k < Len(h)
       /\ h[k + 1] = [h[k] EXCEPT !.part = @ + 1]

Chronological(h) ==
  \A j, k \in DOMAIN h : j < k /\ h[k].op # 0 =>
    \/ h[j].op < h[k].op
    \/ h[j].op = h[k].op /\ h[j].part < h[k].part

\* History and database are in order: replacing the live history by the worker's
\* copy never duplicates, reorders or tears what one calculation recorded.
HistoryInOrder ==
  /\ InOrder(history) /\ Chronological(history)
  /\ InOrder(stored) /\ Chronological(stored)

\* Input is locked exactly while the controller is busy, whichever way the
\* operation ended: _calculation_busy and controller.busy are two flags.
LockFollowsController ==
  /\ input = "locked" <=> ~Idle
  /\ snapshot # None <=> ~Idle

\* While "History cleared" is displayed the database has none: neither a failed
\* save reported as a success, nor a later write that leaves the label there.
ClearedMessageIsTrue ==
  app = "up" /\ lcd = "cleared" => stored = <<>>

\* The commit of a calculation overwrites the engine with a copy taken when it
\* began. That loses nothing unless one of the windows was used meanwhile: no key
\* gets through the lock and changes the engine.
OnlyWindowsDisturb ==
  ~Idle /\ disturbed # running => snapshot = Live

\* "Delete the saved calculation history? This cannot be undone." (setup_dialog)
\* The code breaks it: a calculation that was running then brings the entries back.
ClearedHistoryStaysCleared ==
  Recorded(history) \cap cleared = {}
=============================================================================
