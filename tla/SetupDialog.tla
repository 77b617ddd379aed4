---------------------------- MODULE SetupDialog ----------------------------
(***************************************************************************)
(* app.py, setup_dialog: the SETUP windows, the settings object each of     *)
(* them captured when it was opened, and the one the engine uses now.       *)
(*                                                                         *)
(* The point of the module is which object a name refers to, so settings     *)
(* objects have an identity and one value. SETUP windows are not modal: two  *)
(* can be open, and RESET's "Setup Data" and the angle menu can be used       *)
(* beside them. Both leave the LCD as it is and save nothing.                *)
(***************************************************************************)
EXTENDS Naturals

CONSTANTS Windows,     \* the SETUP windows a user opens
          Values,      \* what a settings object can hold
          Default,     \* what CalculatorSettings() holds
          MaxObjects,  \* bound on the settings objects created
          None

ASSUME SetupAssumption ==
  Default \in Values /\ None \notin Values /\ MaxObjects \in Nat \ {0}

VARIABLES
  heap,     \* the value of every settings object created so far
  objects,  \* how many were created
  current,  \* core.settings
  window,   \* the object s of each open window, and the values it shows
  stored,   \* the calculator settings in the database
  report,   \* what the LCD says of the last Save, and what its window showed
  drifted   \* auxiliary: the engine's settings were changed without being saved, by
            \* RESET or the angle menu, or by a window whose s was no longer in use

vars == <<heap, objects, current, window, stored, report, drifted>>

Objects == 1..MaxObjects
Silent == [says |-> "nothing", shown |-> None]

\* vars(self.core.settings), which save_settings_file saves.
Used == heap[current]

Init ==
  /\ heap = [o \in Objects |-> Default]
  /\ objects = 1
  /\ current = 1
  /\ window = [w \in Windows |-> None]
  /\ stored = Default
  /\ report = Silent
  /\ drifted = FALSE

Open(w) ==
  /\ window[w] = None
  /\ window' = [window EXCEPT ![w] = [s |-> current, shows |-> Used]]
  /\ UNCHANGED <<heap, objects, current, stored, report, drifted>>

Choose(w, v) ==
  /\ window[w] # None
  /\ window' = [window EXCEPT ![w] = [s |-> @.s, shows |-> v]]
  /\ UNCHANGED <<heap, objects, current, stored, report, drifted>>

\* The window manager closes the window.
Dismiss(w) ==
  /\ window[w] # None
  /\ window' = [window EXCEPT ![w] = None]
  /\ UNCHANGED <<heap, objects, current, stored, report, drifted>>

\* Mutant of SaveSucceeds: the values of the window are saved, not the engine's.
SaveSucceedsFromWindow(w) ==
  LET s == window[w].s
      v == window[w].shows IN
  /\ window[w] # None
  /\ heap' = [heap EXCEPT ![s] = v]
  /\ stored' = v
  /\ report' = [says |-> "saved", shown |-> v]
  /\ window' = [window EXCEPT ![w] = None]
  /\ drifted' = FALSE
  /\ UNCHANGED <<objects, current>>

\* The values are set on s; the engine's settings are saved.
SaveSucceeds(w) ==
  LET s == window[w].s
      v == window[w].shows IN
  /\ window[w] # None
  /\ heap' = [heap EXCEPT ![s] = v]
  /\ stored' = heap'[current]
  /\ report' = [says |-> "saved", shown |-> v]
  /\ window' = [window EXCEPT ![w] = None]
  /\ drifted' = FALSE
  /\ UNCHANGED <<objects, current>>

\* Mutant of SaveFails: original_settings is s itself, not a copy of it.
SaveFailsWithoutCopy(w) ==
  LET s == window[w].s
      v == window[w].shows IN
  /\ window[w] # None
  /\ heap' = [heap EXCEPT ![s] = v]
  /\ current' = s
  /\ report' = [says |-> "error", shown |-> v]
  /\ UNCHANGED <<objects, window, stored, drifted>>

\* save_settings_file returns False: the engine gets the copy of s made before.
SaveFails(w) ==
  LET s == window[w].s
      v == window[w].shows
      original == objects + 1 IN
  /\ window[w] # None
  /\ objects < MaxObjects
  /\ heap' = [heap EXCEPT ![s] = v, ![original] = heap[s]]
  /\ objects' = original
  /\ current' = original
  /\ report' = [says |-> "error", shown |-> v]
  /\ drifted' = (drifted \/ s # current)
  /\ UNCHANGED <<window, stored>>

\* core.settings = type(core.settings)()
Renew ==
  /\ objects < MaxObjects
  /\ heap' = [heap EXCEPT ![objects + 1] = Default]
  /\ objects' = objects + 1
  /\ current' = objects + 1

\* Mutant of ResetToDefaults: a table without rows is not read as the defaults.
ResetLeavesNothing(w) ==
  /\ window[w] # None
  /\ Renew
  /\ stored' = None
  /\ report' = Silent
  /\ window' = [window EXCEPT ![w] = None]
  /\ drifted' = FALSE

\* Reset to Defaults, when the database can be cleared; nothing happens otherwise.
ResetToDefaults(w) ==
  /\ window[w] # None
  /\ Renew
  /\ stored' = Default
  /\ report' = Silent
  /\ window' = [window EXCEPT ![w] = None]
  /\ drifted' = FALSE

\* RESET, "Setup Data" and "Initialize All": nothing is saved, and the LCD goes on
\* saying what it said.
SetupData == Renew /\ drifted' = TRUE /\ UNCHANGED <<window, stored, report>>

\* set_angle: the object the engine uses is changed in place, and with it the s of a
\* window that was opened on it.
SetAngle(v) ==
  /\ heap' = [heap EXCEPT ![current] = v]
  /\ drifted' = TRUE
  /\ UNCHANGED <<objects, current, window, stored, report>>

\* save_settings_file on the way to something else, which may fail.
SaveQuietly ==
  \/ stored' = Used /\ drifted' = FALSE
  \/ UNCHANGED <<stored, drifted>>

\* Clear History, in a SETUP window, and what the LCD says of that.
ClearHistory(w) ==
  /\ window[w] # None
  /\ SaveQuietly
  /\ report' = Silent
  /\ UNCHANGED <<heap, objects, current, window>>

\* Closing the calculator or the ON key, and the launch that follows: one settings
\* object, with what the database holds.
Relaunch ==
  /\ stored' \in {Used, stored}
  /\ heap' = [o \in Objects |-> stored']
  /\ objects' = 1
  /\ current' = 1
  /\ window' = [w \in Windows |-> None]
  /\ report' = Silent
  /\ drifted' = FALSE

Next ==
  \/ \E w \in Windows :
       \/ Open(w)
       \/ \E v \in Values : Choose(w, v)
       \/ Dismiss(w)
       \/ SaveSucceeds(w)
       \/ SaveFails(w)
       \/ ResetToDefaults(w)
       \/ ClearHistory(w)
  \/ SetupData
  \/ \E v \in Values : SetAngle(v)
  \/ Relaunch

Spec == Init /\ [][Next]_vars

-----------------------------------------------------------------------------
\* Every window refers to an object that was created.
TypeOK ==
  /\ heap \in [Objects -> Values]
  /\ objects \in Objects
  /\ current \in 1..objects
  /\ window \in [Windows -> [s : 1..objects, shows : Values] \cup {None}]
  /\ stored \in Values
  /\ report \in [says : {"nothing", "saved", "error"}, shown : Values \cup {None}]
  /\ drifted \in BOOLEAN

\* A Save that fails changes no setting the engine uses, though it has already set
\* them on the object the engine was using: what is put back is a copy. Only a
\* window whose object was replaced meanwhile, by a failed Save of its own to
\* begin with, puts back something else.
FailedSaveChangesNothing ==
  [][\A w \in Windows : SaveFails(w) /\ window[w].s = current => Used' = Used]_vars

\* What the engine uses is what the database holds and the next launch will use, after
\* saves that succeed and saves that fail alike, in however many windows. They only
\* part where a setting is changed without a Save, by RESET or the angle menu, and
\* where a Save fails in a window whose object the engine no longer uses. The next
\* save that succeeds brings them together, whichever window it comes from.
EngineMatchesDatabase == ~drifted => stored = Used

\* "If saving or resetting fails, the SETUP window remains usable ... it does not
\* claim that the operation succeeded" (USER_GUIDE.md): a Save after one that failed
\* says "Settings saved" of the values its window shows. The code breaks it: the
\* window still sets s, which the engine no longer uses.
SavedIsWhatWasShown ==
  [][report.says = "error" /\ report'.says = "saved" => stored' = report'.shown]_vars
=============================================================================
