------------------------- MODULE SetupDialogProofs -------------------------
(***************************************************************************)
(* Proofs about SetupDialog for any number of windows, values and settings  *)
(* objects: no window refers to an object that does not exist, the database  *)
(* holds what the engine uses until a setting is changed without a Save, and  *)
(* a failed Save puts back what the engine used.                            *)
(***************************************************************************)
EXTENDS SetupDialog, TLAPS

\* The inductive invariant.
IInv == TypeOK /\ EngineMatchesDatabase

\* Objects that exist go on existing when one more is created.
LEMMA OneMoreObject ==
  ASSUME TypeOK, objects < MaxObjects
  PROVE  /\ objects + 1 \in Objects
         /\ window \in [Windows -> [s : 1..(objects + 1), shows : Values] \cup {None}]
<1>1. objects + 1 \in Objects
  BY SetupAssumption DEF TypeOK, Objects
<1>2. [s : 1..objects, shows : Values] \subseteq [s : 1..(objects + 1), shows : Values]
  BY <1>1, SetupAssumption DEF TypeOK, Objects
<1> QED
  BY <1>1, <1>2 DEF TypeOK

\* An open window refers to an object that was created, and shows values.
LEMMA OpenWindows ==
  ASSUME TypeOK, NEW w \in Windows, window[w] # None
  PROVE  window[w].s \in 1..objects /\ window[w].s \in Objects /\ window[w].shows \in Values
<1>1. window[w] \in [s : 1..objects, shows : Values]
  BY DEF TypeOK
<1> QED
  BY <1>1, SetupAssumption DEF TypeOK, Objects

\* A new settings object holds the defaults.
LEMMA RenewTypes ==
  ASSUME TypeOK, Renew
  PROVE  /\ heap' \in [Objects -> Values] /\ objects' \in Objects /\ current' \in 1..objects'
         /\ heap'[current'] = Default /\ objects' = objects + 1 /\ objects < MaxObjects
<1>1. objects + 1 \in Objects
  BY OneMoreObject DEF Renew
<1> QED
  BY <1>1, SetupAssumption DEF Renew, TypeOK, Objects

\* What the LCD says when it says nothing of settings.
LEMMA SilentTypes == Silent \in [says : {"nothing", "saved", "error"}, shown : Values \cup {None}]
  BY DEF Silent

\* What the engine uses is a value.
LEMMA UsedTypes ==
  ASSUME TypeOK
  PROVE  Used \in Values /\ current \in Objects
<1>1. current \in Objects
  BY SetupAssumption DEF TypeOK, Objects
<1> QED
  BY <1>1 DEF TypeOK, Used

LEMMA InitIInv == Init => IInv
<1> SUFFICES ASSUME Init PROVE IInv
  OBVIOUS
<1>1. 1 \in Objects /\ heap = [o \in Objects |-> Default]
  BY SetupAssumption DEF Init, Objects
<1>2. heap \in [Objects -> Values] /\ heap[1] = Default
  BY <1>1, SetupAssumption
<1>3. window \in [Windows -> [s : 1..1, shows : Values] \cup {None}]
  BY DEF Init
<1>4. report \in [says : {"nothing", "saved", "error"}, shown : Values \cup {None}]
  BY SilentTypes DEF Init
<1>5. drifted \in BOOLEAN
  BY DEF Init
<1>6. TypeOK
  <2>1. objects \in Objects /\ current \in 1..objects /\ stored \in Values
    BY <1>1, SetupAssumption DEF Init
  <2>2. window \in [Windows -> [s : 1..objects, shows : Values] \cup {None}]
    BY <1>3 DEF Init
  <2> QED
    BY <1>2, <1>4, <1>5, <2>1, <2>2 DEF TypeOK
<1> QED
  BY <1>2, <1>6 DEF Init, IInv, EngineMatchesDatabase, Used

\* One step per action of the windows, and RESET, the angle menu and a relaunch.
LEMMA NextIInv == IInv /\ [Next]_vars => IInv'
<1> SUFFICES ASSUME IInv, [Next]_vars PROVE IInv'
  OBVIOUS
<1> USE DEF IInv, EngineMatchesDatabase, Used
<1>1. ASSUME NEW w \in Windows, Open(w) PROVE IInv'
  <2>1. [s |-> current, shows |-> heap[current]] \in [s : 1..objects, shows : Values]
    BY SetupAssumption DEF TypeOK, Objects
  <2>2. window' \in [Windows -> [s : 1..objects, shows : Values] \cup {None}]
    BY <1>1, <2>1 DEF Open, TypeOK
  <2> QED
    BY <1>1, <2>2 DEF Open, TypeOK
<1>2. ASSUME NEW w \in Windows, NEW v \in Values, Choose(w, v) PROVE IInv'
  BY <1>2, OpenWindows DEF Choose, TypeOK
<1>3. ASSUME NEW w \in Windows, Dismiss(w) PROVE IInv'
  BY <1>3 DEF Dismiss, TypeOK
<1>4. ASSUME NEW w \in Windows, SaveSucceeds(w) PROVE IInv'
  <2>1. window[w].s \in Objects /\ window[w].shows \in Values /\ current \in Objects
    BY <1>4, OpenWindows, SetupAssumption DEF SaveSucceeds, TypeOK, Objects
  <2>2. heap' \in [Objects -> Values] /\ stored' = heap'[current] /\ current' = current
    BY <1>4, <2>1 DEF SaveSucceeds, TypeOK
  <2>3. stored' \in Values
    BY <2>1, <2>2
  <2> QED
    BY <1>4, <2>1, <2>2, <2>3 DEF SaveSucceeds, TypeOK
<1>5. ASSUME NEW w \in Windows, SaveFails(w) PROVE IInv'
  <2>1. window[w].s \in Objects /\ window[w].shows \in Values
    BY <1>5, OpenWindows DEF SaveFails
  <2>2. /\ objects + 1 \in Objects
        /\ window \in [Windows -> [s : 1..(objects + 1), shows : Values] \cup {None}]
    BY <1>5, OneMoreObject DEF SaveFails
  <2>3. heap' \in [Objects -> Values]
    BY <1>5, <2>1, <2>2 DEF SaveFails, TypeOK
  <2>4. TypeOK'
    BY <1>5, <2>1, <2>2, <2>3, SetupAssumption DEF SaveFails, TypeOK, Objects
  <2>5. ASSUME ~drifted' PROVE stored' = heap'[current']
    <3>1. ~drifted /\ window[w].s = current /\ stored' = stored /\ current' = objects + 1
      BY <1>5, <2>5 DEF SaveFails, TypeOK
    <3>2. heap'[objects + 1] = heap[current]
      BY <1>5, <2>2, <3>1 DEF SaveFails, TypeOK
    <3> QED
      BY <3>1, <3>2
  <2> QED
    BY <2>4, <2>5
<1>6. ASSUME NEW w \in Windows, ResetToDefaults(w) PROVE IInv'
  BY <1>6, RenewTypes, OneMoreObject, SetupAssumption DEF ResetToDefaults, TypeOK, Silent
<1>7. ASSUME NEW w \in Windows, ClearHistory(w) PROVE IInv'
  <2>1. report' \in [says : {"nothing", "saved", "error"}, shown : Values \cup {None}]
    BY <1>7, SilentTypes DEF ClearHistory
  <2>2. CASE stored' = Used /\ drifted' = FALSE
    <3>1. stored' \in Values /\ drifted' \in BOOLEAN
      BY <2>2, UsedTypes
    <3> QED
      BY <1>7, <2>1, <2>2, <3>1 DEF ClearHistory, TypeOK
  <2>3. CASE UNCHANGED <<stored, drifted>>
    BY <1>7, <2>1, <2>3 DEF ClearHistory, TypeOK
  <2> QED
    BY <1>7, <2>2, <2>3 DEF ClearHistory, SaveQuietly
<1>8. CASE SetupData
  BY <1>8, RenewTypes, OneMoreObject DEF SetupData, TypeOK
<1>9. ASSUME NEW v \in Values, SetAngle(v) PROVE IInv'
  BY <1>9 DEF SetAngle, TypeOK
<1>10. CASE Relaunch
  <2>1. stored' \in Values /\ heap' = [o \in Objects |-> stored'] /\ 1 \in Objects
    BY <1>10, UsedTypes, SetupAssumption DEF Relaunch, TypeOK, Objects
  <2>2. heap' \in [Objects -> Values] /\ heap'[1] = stored'
    BY <2>1
  <2>3. window' \in [Windows -> [s : 1..1, shows : Values] \cup {None}]
    BY <1>10 DEF Relaunch
  <2>4. report' \in [says : {"nothing", "saved", "error"}, shown : Values \cup {None}]
    BY <1>10, SilentTypes DEF Relaunch
  <2>5. drifted' \in BOOLEAN /\ objects' = 1 /\ current' = 1
    BY <1>10 DEF Relaunch
  <2>6. window' \in [Windows -> [s : 1..objects', shows : Values] \cup {None}]
    BY <2>3, <2>5
  <2>7. current' \in 1..objects'
    BY <2>5
  <2>8. TypeOK'
    BY <2>1, <2>2, <2>4, <2>5, <2>6, <2>7 DEF TypeOK
  <2> QED
    BY <2>2, <2>5, <2>8
<1>11. CASE UNCHANGED vars
  BY <1>11 DEF vars, TypeOK
<1> QED
  BY <1>1, <1>2, <1>3, <1>4, <1>5, <1>6, <1>7, <1>8, <1>9, <1>10, <1>11 DEF Next

LEMMA InvariantHolds == Spec => []IInv
  BY InitIInv, NextIInv, PTL DEF Spec

\* Every window, and the engine, refers to a settings object that was created
\* (setup_dialog's s and core.settings).
THEOREM TypeCorrect == Spec => []TypeOK
<1>1. IInv => TypeOK
  BY DEF IInv
<1> QED
  BY <1>1, InvariantHolds, PTL

\* The database holds what the engine uses, after every Save, Reset to Defaults, Clear
\* History and relaunch, whether they succeed or fail, until RESET or the angle menu
\* changes a setting or a Save fails in a window whose object was replaced.
THEOREM DatabaseMatchesEngine == Spec => []EngineMatchesDatabase
<1>1. IInv => EngineMatchesDatabase
  BY DEF IInv
<1> QED
  BY <1>1, InvariantHolds, PTL

\* A Save that fails has set the values on the object the engine uses; the engine gets
\* a copy made before, and uses the same values as if nothing had happened.
THEOREM FailuresChangeNothing == Spec => FailedSaveChangesNothing
<1> DEFINE Restores == \A w \in Windows : SaveFails(w) /\ window[w].s = current => Used' = Used
<1>1. IInv /\ [Next]_vars => [Restores]_vars
  <2> SUFFICES ASSUME IInv, NEW w \in Windows, SaveFails(w), window[w].s = current
               PROVE  Used' = Used
    OBVIOUS
  <2>1. /\ current \in Objects /\ objects + 1 \in Objects
        /\ current # objects + 1
    BY OpenWindows, OneMoreObject, SetupAssumption DEF SaveFails, IInv, TypeOK, Objects
  <2>2. heap'[objects + 1] = heap[current] /\ current' = objects + 1
    BY <2>1 DEF SaveFails, IInv, TypeOK
  <2> QED
    BY <2>2 DEF Used
<1>2. [][Restores]_vars <=> FailedSaveChangesNothing
  BY DEF FailedSaveChangesNothing
<1> QED
  BY <1>1, <1>2, InvariantHolds, PTL DEF Spec
=============================================================================
