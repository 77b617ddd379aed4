------------------------- MODULE CalculationService -------------------------
(***************************************************************************)
(* What the calculator asks of its background calculations, without        *)
(* processes, pipes or timers: at most one calculation runs, every accepted *)
(* one is finished exactly once, and a finished one carries the single      *)
(* answer reported for it, or none when it was withdrawn.                  *)
(*                                                                         *)
(* CalculationController is shown to implement this module.                *)
(***************************************************************************)
EXTENDS Naturals

CONSTANTS Operations,  \* operation numbers, handed out in increasing order
          Answers,     \* the kinds of answer an operation can be given
          None         \* no operation, no answer

VARIABLES running,  \* the operation in progress, or None
          done,     \* the operations whose on_finish was called
          result    \* the answer each operation was given

serviceVars == <<running, done, result>>

Init ==
  /\ running = None
  /\ done = {}
  /\ result = [i \in Operations |-> None]

\* A later operation than all the finished ones begins.
Accept(i) ==
  /\ running = None
  /\ \A j \in done : j < i
  /\ running' = i
  /\ UNCHANGED <<done, result>>

\* The operation is finished without having been accepted: its start failed.
Reject(i) ==
  /\ running = None
  /\ \A j \in done : j < i
  /\ done' = done \cup {i}
  /\ UNCHANGED <<running, result>>

\* The running operation is answered and finished.
Complete(i, a) ==
  /\ running = i
  /\ running' = None
  /\ done' = done \cup {i}
  /\ result' = [result EXCEPT ![i] = a]

\* The running operation is cancelled: finished, never answered.
Withdraw(i) ==
  /\ running = i
  /\ running' = None
  /\ done' = done \cup {i}
  /\ UNCHANGED result

Next ==
  \E i \in Operations :
    \/ Accept(i)
    \/ Reject(i)
    \/ Withdraw(i)
    \/ \E a \in Answers : Complete(i, a)

Spec == Init /\ [][Next]_serviceVars
=============================================================================
