-------------------- MODULE CalculationControllerProofs --------------------
(***************************************************************************)
(* Proofs about CalculationController for every number of operations and   *)
(* every pair of cleanup limits: type correctness, the four safety         *)
(* invariants of the run, and that the controller implements               *)
(* CalculationService.                                                     *)
(*                                                                         *)
(* The invariants are not inductive by themselves. They need to know that   *)
(* nothing exists yet for a number that was not handed out, that the active *)
(* operation has a live, unanswered worker record, that only its own _poll  *)
(* can be half-way, and that a response is only ever found in the pipe of a *)
(* worker that is past its computation.                                    *)
(***************************************************************************)
EXTENDS CalculationController, TLAPS

\* No trace of an operation number that has not been handed out.
FreshOperations ==
  \A id \in Operations :
    id > operationId => /\ worker[id] = "unborn"
                        /\ id \notin polls
                        /\ cleanup[id] = None
                        /\ signal[id] = "none"
                        /\ pipe[id] = None
                        /\ answer[id] = None

\* The active operation was handed out, its worker is there, it has no answer yet.
ActiveIsOpen ==
  Busy => /\ activeId <= operationId
          /\ worker[activeId] \in {"computing", "closing", "exited"}
          /\ answer[activeId] = None

\* Only the poll of the active operation can be between its two questions.
MidPollIsActive == midPoll # None => midPoll = activeId

\* A response is in the pipe only after the worker is done computing.
ResponseEndsComputing ==
  \A id \in Operations : pipe[id] # None => worker[id] # "computing"

\* The inductive invariant.
IInv ==
  /\ TypeOK
  /\ FreshOperations
  /\ ActiveIsOpen
  /\ MidPollIsActive
  /\ ResponseEndsComputing
  /\ NeverStranded
  /\ SettledOnce
  /\ CleanupOwnsOnlyDetached
  /\ AnswersAreGenuine

-----------------------------------------------------------------------------
\* Leaving an operation keeps the types of what its callbacks are given.
LEMMA DetachTypes ==
  ASSUME TypeOK, NEW id \in Operations, NEW a \in Responses \cup {None}, Detach(id, a)
  PROVE  /\ activeId' = None
         /\ deadline' \in {"ahead", "passed"}
         /\ answer' \in [Operations -> Responses \cup {None}]
         /\ answers' \in [Operations -> Nat]
         /\ finishes' \in [Operations -> Nat]
  BY DEF TypeOK, Detach

\* Queueing a cleanup, or terminating at once, keeps the types of timers and signals.
LEMMA ScheduleTypes ==
  ASSUME TypeOK, NEW id \in Operations, NEW stage \in {"wait", "terminate"},
         ScheduleCleanup(id, stage)
  PROVE  /\ cleanup' \in [Operations -> CleanupTimers \cup {None}]
         /\ signal' \in [Operations -> {"none", "term", "kill"}]
         /\ dropped' \subseteq Operations
  BY DEF TypeOK, ScheduleCleanup, CleanupTimers

\* The number a start hands out is one of the operations.
LEMMA NextNumber ==
  ASSUME operationId \in Nat, operationId < MaxOperationId
  PROVE  operationId + 1 \in Operations
  BY ControllerAssumption DEF Operations

\* The controller's variables keep their types in every behaviour (all of
\* calculation_controller.py).
THEOREM TypeCorrect == Spec => []TypeOK
<1>1. Init => TypeOK
  BY DEF Init, TypeOK, WorkerStates
<1>2. TypeOK /\ [Next]_vars => TypeOK'
  <2> SUFFICES ASSUME TypeOK, [Next]_vars PROVE TypeOK'
    OBVIOUS
  <2> USE DEF TypeOK, TkIdle, Busy, ghostVars
  <2>1. CASE StartFails
    BY <2>1 DEF StartFails
  <2>2. CASE Start
    BY <2>2, NextNumber DEF Start, WorkerStates
  <2>3. CASE StartRollsBack
    BY <2>3, NextNumber DEF StartRollsBack, WorkerStates, CleanupTimers
  <2>4. CASE PollAgain
    BY <2>4 DEF PollAgain
  <2>5. CASE PollWorkerGone
    BY <2>5, DetachTypes, ScheduleTypes DEF PollWorkerGone, Responses
  <2>6. CASE Cancel
    BY <2>6, DetachTypes, ScheduleTypes DEF Cancel
  <2>7. CASE Close
    BY <2>7, DetachTypes DEF Close, CloseActive, WorkerStates
  <2>8. CASE Shutdown
    BY <2>8, DetachTypes DEF Shutdown, CloseActive, WorkerStates
  <2>9. CASE Expire
    BY <2>9 DEF Expire
  <2>10. ASSUME NEW id \in Operations, PollStale(id) PROVE TypeOK'
    BY <2>10 DEF PollStale
  <2>11. ASSUME NEW id \in Operations, PollTimeout(id) PROVE TypeOK'
    BY <2>11, DetachTypes, ScheduleTypes DEF PollTimeout, Responses
  <2>12. ASSUME NEW id \in Operations, PollReceive(id) PROVE TypeOK'
    BY <2>12, DetachTypes, ScheduleTypes DEF PollReceive, Responses
  <2>13. ASSUME NEW id \in Operations, PollNoData(id) PROVE TypeOK'
    BY <2>13 DEF PollNoData
  <2>14. ASSUME NEW id \in Operations, CleanupReaps(id) PROVE TypeOK'
    BY <2>14 DEF CleanupReaps, WorkerStates
  <2>15. ASSUME NEW id \in Operations, CleanupRetries(id) PROVE TypeOK'
    BY <2>15 DEF CleanupRetries, CleanupTimers
  <2>16. ASSUME NEW id \in Operations, CleanupGivesUp(id) PROVE TypeOK'
    BY <2>16 DEF CleanupGivesUp
  <2>17. ASSUME NEW id \in Operations, WorkerResponds(id) PROVE TypeOK'
    BY <2>17 DEF WorkerResponds, WorkerStates
  <2>18. ASSUME NEW id \in Operations, WorkerExits(id) PROVE TypeOK'
    BY <2>18 DEF WorkerExits, WorkerStates
  <2>19. CASE PollAgainRaises
    BY <2>19 DEF PollAgainRaises
  <2>20. ASSUME NEW id \in Operations, CleanupFails(id) PROVE TypeOK'
    BY <2>20 DEF CleanupFails
  <2>21. CASE UNCHANGED vars
    BY <2>21 DEF vars
  <2> QED
    BY <2>1, <2>2, <2>3, <2>4, <2>5, <2>6, <2>7, <2>8, <2>9, <2>10, <2>11,
       <2>12, <2>13, <2>14, <2>15, <2>16, <2>17, <2>18, <2>19, <2>20, <2>21 DEF Next
<1> QED
  BY <1>1, <1>2, PTL DEF Spec

-----------------------------------------------------------------------------
\* What the assumptions say of None, of the numbers and of the limits.
LEMMA ConstantFacts ==
  /\ None \notin Operations
  /\ None \notin Responses
  /\ Operations \subseteq Nat
  /\ 0 <= MaxAttempts
  BY ControllerAssumption DEF Operations

\* Scheduling a cleanup concerns one worker only.
LEMMA ScheduleTouchesOne ==
  ASSUME TypeOK, NEW id \in Operations, NEW stage \in {"wait", "terminate"},
         ScheduleCleanup(id, stage), NEW other \in Operations, other # id
  PROVE  cleanup'[other] = cleanup[other] /\ signal'[other] = signal[other]
  BY DEF TypeOK, ScheduleCleanup

\* A fresh controller, as __init__ leaves it, satisfies the inductive invariant.
LEMMA InitIInv == Init => IInv
<1> SUFFICES ASSUME Init PROVE IInv
  OBVIOUS
<1>1. TypeOK
  BY DEF Init, TypeOK, WorkerStates
<1>2. FreshOperations /\ ActiveIsOpen /\ MidPollIsActive /\ ResponseEndsComputing
  BY DEF Init, FreshOperations, ActiveIsOpen, MidPollIsActive,
         ResponseEndsComputing, Busy
<1>3. NeverStranded /\ SettledOnce
  BY ConstantFacts DEF Init, NeverStranded, SettledOnce, Busy
<1>4. CleanupOwnsOnlyDetached /\ AnswersAreGenuine
  BY ConstantFacts DEF Init, CleanupOwnsOnlyDetached, AnswersAreGenuine, Busy, Responses
<1> QED
  BY <1>1, <1>2, <1>3, <1>4 DEF IInv

\* Every handler of the controller and every step around it preserves it.
LEMMA NextIInv == IInv /\ TypeOK' /\ [Next]_vars => IInv'
<1> SUFFICES ASSUME IInv, TypeOK', [Next]_vars PROVE IInv'
  OBVIOUS
<1> USE ConstantFacts DEF IInv, TypeOK, TkIdle, Busy, ghostVars
<1>1. CASE StartFails
  <2>1. FreshOperations' /\ ActiveIsOpen'
    BY <1>1 DEF StartFails,
      FreshOperations, ActiveIsOpen
  <2>2. MidPollIsActive' /\ NeverStranded'
    BY <1>1 DEF StartFails,
      MidPollIsActive, NeverStranded, ActiveIsOpen
  <2>3. SettledOnce'
    BY <1>1 DEF StartFails,
      SettledOnce, ActiveIsOpen, FreshOperations
  <2>4. CleanupOwnsOnlyDetached'
    BY <1>1 DEF StartFails,
      CleanupOwnsOnlyDetached, ActiveIsOpen, FreshOperations
  <2>5. ResponseEndsComputing' /\ AnswersAreGenuine'
    BY <1>1 DEF StartFails,
      Responses, ResponseEndsComputing, AnswersAreGenuine, ActiveIsOpen, FreshOperations
  <2> QED
    BY <2>1, <2>2, <2>3, <2>4, <2>5
<1>2. CASE Start
  <2>1. FreshOperations' /\ ActiveIsOpen'
    BY <1>2, NextNumber DEF Start,
      FreshOperations, ActiveIsOpen
  <2>2. MidPollIsActive' /\ NeverStranded'
    BY <1>2, NextNumber DEF Start,
      MidPollIsActive, NeverStranded, ActiveIsOpen
  <2>3. SettledOnce'
    BY <1>2, NextNumber DEF Start,
      SettledOnce, ActiveIsOpen, FreshOperations
  <2>4. CleanupOwnsOnlyDetached'
    BY <1>2, NextNumber DEF Start,
      CleanupOwnsOnlyDetached, ActiveIsOpen, FreshOperations
  <2>5. ResponseEndsComputing' /\ AnswersAreGenuine'
    BY <1>2, NextNumber DEF Start,
      Responses, ResponseEndsComputing, AnswersAreGenuine, ActiveIsOpen, FreshOperations
  <2> QED
    BY <2>1, <2>2, <2>3, <2>4, <2>5
<1>3. CASE StartRollsBack
  <2>1. FreshOperations' /\ ActiveIsOpen'
    BY <1>3, NextNumber DEF StartRollsBack,
      FreshOperations, ActiveIsOpen
  <2>2. MidPollIsActive' /\ NeverStranded'
    BY <1>3, NextNumber DEF StartRollsBack,
      MidPollIsActive, NeverStranded, ActiveIsOpen
  <2>3. SettledOnce'
    BY <1>3, NextNumber DEF StartRollsBack,
      SettledOnce, ActiveIsOpen, FreshOperations
  <2>4. CleanupOwnsOnlyDetached'
    BY <1>3, NextNumber DEF StartRollsBack,
      CleanupOwnsOnlyDetached, ActiveIsOpen, FreshOperations
  <2>5. ResponseEndsComputing' /\ AnswersAreGenuine'
    BY <1>3, NextNumber DEF StartRollsBack,
      Responses, ResponseEndsComputing, AnswersAreGenuine, ActiveIsOpen, FreshOperations
  <2> QED
    BY <2>1, <2>2, <2>3, <2>4, <2>5
<1>4. CASE PollAgain
  BY <1>4 DEF PollAgain,
    FreshOperations, ActiveIsOpen, MidPollIsActive, ResponseEndsComputing, NeverStranded, SettledOnce, CleanupOwnsOnlyDetached, AnswersAreGenuine
<1>5. CASE PollWorkerGone
  <2>1. FreshOperations' /\ ActiveIsOpen'
    BY <1>5 DEF PollWorkerGone, Detach, ScheduleCleanup, Responses,
      FreshOperations, ActiveIsOpen, MidPollIsActive
  <2>2. MidPollIsActive' /\ NeverStranded'
    BY <1>5 DEF PollWorkerGone, Detach, ScheduleCleanup, Responses,
      MidPollIsActive, NeverStranded, ActiveIsOpen
  <2>3. SettledOnce'
    BY <1>5 DEF PollWorkerGone, Detach, ScheduleCleanup, Responses,
      SettledOnce, ActiveIsOpen, FreshOperations, MidPollIsActive
  <2>4. CleanupOwnsOnlyDetached'
    BY <1>5 DEF PollWorkerGone, Detach, ScheduleCleanup, Responses,
      CleanupOwnsOnlyDetached, ActiveIsOpen, FreshOperations, MidPollIsActive
  <2>5. ResponseEndsComputing' /\ AnswersAreGenuine'
    BY <1>5 DEF PollWorkerGone, Detach, ScheduleCleanup, Responses, IsAlive,
      WorkerStates, ResponseEndsComputing, AnswersAreGenuine, ActiveIsOpen, FreshOperations, MidPollIsActive
  <2> QED
    BY <2>1, <2>2, <2>3, <2>4, <2>5
<1>6. CASE Cancel
  <2>1. FreshOperations' /\ ActiveIsOpen'
    <3>1. activeId \in Operations /\ activeId <= operationId
      BY <1>6 DEF Cancel, ActiveIsOpen
    <3>2. \A id \in Operations : id > operationId' => id > operationId /\ id # activeId
      BY <1>6, <3>1 DEF Cancel
    <3>3. FreshOperations'
      BY <1>6, <3>1, <3>2, ScheduleTouchesOne DEF Cancel, Detach, FreshOperations
    <3> QED
      BY <1>6, <3>3 DEF Cancel, Detach, ActiveIsOpen
  <2>2. MidPollIsActive' /\ NeverStranded'
    BY <1>6 DEF Cancel, Detach, ScheduleCleanup,
      MidPollIsActive, NeverStranded, ActiveIsOpen
  <2>3. SettledOnce'
    BY <1>6 DEF Cancel, Detach, ScheduleCleanup,
      SettledOnce, ActiveIsOpen, FreshOperations
  <2>4. CleanupOwnsOnlyDetached'
    BY <1>6 DEF Cancel, Detach, ScheduleCleanup,
      CleanupOwnsOnlyDetached, ActiveIsOpen, FreshOperations
  <2>5. ResponseEndsComputing' /\ AnswersAreGenuine'
    BY <1>6 DEF Cancel, Detach, ScheduleCleanup,
      Responses, ResponseEndsComputing, AnswersAreGenuine, ActiveIsOpen, FreshOperations
  <2> QED
    BY <2>1, <2>2, <2>3, <2>4, <2>5
<1>7. CASE Close
  <2>1. FreshOperations' /\ ActiveIsOpen'
    BY <1>7 DEF Close, CloseActive, Detach,
      FreshOperations, ActiveIsOpen
  <2>2. MidPollIsActive' /\ NeverStranded'
    BY <1>7 DEF Close, CloseActive, Detach,
      MidPollIsActive, NeverStranded, ActiveIsOpen
  <2>3. SettledOnce'
    BY <1>7 DEF Close, CloseActive, Detach,
      SettledOnce, ActiveIsOpen, FreshOperations
  <2>4. CleanupOwnsOnlyDetached'
    BY <1>7 DEF Close, CloseActive, Detach,
      CleanupOwnsOnlyDetached, ActiveIsOpen, FreshOperations
  <2>5. ResponseEndsComputing' /\ AnswersAreGenuine'
    BY <1>7 DEF Close, CloseActive, Detach,
      Responses, ResponseEndsComputing, AnswersAreGenuine, ActiveIsOpen, FreshOperations
  <2> QED
    BY <2>1, <2>2, <2>3, <2>4, <2>5
<1>8. CASE Shutdown
  <2>1. FreshOperations' /\ ActiveIsOpen'
    BY <1>8 DEF Shutdown, CloseActive, Detach,
      FreshOperations, ActiveIsOpen
  <2>2. MidPollIsActive' /\ NeverStranded'
    BY <1>8 DEF Shutdown, CloseActive, Detach,
      MidPollIsActive, NeverStranded, ActiveIsOpen
  <2>3. SettledOnce'
    BY <1>8 DEF Shutdown, CloseActive, Detach,
      SettledOnce, ActiveIsOpen, FreshOperations
  <2>4. CleanupOwnsOnlyDetached'
    BY <1>8 DEF Shutdown, CloseActive, Detach,
      CleanupOwnsOnlyDetached, ActiveIsOpen, FreshOperations
  <2>5. ResponseEndsComputing' /\ AnswersAreGenuine'
    BY <1>8 DEF Shutdown, CloseActive, Detach,
      Responses, ResponseEndsComputing, AnswersAreGenuine, ActiveIsOpen, FreshOperations
  <2> QED
    BY <2>1, <2>2, <2>3, <2>4, <2>5
<1>9. CASE Expire
  BY <1>9 DEF Expire,
    FreshOperations, ActiveIsOpen, MidPollIsActive, ResponseEndsComputing, NeverStranded, SettledOnce, CleanupOwnsOnlyDetached, AnswersAreGenuine
<1>10. ASSUME NEW id \in Operations, PollStale(id) PROVE IInv'
  BY <1>10 DEF PollStale,
    FreshOperations, ActiveIsOpen, MidPollIsActive, ResponseEndsComputing, NeverStranded, SettledOnce, CleanupOwnsOnlyDetached, AnswersAreGenuine
<1>11. ASSUME NEW id \in Operations, PollTimeout(id) PROVE IInv'
  <2>1. FreshOperations' /\ ActiveIsOpen'
    BY <1>11 DEF PollTimeout, Detach, ScheduleCleanup, Responses,
      FreshOperations, ActiveIsOpen
  <2>2. MidPollIsActive' /\ NeverStranded'
    BY <1>11 DEF PollTimeout, Detach, ScheduleCleanup, Responses,
      MidPollIsActive, NeverStranded, ActiveIsOpen
  <2>3. SettledOnce'
    BY <1>11 DEF PollTimeout, Detach, ScheduleCleanup, Responses,
      SettledOnce, ActiveIsOpen, FreshOperations
  <2>4. CleanupOwnsOnlyDetached'
    BY <1>11 DEF PollTimeout, Detach, ScheduleCleanup, Responses,
      CleanupOwnsOnlyDetached, ActiveIsOpen, FreshOperations
  <2>5. ResponseEndsComputing' /\ AnswersAreGenuine'
    BY <1>11 DEF PollTimeout, Detach, ScheduleCleanup, Responses,
      ResponseEndsComputing, AnswersAreGenuine, ActiveIsOpen, FreshOperations
  <2> QED
    BY <2>1, <2>2, <2>3, <2>4, <2>5
<1>12. ASSUME NEW id \in Operations, PollReceive(id) PROVE IInv'
  <2>1. FreshOperations' /\ ActiveIsOpen'
    BY <1>12 DEF PollReceive, Detach, ScheduleCleanup, Readable, Responses,
      FreshOperations, ActiveIsOpen
  <2>2. MidPollIsActive' /\ NeverStranded'
    BY <1>12 DEF PollReceive, Detach, ScheduleCleanup, Readable, Responses,
      MidPollIsActive, NeverStranded, ActiveIsOpen
  <2>3. SettledOnce'
    BY <1>12 DEF PollReceive, Detach, ScheduleCleanup, Readable, Responses,
      SettledOnce, ActiveIsOpen, FreshOperations
  <2>4. CleanupOwnsOnlyDetached'
    BY <1>12 DEF PollReceive, Detach, ScheduleCleanup, Readable, Responses,
      CleanupOwnsOnlyDetached, ActiveIsOpen, FreshOperations
  <2>5. ResponseEndsComputing' /\ AnswersAreGenuine'
    BY <1>12 DEF PollReceive, Detach, ScheduleCleanup, Readable, Responses,
      ResponseEndsComputing, AnswersAreGenuine, ActiveIsOpen, FreshOperations
  <2> QED
    BY <2>1, <2>2, <2>3, <2>4, <2>5
<1>13. ASSUME NEW id \in Operations, PollNoData(id) PROVE IInv'
  BY <1>13 DEF PollNoData,
    FreshOperations, ActiveIsOpen, MidPollIsActive, ResponseEndsComputing, NeverStranded, SettledOnce, CleanupOwnsOnlyDetached, AnswersAreGenuine
<1>14. ASSUME NEW id \in Operations, CleanupReaps(id) PROVE IInv'
  BY <1>14 DEF CleanupReaps, IsAlive, WorkerStates,
    FreshOperations, ActiveIsOpen, MidPollIsActive, ResponseEndsComputing, NeverStranded, SettledOnce, CleanupOwnsOnlyDetached, AnswersAreGenuine
<1>15. ASSUME NEW id \in Operations, CleanupRetries(id) PROVE IInv'
  <2>1. FreshOperations' /\ ActiveIsOpen'
    BY <1>15 DEF CleanupRetries, IsAlive,
      FreshOperations, ActiveIsOpen
  <2>2. MidPollIsActive' /\ NeverStranded'
    BY <1>15 DEF CleanupRetries, IsAlive,
      MidPollIsActive, NeverStranded, ActiveIsOpen
  <2>3. SettledOnce'
    BY <1>15 DEF CleanupRetries, IsAlive,
      SettledOnce, ActiveIsOpen, FreshOperations
  <2>4. CleanupOwnsOnlyDetached'
    <3>1. cleanup[id] \in CleanupTimers
      BY <1>15 DEF CleanupRetries
    <3>2. cleanup[id].attempts \in Nat /\ cleanup[id].attempts + 1 <= MaxAttempts
      BY <1>15, <3>1, ControllerAssumption DEF CleanupRetries, CleanupTimers
    <3>3. id # activeId
      BY <1>15 DEF CleanupRetries, CleanupOwnsOnlyDetached
    <3>4. \A other \in Operations : other # id =>
            cleanup'[other] = cleanup[other] /\ signal'[other] = signal[other]
      BY <1>15 DEF CleanupRetries
    <3>5. /\ cleanup'[id].attempts <= MaxAttempts
          /\ cleanup'[id].stage = "killed" => signal'[id] = "kill"
          /\ worker'[id] \in {"computing", "closing", "exited"}
      BY <1>15, <3>1, <3>2 DEF CleanupRetries, IsAlive, CleanupOwnsOnlyDetached, TermOnFirstTurn
    <3> QED
      BY <1>15, <3>3, <3>4, <3>5 DEF CleanupRetries, CleanupOwnsOnlyDetached
  <2>5. ResponseEndsComputing' /\ AnswersAreGenuine'
    BY <1>15 DEF CleanupRetries, IsAlive,
      Responses, ResponseEndsComputing, AnswersAreGenuine, ActiveIsOpen, FreshOperations
  <2> QED
    BY <2>1, <2>2, <2>3, <2>4, <2>5
<1>16. ASSUME NEW id \in Operations, CleanupGivesUp(id) PROVE IInv'
  BY <1>16 DEF CleanupGivesUp, IsAlive,
    FreshOperations, ActiveIsOpen, MidPollIsActive, ResponseEndsComputing, NeverStranded, SettledOnce, CleanupOwnsOnlyDetached, AnswersAreGenuine
<1>17. ASSUME NEW id \in Operations, WorkerResponds(id) PROVE IInv'
  <2>1. FreshOperations' /\ ActiveIsOpen'
    BY <1>17 DEF WorkerResponds,
      FreshOperations, ActiveIsOpen
  <2>2. MidPollIsActive' /\ NeverStranded'
    BY <1>17 DEF WorkerResponds,
      MidPollIsActive, NeverStranded, ActiveIsOpen
  <2>3. SettledOnce'
    BY <1>17 DEF WorkerResponds,
      SettledOnce, ActiveIsOpen, FreshOperations
  <2>4. CleanupOwnsOnlyDetached'
    BY <1>17 DEF WorkerResponds,
      CleanupOwnsOnlyDetached, ActiveIsOpen, FreshOperations
  <2>5. ResponseEndsComputing' /\ AnswersAreGenuine'
    BY <1>17 DEF WorkerResponds,
      Responses, ResponseEndsComputing, AnswersAreGenuine, ActiveIsOpen, FreshOperations
  <2> QED
    BY <2>1, <2>2, <2>3, <2>4, <2>5
<1>18. ASSUME NEW id \in Operations, WorkerExits(id) PROVE IInv'
  <2>1. FreshOperations' /\ ActiveIsOpen'
    BY <1>18 DEF WorkerExits, IsAlive,
      FreshOperations, ActiveIsOpen
  <2>2. MidPollIsActive' /\ NeverStranded'
    BY <1>18 DEF WorkerExits, IsAlive,
      MidPollIsActive, NeverStranded, ActiveIsOpen
  <2>3. SettledOnce'
    BY <1>18 DEF WorkerExits, IsAlive,
      SettledOnce, ActiveIsOpen, FreshOperations
  <2>4. CleanupOwnsOnlyDetached'
    BY <1>18 DEF WorkerExits, IsAlive,
      CleanupOwnsOnlyDetached, ActiveIsOpen, FreshOperations
  <2>5. ResponseEndsComputing' /\ AnswersAreGenuine'
    BY <1>18 DEF WorkerExits, IsAlive,
      Responses, ResponseEndsComputing, AnswersAreGenuine, ActiveIsOpen, FreshOperations
  <2> QED
    BY <2>1, <2>2, <2>3, <2>4, <2>5
<1>19. CASE PollAgainRaises
  BY <1>19 DEF PollAgainRaises,
    FreshOperations, ActiveIsOpen, MidPollIsActive, ResponseEndsComputing, NeverStranded, SettledOnce, CleanupOwnsOnlyDetached, AnswersAreGenuine
<1>20. ASSUME NEW id \in Operations, CleanupFails(id) PROVE IInv'
  <2>1. id # activeId
    BY <1>20 DEF CleanupFails, CleanupOwnsOnlyDetached
  <2>2. \A other \in Operations : other # id =>
          cleanup'[other] = cleanup[other] /\ signal'[other] = signal[other]
    BY <1>20 DEF CleanupFails
  <2>3. cleanup'[id] = None /\ id <= operationId
    BY <1>20 DEF CleanupFails, FreshOperations
  <2>4. UNCHANGED <<operationId, activeId, polls, midPoll, worker, pipe, answer, answers, finishes, scheduler>>
    BY <1>20 DEF CleanupFails
  <2>5. FreshOperations'
    BY <2>2, <2>3, <2>4 DEF FreshOperations
  <2>6. ActiveIsOpen' /\ MidPollIsActive' /\ ResponseEndsComputing'
    BY <2>4 DEF ActiveIsOpen, MidPollIsActive, ResponseEndsComputing
  <2>7. NeverStranded'
    <3>1. dropped \subseteq dropped'
      BY <1>20 DEF CleanupFails
    <3> QED
      BY <3>1, <2>4 DEF NeverStranded
  <2>8. SettledOnce' /\ AnswersAreGenuine'
    BY <2>4 DEF SettledOnce, AnswersAreGenuine
  <2>9. CleanupOwnsOnlyDetached'
    BY <2>1, <2>2, <2>3, <2>4 DEF CleanupOwnsOnlyDetached
  <2> QED
    BY <2>5, <2>6, <2>7, <2>8, <2>9
<1>21. CASE UNCHANGED vars
  BY <1>21 DEF vars,
    FreshOperations, ActiveIsOpen, MidPollIsActive, ResponseEndsComputing, NeverStranded, SettledOnce, CleanupOwnsOnlyDetached, AnswersAreGenuine
<1> QED
  BY <1>1, <1>2, <1>3, <1>4, <1>5, <1>6, <1>7, <1>8, <1>9, <1>10, <1>11,
     <1>12, <1>13, <1>14, <1>15, <1>16, <1>17, <1>18, <1>19, <1>20, <1>21 DEF Next

\* Hence it holds in every state of every behaviour.
LEMMA InvariantHolds == Spec => []IInv
<1> QED
  BY TypeCorrect, InitIInv, NextIInv, PTL DEF Spec

\* While an operation is active its _poll is queued or running (_poll re-arms
\* itself on every path that does not settle the operation, if after() lets it).
THEOREM BusyIsPolled == Spec => []NeverStranded
<1>1. IInv => NeverStranded
  BY DEF IInv
<1> QED
  BY <1>1, InvariantHolds, PTL

\* Every operation is finished exactly once and answered at most once (_detach
\* takes the callbacks away before they are called).
THEOREM OperationsSettleOnce == Spec => []SettledOnce
<1>1. IInv => SettledOnce
  BY DEF IInv
<1> QED
  BY <1>1, InvariantHolds, PTL

\* _poll_cleanup never touches the worker of the active operation, nor one whose
\* Process object is closed.
THEOREM CleanupIsConfined == Spec => []CleanupOwnsOnlyDetached
<1>1. IInv => CleanupOwnsOnlyDetached
  BY DEF IInv
<1> QED
  BY <1>1, InvariantHolds, PTL

\* _finish_success passes on only what the operation's worker sent, and
\* WorkerCrashed is never reported while it computes.
THEOREM ReportsAreGenuine == Spec => []AnswersAreGenuine
<1>1. IInv => AnswersAreGenuine
  BY DEF IInv
<1> QED
  BY <1>1, InvariantHolds, PTL

-----------------------------------------------------------------------------
\* What a handler that leaves the operation does to the three service variables.
LEMMA DetachIsServiceStep ==
  ASSUME IInv, activeId \in Operations, NEW a \in Responses \cup {None},
         Detach(activeId, a)
  PROVE  Service!Next
<1> DEFINE Done == {id \in Operations : finishes[id] = 1}
           DonePrimed == {id \in Operations : finishes'[id] = 1}
<1> USE DEF IInv
<1>1. activeId # None
  BY ConstantFacts
<1>2. finishes[activeId] = 0
  BY <1>1 DEF SettledOnce
<1>3. DonePrimed = Done \cup {activeId}
  BY <1>2 DEF Detach, TypeOK
<1>4. activeId' = None
  BY DEF Detach
<1>5. CASE a = None
  <2>1. answer' = answer
    BY <1>5 DEF Detach
  <2>2. Service!Withdraw(activeId)
    BY <1>3, <1>4, <2>1 DEF Service!Withdraw
  <2> QED
    BY <2>2 DEF Service!Next, Service!Withdraw
<1>6. CASE a # None
  <2>1. answer' = [answer EXCEPT ![activeId] = a]
    BY <1>6 DEF Detach
  <2>2. Service!Complete(activeId, a)
    BY <1>3, <1>4, <2>1 DEF Service!Complete
  <2> QED
    BY <1>6, <2>2 DEF Service!Next
<1> QED
  BY <1>5, <1>6

\* Operations that are done were handed out before: the next number is later.
LEMMA NextNumberIsLater ==
  ASSUME IInv, operationId < MaxOperationId
  PROVE  \A j \in {id \in Operations : finishes[id] = 1} : j < operationId + 1
<1> SUFFICES ASSUME NEW j \in Operations, finishes[j] = 1
             PROVE  j < operationId + 1
  OBVIOUS
<1>1. worker[j] # "unborn"
  BY DEF IInv, SettledOnce
<1>2. ~(j > operationId)
  BY <1>1 DEF IInv, FreshOperations
<1> QED
  BY <1>2, ConstantFacts DEF IInv, TypeOK

\* A step that changes no callback count and no answer, and keeps the operation.
LEMMA QuietStep ==
  ASSUME UNCHANGED <<activeId, finishes, answer>>
  PROVE  UNCHANGED Service!serviceVars
  BY DEF Service!serviceVars

\* The controller implements CalculationService: at most one operation runs,
\* numbers grow, and each is withdrawn or answered once.
THEOREM ControllerImplementsService == Spec => ImplementsService
<1>1. Init => Service!Init
  <2> SUFFICES ASSUME Init PROVE Service!Init
    OBVIOUS
  <2>1. {id \in Operations : finishes[id] = 1} = {}
    BY DEF Init
  <2> QED
    BY <2>1 DEF Init, Service!Init
<1>2. IInv /\ [Next]_vars => [Service!Next]_Service!serviceVars
  <2> SUFFICES ASSUME IInv, [Next]_vars
               PROVE  Service!Next \/ UNCHANGED Service!serviceVars
    OBVIOUS
  <2>1. CASE StartFails
    BY <2>1, QuietStep DEF StartFails
  <2>2. CASE Start
    <3>1. operationId + 1 \in Operations
      BY <2>2, NextNumber DEF Start, IInv, TypeOK
    <3>2. Service!Accept(operationId + 1)
      BY <2>2, NextNumberIsLater DEF Start, Busy, Service!Accept
    <3> QED
      BY <3>1, <3>2 DEF Service!Next
  <2>3. CASE StartRollsBack
    <3>1. operationId + 1 \in Operations
      BY <2>3, NextNumber DEF StartRollsBack, IInv, TypeOK
    <3>2. finishes[operationId + 1] = 0
      BY <2>3, <3>1 DEF IInv, TypeOK, FreshOperations, SettledOnce
    <3>3. {id \in Operations : finishes'[id] = 1}
            = {id \in Operations : finishes[id] = 1} \cup {operationId + 1}
      BY <2>3, <3>1, <3>2 DEF StartRollsBack, IInv, TypeOK
    <3>4. Service!Reject(operationId + 1)
      BY <2>3, <3>3, NextNumberIsLater DEF StartRollsBack, Busy, Service!Reject
    <3> QED
      BY <3>1, <3>4 DEF Service!Next, Service!Reject
  <2>4. CASE PollAgain \/ PollAgainRaises
    BY <2>4, QuietStep DEF PollAgain, PollAgainRaises
  <2>5. CASE PollWorkerGone
    <3>1. midPoll = activeId /\ activeId \in Operations
      BY <2>5, ConstantFacts DEF PollWorkerGone, IInv, TypeOK, MidPollIsActive
    <3> QED
      BY <2>5, <3>1, DetachIsServiceStep DEF PollWorkerGone, Responses
  <2>6. CASE Cancel
    <3>1. activeId \in Operations
      BY <2>6 DEF Cancel, Busy, IInv, TypeOK
    <3> QED
      BY <2>6, <3>1, DetachIsServiceStep DEF Cancel
  <2>7. CASE CloseActive
    <3>1. CASE Busy
      <4>1. activeId \in Operations /\ Detach(activeId, None)
        BY <2>7, <3>1 DEF CloseActive, Busy, IInv, TypeOK
      <4> QED
        BY <4>1, DetachIsServiceStep
    <3>2. CASE ~Busy
      BY <2>7, <3>2, QuietStep DEF CloseActive
    <3> QED
      BY <3>1, <3>2
  <2>8. CASE Expire
    BY <2>8, QuietStep DEF Expire
  <2>9. ASSUME NEW id \in Operations, PollTimeout(id) \/ PollReceive(id)
        PROVE  Service!Next
    <3> DEFINE a == IF pipe[id] = None THEN "crash" ELSE pipe[id]
    <3>1. id = activeId
      BY <2>9 DEF PollTimeout, PollReceive
    <3>2. a \in Responses
      BY DEF IInv, TypeOK, Responses
    <3>3. Detach(activeId, "timeout") \/ Detach(activeId, a)
      BY <2>9, <3>1 DEF PollTimeout, PollReceive
    <3>4. "timeout" \in Responses
      BY DEF Responses
    <3> HIDE DEF a
    <3> QED
      BY <3>1, <3>2, <3>3, <3>4, DetachIsServiceStep
  <2>10. ASSUME NEW id \in Operations,
                \/ PollStale(id) \/ PollNoData(id) \/ CleanupReaps(id)
                \/ CleanupRetries(id) \/ CleanupGivesUp(id) \/ CleanupFails(id)
                \/ WorkerResponds(id) \/ WorkerExits(id)
         PROVE  UNCHANGED Service!serviceVars
    BY <2>10, QuietStep DEF PollStale, PollNoData, CleanupReaps, CleanupRetries,
       CleanupGivesUp, CleanupFails, WorkerResponds, WorkerExits
  <2>11. CASE UNCHANGED vars
    BY <2>11, QuietStep DEF vars, ghostVars
  <2> QED
    BY <2>1, <2>2, <2>3, <2>4, <2>5, <2>6, <2>7, <2>8, <2>9, <2>10, <2>11
    DEF Next, Close, Shutdown
<1> QED
  BY <1>1, <1>2, InvariantHolds, PTL DEF Spec, ImplementsService, Service!Spec
=============================================================================
