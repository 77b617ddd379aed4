----------------------- MODULE CalculationController -----------------------
(***************************************************************************)
(* calculation_controller.py: one cancellable worker process per           *)
(* calculation, owned by the Tk thread and observed only through timers.   *)
(*                                                                         *)
(* Actors: the Tk thread (start, poll, cleanup and shutdown handlers, one   *)
(* at a time), one worker process per operation, the clock and the OS.     *)
(* The fields _active_id, _process, _connection, _callbacks and            *)
(* _started_at are set together and cleared together by _detach, so         *)
(* activeId stands for the five; the pipe of an operation is open for       *)
(* reading exactly while that operation is active.                         *)
(*                                                                         *)
(* after(), terminate(), join(), is_alive() and kill() may raise wherever a    *)
(* worker is being stopped. In _poll only after() may: the pipe and the       *)
(* process it asks are open there.                                         *)
(***************************************************************************)
EXTENDS Naturals

CONSTANTS MaxOperationId,   \* bound on the operations a behaviour starts
          KillAfter,        \* _KILL_AFTER_CLEANUP_ATTEMPTS
          MaxAttempts,      \* _MAX_CLEANUP_ATTEMPTS
          None              \* Python's None

\* The first field of the tuples _worker sends.
Responses == {"ok", "input_error", "timeout", "crash"}

ASSUME ControllerAssumption ==
  /\ MaxOperationId \in Nat \ {0}
  /\ KillAfter \in Nat
  /\ MaxAttempts \in Nat
  /\ KillAfter < MaxAttempts
  /\ None \notin Nat
  /\ None \notin Responses

VARIABLES
  operationId,  \* _operation_id: bumped by every start, cancel and close
  activeId,     \* _active_id
  deadline,     \* whether the active operation is older than timeout_seconds
  polls,        \* operations with a _poll callback queued in Tk
  midPoll,      \* the operation whose _poll saw no data and has yet to ask is_alive
  cleanup,      \* the _poll_cleanup callback queued for each detached worker
  worker,       \* where each worker process is
  signal,       \* the strongest signal sent to each worker
  pipe,         \* the response each worker has written, None before that
  answer,       \* the answer the callbacks of each operation were given
  answers,      \* how many times on_success or on_error was called
  finishes,     \* how many times on_finish was called
  scheduler,    \* the Tk root, with the callbacks queued in it
  \* What nobody in the program knows, to state properties with:
  cancelled,    \* the operations that cancel() withdrew
  dropped       \* those whose chain of callbacks a call that raised has ended

ghostVars == <<cancelled, dropped>>
vars == <<operationId, activeId, deadline, polls, midPoll, cleanup, worker,
          signal, pipe, answer, answers, finishes, scheduler, ghostVars>>

Operations == 1..MaxOperationId

\* unborn: not started; computing: in run_calculation; closing: the child end
\* of the pipe is closed, the interpreter is shutting down; exited: dead, its
\* Process object still held; reaped: Process.close() was called.
WorkerStates == {"unborn", "computing", "closing", "exited", "reaped"}

\* The arguments of _poll_cleanup. terminate matters on the first turn and killed
\* after it, so one field holds both.
CleanupTimers == [stage : {"wait", "terminate", "killed"}, attempts : Nat]

Busy == activeId # None

IsAlive(id) == worker[id] \in {"computing", "closing"}

\* Connection.poll: data, or the end of file a worker leaves by closing its end.
Readable(id) == pipe[id] # None \/ worker[id] \in {"closing", "exited"}

\* Tk runs one handler at a time; midPoll marks one that is not over.
TkIdle == scheduler = "up" /\ midPoll = None

Init ==
  /\ operationId = 0
  /\ activeId = None
  /\ deadline = "ahead"
  /\ polls = {}
  /\ midPoll = None
  /\ cleanup = [id \in Operations |-> None]
  /\ worker = [id \in Operations |-> "unborn"]
  /\ signal = [id \in Operations |-> "none"]
  /\ pipe = [id \in Operations |-> None]
  /\ answer = [id \in Operations |-> None]
  /\ answers = [id \in Operations |-> 0]
  /\ finishes = [id \in Operations |-> 0]
  /\ scheduler = "up"
  /\ cancelled = {}
  /\ dropped = {}

-----------------------------------------------------------------------------
(***************************************************************************)
(* Leaving an operation.                                                   *)
(***************************************************************************)

\* Mutant of Detach: the operation stays active after its callbacks.
DetachKeepsActive(id, a) ==
  /\ UNCHANGED <<activeId, deadline>>
  /\ answer' = IF a = None THEN answer ELSE [answer EXCEPT ![id] = a]
  /\ answers' = IF a = None THEN answers ELSE [answers EXCEPT ![id] = @ + 1]
  /\ finishes' = [finishes EXCEPT ![id] = @ + 1]

\* _detach, then the callbacks: on_success or on_error with a, when there is
\* an answer, and on_finish, which a try/finally calls even when the first raises.
Detach(id, a) ==
  /\ activeId' = None
  /\ deadline' = "ahead"
  /\ answer' = IF a = None THEN answer ELSE [answer EXCEPT ![id] = a]
  /\ answers' = IF a = None THEN answers ELSE [answers EXCEPT ![id] = @ + 1]
  /\ finishes' = [finishes EXCEPT ![id] = @ + 1]

\* _schedule_cleanup: queue the first _poll_cleanup, or, when after() raises,
\* _stop_without_wait terminates the worker, or fails to, and nobody looks at it
\* again.
ScheduleCleanup(id, stage) ==
  \/ /\ cleanup' = [cleanup EXCEPT ![id] = [stage |-> stage, attempts |-> 0]]
     /\ dropped' = dropped \ {id}
     /\ UNCHANGED signal
  \/ /\ signal' = IF IsAlive(id) THEN [signal EXCEPT ![id] = "term"] ELSE signal
     /\ dropped' = dropped \ {id}
     /\ UNCHANGED cleanup
  \/ /\ dropped' = dropped \cup {id}
     /\ UNCHANGED <<cleanup, signal>>

-----------------------------------------------------------------------------
(***************************************************************************)
(* start_engine_method. A busy controller refuses, and changes nothing.     *)
(***************************************************************************)

\* build_calculation_request, Pipe or Process.start raises: the number is used up.
StartFails ==
  /\ TkIdle
  /\ ~Busy
  /\ operationId < MaxOperationId
  /\ operationId' = operationId + 1
  /\ UNCHANGED <<activeId, deadline, polls, midPoll, cleanup, worker, signal,
                 pipe, answer, answers, finishes, scheduler, ghostVars>>

\* Mutant of Start: the number is captured before it is incremented.
StartWithOldNumber ==
  /\ TkIdle
  /\ ~Busy
  /\ operationId < MaxOperationId
  /\ operationId' = operationId + 1
  /\ activeId' = operationId
  /\ deadline' = "ahead"
  /\ worker' = [worker EXCEPT ![operationId + 1] = "computing"]
  /\ polls' = polls \cup {operationId}
  /\ UNCHANGED <<midPoll, cleanup, signal, pipe, answer, answers, finishes,
                 scheduler, ghostVars>>

\* Mutant of Start: the number is not used up.
StartReusesNumber ==
  /\ TkIdle
  /\ ~Busy
  /\ operationId < MaxOperationId
  /\ activeId' = operationId + 1
  /\ deadline' = "ahead"
  /\ worker' = [worker EXCEPT ![operationId + 1] = "computing"]
  /\ polls' = polls \cup {operationId + 1}
  /\ UNCHANGED <<operationId, midPoll, cleanup, signal, pipe, answer, answers,
                 finishes, scheduler, ghostVars>>

Start ==
  /\ TkIdle
  /\ ~Busy
  /\ operationId < MaxOperationId
  /\ operationId' = operationId + 1
  /\ activeId' = operationId + 1
  /\ deadline' = "ahead"
  /\ worker' = [worker EXCEPT ![operationId + 1] = "computing"]
  /\ polls' = polls \cup {operationId + 1}
  /\ UNCHANGED <<midPoll, cleanup, signal, pipe, answer, answers, finishes,
                 scheduler, ghostVars>>

\* on_start or the first after() raises once the worker runs: the worker is
\* detached and terminated, on_finish is called and the error goes to the caller.
StartRollsBack ==
  LET id == operationId + 1 IN
  /\ TkIdle
  /\ ~Busy
  /\ operationId < MaxOperationId
  /\ operationId' = id
  /\ worker' = [worker EXCEPT ![id] = "computing"]
  /\ finishes' = [finishes EXCEPT ![id] = @ + 1]
  /\ \/ /\ cleanup' = [cleanup EXCEPT ![id] = [stage |-> "terminate", attempts |-> 0]]
        /\ UNCHANGED <<signal, dropped>>
     \/ /\ signal' = [signal EXCEPT ![id] = "term"]
        /\ UNCHANGED <<cleanup, dropped>>
     \/ /\ dropped' = dropped \cup {id}
        /\ UNCHANGED <<cleanup, signal>>
  /\ UNCHANGED <<activeId, deadline, polls, midPoll, pipe, answer, answers,
                 scheduler, cancelled>>

-----------------------------------------------------------------------------
(***************************************************************************)
(* _poll: the timer handler of one operation.                              *)
(***************************************************************************)

\* The operation was cancelled or answered since this callback was queued.
PollStale(id) ==
  /\ TkIdle
  /\ id \in polls
  /\ id # activeId
  /\ polls' = polls \ {id}
  /\ UNCHANGED <<operationId, activeId, deadline, midPoll, cleanup, worker,
                 signal, pipe, answer, answers, finishes, scheduler, ghostVars>>

\* The deadline is looked at first: a response that is already there is lost.
PollTimeout(id) ==
  /\ TkIdle
  /\ id \in polls
  /\ id = activeId
  /\ deadline = "passed"
  /\ polls' = polls \ {id}
  /\ Detach(id, "timeout")
  /\ ScheduleCleanup(id, "terminate")
  /\ UNCHANGED <<operationId, midPoll, worker, pipe, scheduler, cancelled>>

\* Mutant of PollReceive: no data is taken for the end of the file.
PollReceiveWithoutData(id) ==
  /\ TkIdle
  /\ id \in polls
  /\ id = activeId
  /\ deadline = "ahead"
  /\ polls' = polls \ {id}
  /\ Detach(id, IF pipe[id] = None THEN "crash" ELSE pipe[id])
  /\ ScheduleCleanup(id, "wait")
  /\ UNCHANGED <<operationId, midPoll, worker, pipe, scheduler, cancelled>>

\* recv returns the response, or raises EOFError because there is none.
PollReceive(id) ==
  /\ TkIdle
  /\ id \in polls
  /\ id = activeId
  /\ deadline = "ahead"
  /\ Readable(id)
  /\ polls' = polls \ {id}
  /\ Detach(id, IF pipe[id] = None THEN "crash" ELSE pipe[id])
  /\ ScheduleCleanup(id, "wait")
  /\ UNCHANGED <<operationId, midPoll, worker, pipe, scheduler, cancelled>>

\* Connection.poll said no; the worker runs on before is_alive is asked.
PollNoData(id) ==
  /\ TkIdle
  /\ id \in polls
  /\ id = activeId
  /\ deadline = "ahead"
  /\ ~Readable(id)
  /\ polls' = polls \ {id}
  /\ midPoll' = id
  /\ UNCHANGED <<operationId, activeId, deadline, cleanup, worker, signal,
                 pipe, answer, answers, finishes, scheduler, ghostVars>>

\* Mutant of PollAgain: the next poll is not scheduled.
PollOnce ==
  /\ midPoll # None
  /\ IsAlive(midPoll)
  /\ midPoll' = None
  /\ UNCHANGED <<operationId, activeId, deadline, polls, cleanup, worker, signal,
                 pipe, answer, answers, finishes, scheduler, ghostVars>>

\* Mutant of PollAgain: every poll restarts the clock of the timeout.
PollRestartsClock ==
  /\ midPoll # None
  /\ IsAlive(midPoll)
  /\ polls' = polls \cup {midPoll}
  /\ midPoll' = None
  /\ deadline' = "ahead"
  /\ UNCHANGED <<operationId, activeId, cleanup, worker, signal, pipe, answer,
                 answers, finishes, scheduler, ghostVars>>

PollAgain ==
  /\ midPoll # None
  /\ IsAlive(midPoll)
  /\ polls' = polls \cup {midPoll}
  /\ midPoll' = None
  /\ UNCHANGED <<operationId, activeId, deadline, cleanup, worker, signal,
                 pipe, answer, answers, finishes, scheduler, ghostVars>>

\* The after() that is to queue the next poll raises (TclError, RuntimeError): Tk
\* reports it, the operation stays active and nobody looks at it again.
PollAgainRaises ==
  /\ midPoll # None
  /\ IsAlive(midPoll)
  /\ midPoll' = None
  /\ dropped' = dropped \cup {midPoll}
  /\ UNCHANGED <<operationId, activeId, deadline, polls, cleanup, worker, signal,
                 pipe, answer, answers, finishes, scheduler, cancelled>>

\* Dead by now: a crash is reported even if the response came in between.
PollWorkerGone ==
  /\ midPoll # None
  /\ ~IsAlive(midPoll)
  /\ midPoll' = None
  /\ Detach(midPoll, "crash")
  /\ ScheduleCleanup(midPoll, "wait")
  /\ UNCHANGED <<operationId, polls, worker, pipe, scheduler, cancelled>>

-----------------------------------------------------------------------------
(***************************************************************************)
(* _poll_cleanup: reap a detached worker in short turns.                   *)
(***************************************************************************)

\* terminate() is called on the first turn only.
TermOnFirstTurn(id) ==
  cleanup[id].stage = "terminate" /\ cleanup[id].attempts = 0 /\ IsAlive(id)

CleanupReaps(id) ==
  /\ TkIdle
  /\ cleanup[id] # None
  /\ ~IsAlive(id)
  /\ worker' = [worker EXCEPT ![id] = "reaped"]
  /\ cleanup' = [cleanup EXCEPT ![id] = None]
  /\ UNCHANGED <<operationId, activeId, deadline, polls, midPoll, signal, pipe,
                 answer, answers, finishes, scheduler, ghostVars>>

\* Mutant of CleanupRetries: the attempts are not limited.
CleanupRetriesForever(id) ==
  LET kill == cleanup[id].stage # "killed" /\ cleanup[id].attempts >= KillAfter IN
  /\ TkIdle
  /\ cleanup[id] # None
  /\ IsAlive(id)
  /\ signal' = IF kill THEN [signal EXCEPT ![id] = "kill"]
               ELSE IF TermOnFirstTurn(id) THEN [signal EXCEPT ![id] = "term"]
               ELSE signal
  /\ cleanup' = [cleanup EXCEPT ![id] =
                   [stage |-> IF kill THEN "killed" ELSE @.stage,
                    attempts |-> @.attempts + 1]]
  /\ UNCHANGED <<operationId, activeId, deadline, polls, midPoll, worker, pipe,
                 answer, answers, finishes, scheduler, ghostVars>>

\* Mutant of CleanupRetries: killed is recorded, kill() is not called.
CleanupForgetsToKill(id) ==
  LET kill == cleanup[id].stage # "killed" /\ cleanup[id].attempts >= KillAfter IN
  /\ TkIdle
  /\ cleanup[id] # None
  /\ IsAlive(id)
  /\ cleanup[id].attempts < MaxAttempts
  /\ signal' = IF TermOnFirstTurn(id) THEN [signal EXCEPT ![id] = "term"] ELSE signal
  /\ cleanup' = [cleanup EXCEPT ![id] =
                   [stage |-> IF kill THEN "killed" ELSE @.stage,
                    attempts |-> @.attempts + 1]]
  /\ UNCHANGED <<operationId, activeId, deadline, polls, midPoll, worker, pipe,
                 answer, answers, finishes, scheduler, ghostVars>>

CleanupRetries(id) ==
  LET kill == cleanup[id].stage # "killed" /\ cleanup[id].attempts >= KillAfter IN
  /\ TkIdle
  /\ cleanup[id] # None
  /\ IsAlive(id)
  /\ cleanup[id].attempts < MaxAttempts
  /\ signal' = IF kill THEN [signal EXCEPT ![id] = "kill"]
               ELSE IF TermOnFirstTurn(id) THEN [signal EXCEPT ![id] = "term"]
               ELSE signal
  /\ cleanup' = [cleanup EXCEPT ![id] =
                   [stage |-> IF kill THEN "killed" ELSE @.stage,
                    attempts |-> @.attempts + 1]]
  /\ UNCHANGED <<operationId, activeId, deadline, polls, midPoll, worker, pipe,
                 answer, answers, finishes, scheduler, ghostVars>>

\* The attempts are used up: the callback chain ends, the OS is left to reap.
CleanupGivesUp(id) ==
  /\ TkIdle
  /\ cleanup[id] # None
  /\ IsAlive(id)
  /\ cleanup[id].attempts >= MaxAttempts
  /\ cleanup' = [cleanup EXCEPT ![id] = None]
  /\ signal' = IF cleanup[id].stage = "killed" THEN signal ELSE [signal EXCEPT ![id] = "term"]
  /\ UNCHANGED <<operationId, activeId, deadline, polls, midPoll, worker, pipe,
                 answer, answers, finishes, scheduler, ghostVars>>

\* A call of _poll_cleanup raises: terminate, join, is_alive, kill or the after()
\* behind them, so that the signal of this turn may have been sent. The chain ends.
CleanupFails(id) ==
  /\ TkIdle
  /\ cleanup[id] # None
  /\ cleanup' = [cleanup EXCEPT ![id] = None]
  /\ dropped' = dropped \cup {id}
  /\ \/ UNCHANGED signal
     \/ /\ TermOnFirstTurn(id)
        /\ signal' = [signal EXCEPT ![id] = "term"]
     \/ /\ IsAlive(id)
        /\ cleanup[id].stage # "killed"
        /\ cleanup[id].attempts \in KillAfter..MaxAttempts - 1
        /\ signal' = [signal EXCEPT ![id] = "kill"]
  /\ UNCHANGED <<operationId, activeId, deadline, polls, midPoll, worker, pipe,
                 answer, answers, finishes, scheduler, cancelled>>

-----------------------------------------------------------------------------
(***************************************************************************)
(* cancel, close.                                                          *)
(***************************************************************************)

Cancel ==
  /\ TkIdle
  /\ Busy
  /\ operationId' = operationId + 1
  /\ Detach(activeId, None)
  /\ ScheduleCleanup(activeId, "terminate")
  /\ cancelled' = cancelled \cup {activeId}
  /\ UNCHANGED <<polls, midPoll, worker, pipe, scheduler>>

\* close: stop the active worker synchronously, terminate() and then kill() with
\* a bounded join after each, unless one of these raises; on_finish is called, its
\* exceptions suppressed.
CloseActive ==
  IF Busy
    THEN /\ operationId' = operationId + 1
         /\ Detach(activeId, None)
         /\ \/ /\ worker' = [worker EXCEPT ![activeId] = "reaped"]
               /\ dropped' = dropped \ {activeId}
               /\ UNCHANGED signal
            \/ /\ IsAlive(activeId)
               /\ signal' = [signal EXCEPT ![activeId] = "kill"]
               /\ dropped' = dropped \ {activeId}
               /\ UNCHANGED worker
            \/ /\ \E sent \in {"none", "term"} : signal' = [signal EXCEPT ![activeId] = sent]
               /\ dropped' = dropped \cup {activeId}
               /\ UNCHANGED worker
    ELSE UNCHANGED <<operationId, activeId, deadline, answer, answers, finishes,
                     worker, signal, dropped>>

\* close by itself: the controller does not rely on the root being destroyed next.
\* (_restart_application, when the new instance cannot be launched, keeps it.)
Close ==
  /\ TkIdle
  /\ Busy
  /\ CloseActive
  /\ UNCHANGED <<polls, midPoll, cleanup, pipe, scheduler, cancelled>>

\* _on_close and _restart_application: close, then destroy the Tk root, with
\* every callback still queued in it.
Shutdown ==
  /\ TkIdle
  /\ CloseActive
  /\ scheduler' = "destroyed"
  /\ polls' = {}
  /\ cleanup' = [id \in Operations |-> None]
  /\ UNCHANGED <<midPoll, pipe, cancelled>>

-----------------------------------------------------------------------------
(***************************************************************************)
(* The worker process, the operating system and the clock.                 *)
(***************************************************************************)

\* _worker sends one response and closes its end. Nothing arrives when the
\* other end is closed, or when the response cannot be pickled.
WorkerResponds(id) ==
  /\ worker[id] = "computing"
  /\ worker' = [worker EXCEPT ![id] = "closing"]
  /\ \/ UNCHANGED pipe
     \/ /\ id = activeId
        /\ \E r \in Responses : pipe' = [pipe EXCEPT ![id] = r]
  /\ UNCHANGED <<operationId, activeId, deadline, polls, midPoll, cleanup,
                 signal, answer, answers, finishes, scheduler, ghostVars>>

\* The process ends: normally, by a signal, or killed from outside at any point,
\* a half-written response being no response.
WorkerExits(id) ==
  /\ IsAlive(id)
  /\ worker' = [worker EXCEPT ![id] = "exited"]
  /\ UNCHANGED <<operationId, activeId, deadline, polls, midPoll, cleanup,
                 signal, pipe, answer, answers, finishes, scheduler, ghostVars>>

\* time.monotonic() - _started_at exceeds timeout_seconds.
Expire ==
  /\ Busy
  /\ deadline = "ahead"
  /\ deadline' = "passed"
  /\ UNCHANGED <<operationId, activeId, polls, midPoll, cleanup, worker,
                 signal, pipe, answer, answers, finishes, scheduler, ghostVars>>

-----------------------------------------------------------------------------
Poll(id) ==
  PollStale(id) \/ PollTimeout(id) \/ PollReceive(id) \/ PollNoData(id)

PollCleanup(id) ==
  CleanupReaps(id) \/ CleanupRetries(id) \/ CleanupGivesUp(id) \/ CleanupFails(id)

Next ==
  \/ StartFails
  \/ Start
  \/ StartRollsBack
  \/ PollAgain
  \/ PollAgainRaises
  \/ PollWorkerGone
  \/ Cancel
  \/ Close
  \/ Shutdown
  \/ Expire
  \/ \E id \in Operations :
       \/ PollStale(id)
       \/ PollTimeout(id)
       \/ PollReceive(id)
       \/ PollNoData(id)
       \/ CleanupReaps(id)
       \/ CleanupRetries(id)
       \/ CleanupGivesUp(id)
       \/ CleanupFails(id)
       \/ WorkerResponds(id)
       \/ WorkerExits(id)

Spec == Init /\ [][Next]_vars

(***************************************************************************)
(* Tk runs every callback that is due, time passes, and a signalled        *)
(* process dies. A worker is NOT assumed to answer, nor to exit by itself;   *)
(* no call is assumed to succeed.                                          *)
(***************************************************************************)
Fairness ==
  /\ WF_vars(PollAgain \/ PollAgainRaises \/ PollWorkerGone)
  /\ WF_vars(Expire)
  /\ \A id \in Operations :
       /\ WF_vars(Poll(id))
       /\ WF_vars(PollCleanup(id))
       /\ WF_vars(signal[id] # "none" /\ WorkerExits(id))

FairSpec == Spec /\ Fairness

-----------------------------------------------------------------------------
(***************************************************************************)
(* Properties.                                                             *)
(***************************************************************************)

\* Every variable of the controller, of its timers and of the worker table has
\* the type _poll, _poll_cleanup and the _worker process give it.
TypeOK ==
  /\ operationId \in Nat
  /\ activeId \in Operations \cup {None}
  /\ deadline \in {"ahead", "passed"}
  /\ polls \subseteq Operations
  /\ midPoll \in Operations \cup {None}
  /\ cleanup \in [Operations -> CleanupTimers \cup {None}]
  /\ worker \in [Operations -> WorkerStates]
  /\ signal \in [Operations -> {"none", "term", "kill"}]
  /\ pipe \in [Operations -> Responses \cup {None}]
  /\ answer \in [Operations -> Responses \cup {None}]
  /\ answers \in [Operations -> Nat]
  /\ finishes \in [Operations -> Nat]
  /\ scheduler \in {"up", "destroyed"}
  /\ cancelled \subseteq Operations
  /\ dropped \subseteq Operations

\* A busy controller can never be stranded: while an operation is active exactly
\* one of its _poll callbacks is queued or running, whatever cancellations,
\* failed starts and stale polls came before. Losing it would leave the
\* calculator on "Calculating..." with no timeout ever looked at, as an after()
\* does that raises in this operation's own _poll, and nothing else.
NeverStranded ==
  Busy => /\ scheduler = "up"
          /\ activeId \notin dropped => (activeId \in polls) # (midPoll = activeId)

\* on_finish is called exactly once for every operation whose worker was
\* started, not before it is over, and at most one of on_success and on_error
\* is called with it: a cancellation, a timeout, a crash and an answer that race
\* for the same operation settle it once.
SettledOnce ==
  \A id \in Operations :
    /\ finishes[id] = IF worker[id] = "unborn" \/ id = activeId THEN 0 ELSE 1
    /\ answers[id] = IF answer[id] = None THEN 0 ELSE 1
    /\ answers[id] <= finishes[id]

\* The worker of the active operation is never signalled and never closed by a
\* cleanup chain: cleanup belongs to detached workers, each chain to one that is
\* not reaped yet, so that Process.close() is never followed by another call.
CleanupOwnsOnlyDetached ==
  /\ Busy => signal[activeId] = "none" /\ cleanup[activeId] = None
  /\ \A id \in Operations :
       cleanup[id] # None =>
         /\ worker[id] \in {"computing", "closing", "exited"}
         /\ cleanup[id].attempts <= MaxAttempts
         /\ cleanup[id].stage = "killed" => signal[id] = "kill"

\* What on_success commits was sent by that operation's own worker, and a crash
\* is only reported for a worker that said so or will never answer: an operation
\* that is still computing is never given up as crashed.
AnswersAreGenuine ==
  \A id \in Operations :
    /\ answer[id] \in {"ok", "input_error"} => pipe[id] = answer[id]
    /\ answer[id] = "crash" => worker[id] # "computing"

\* The controller implements the service the application relies on.
Service == INSTANCE CalculationService
             WITH Answers <- Responses,
                  running <- activeId,
                  done <- {id \in Operations : finishes[id] = 1},
                  result <- answer

\* Every step of the controller is a step of CalculationService or changes
\* nothing the application can see.
ImplementsService == Service!Spec

\* Once started, an operation is over some day, even when its worker hangs:
\* _poll re-arms itself until the deadline, unless after() raises in it.
\* (start_engine_method, _poll)
OperationsEnd ==
  \A id \in Operations : (activeId = id) ~> (activeId # id \/ id \in dropped)

\* A worker that no longer has an operation dies, even one that ignores the end
\* of its pipe, unless the Tk root is destroyed first or one of the calls that
\* stop this worker raises: the cleanup chain escalates from nothing or terminate()
\* to kill() before it gives up.
DetachedWorkersDie ==
  \A id \in Operations :
    (IsAlive(id) /\ id # activeId)
      ~> (~IsAlive(id) \/ scheduler = "destroyed" \/ id \in dropped)

\* "The controller can cancel this one process, so no descendant process can
\* survive a cancelled UI operation" (calculation_worker.py, run_calculation).
\* The code breaks it, though no call raises: terminate() waits for a Tk callback
\* that Shutdown drops.
CancelledWorkersAreStopped ==
  \A id \in cancelled \ dropped :
    scheduler = "destroyed" /\ IsAlive(id) => signal[id] # "none"
=============================================================================
