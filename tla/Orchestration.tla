---------------------------- MODULE Orchestration ----------------------------
(***************************************************************************)
(* The Soroban contract orchestration_contract: a saga of steps that is    *)
(* run and rolled back.  Invocations run one at a time, but within one the *)
(* stored record is written both by the loop of an invocation, from the    *)
(* copy it loaded, and by the step functions, each from a copy of its own: *)
(* these writes are the steps of this module.  The steps themselves are    *)
(* placeholders that always succeed, so the paths of a failed step (and    *)
(* the gas, which nothing limits) are left out.                            *)
(***************************************************************************)
EXTENDS Integers

CONSTANTS
  SagaIds,
  MaxSteps,    \* bound: steps of an orchestration
  Timeouts,    \* bound
  SagaTimes,   \* bound: ledger timestamps
  NoSaga

VARIABLES
  sagas,        \* (ORCH, id), or NoSaga
  stepPoints,   \* the steps of which (CHKP, id_step_i) is stored
  sagasPaused,  \* config.paused
  running,      \* the invocation's loop: which, of what, its copy and step
  ran,          \* history: the steps that execute_step ran
  ledgerTime

vars == <<sagas, stepPoints, sagasPaused, running, ran, ledgerTime>>

Saga ==
  UNION {[status : {"Created", "Executing", "StepCompleted", "Completed", "TimedOut",
                    "RollingBack", "RollbackCompleted", "Cancelled"},
          steps : [1..n -> {"Pending", "Completed", "RollbackCompleted"}],
          done : 0..n, timeout : Timeouts, createdAt : SagaTimes] : n \in 1..MaxSteps}

Idle == [loop |-> "none"]
Steps(saga) == DOMAIN saga.steps

Init ==
  /\ sagas = [id \in SagaIds |-> NoSaga]
  /\ stepPoints = [id \in SagaIds |-> {}]
  /\ sagasPaused = FALSE
  /\ running = Idle
  /\ ran = [id \in SagaIds |-> {}]
  /\ ledgerTime \in SagaTimes

-----------------------------------------------------------------------------
CreateOrchestration(id, n, timeout) ==
  /\ running = Idle
  /\ sagas[id] = NoSaga
  /\ ~sagasPaused
  /\ sagas' = [sagas EXCEPT ![id] =
       [status |-> "Created", steps |-> [i \in 1..n |-> "Pending"], done |-> 0,
        timeout |-> timeout, createdAt |-> ledgerTime]]
  /\ UNCHANGED <<stepPoints, sagasPaused, running, ran, ledgerTime>>

Late(saga) == ledgerTime - saga.createdAt > saga.timeout

ExecuteLate(id) ==
  /\ running = Idle
  /\ sagas[id] # NoSaga /\ sagas[id].status = "Created"
  /\ Late(sagas[id])
  /\ sagas' = [sagas EXCEPT ![id].status = "TimedOut"]
  /\ UNCHANGED <<stepPoints, sagasPaused, running, ran, ledgerTime>>

(* Store the copy of the loop, which goes on with step i. *)
WriteBack(loop, id, saga, i) ==
  /\ sagas' = [sagas EXCEPT ![id] = saga]
  /\ running' = [loop |-> loop, id |-> id, copy |-> saga, step |-> i]

ExecuteOrchestration(id) ==
  /\ running = Idle
  /\ sagas[id] # NoSaga /\ sagas[id].status = "Created"
  /\ ~Late(sagas[id])
  /\ WriteBack("execute", id, [sagas[id] EXCEPT !.status = "Executing"], 1)
  /\ UNCHANGED <<stepPoints, sagasPaused, ran, ledgerTime>>

(* execute_step, on a copy loaded from storage. *)
RunStep(id, i) ==
  /\ sagas' = [sagas EXCEPT ![id].steps[i] = "Completed"]
  /\ stepPoints' = [stepPoints EXCEPT ![id] = @ \cup {i}]
  /\ ran' = [ran EXCEPT ![id] = @ \cup {i}]

(* Anyone may call execute_step for any orchestration as well. *)
ExecuteStepAlone(id, i) ==
  /\ running = Idle
  /\ sagas[id] # NoSaga /\ i \in Steps(sagas[id])
  /\ RunStep(id, i)
  /\ UNCHANGED <<sagasPaused, running, ledgerTime>>

ExecuteStep ==
  /\ running.loop = "execute"
  /\ running.step \in Steps(running.copy)
  /\ RunStep(running.id, running.step)
  /\ running' = [running EXCEPT !.loop = "after step"]
  /\ UNCHANGED <<sagasPaused, ledgerTime>>

(* The loop's copy has not seen the step: its status is Pending again. *)
AfterStep ==
  /\ running.loop = "after step"
  /\ WriteBack("execute", running.id,
               [running.copy EXCEPT !.done = running.step, !.status = "StepCompleted"],
               running.step + 1)
  /\ UNCHANGED <<stepPoints, sagasPaused, ran, ledgerTime>>

Store(status) ==
  /\ sagas' = [sagas EXCEPT ![running.id] = [running.copy EXCEPT !.status = status]]
  /\ running' = Idle
  /\ UNCHANGED <<stepPoints, sagasPaused, ran, ledgerTime>>

(* Slip: the loop ends one step early. *)
FinishExecutionEarly ==
  /\ running.loop = "execute"
  /\ running.step + 1 \notin Steps(running.copy)
  /\ Store("Completed")

FinishExecution ==
  /\ running.loop = "execute"
  /\ running.step \notin Steps(running.copy)
  /\ Store("Completed")

(* rollback_orchestration accepts every status; the loop goes down from the *)
(* last step that the execution counted.                                    *)
RollbackOrchestration(id) ==
  /\ running = Idle
  /\ sagas[id] # NoSaga
  /\ WriteBack("rollback", id, [sagas[id] EXCEPT !.status = "RollingBack"], sagas[id].done)
  /\ UNCHANGED <<stepPoints, sagasPaused, ran, ledgerTime>>

(* rollback_step, if the loop's copy holds the step for completed. *)
RollbackStep ==
  LET i == running.step  id == running.id IN
  /\ running.loop = "rollback"
  /\ i > 0
  /\ running' = [running EXCEPT !.step = i - 1]
  /\ IF running.copy.steps[i] = "Completed"
       THEN /\ sagas' = [sagas EXCEPT ![id].steps[i] = "RollbackCompleted"]
            /\ stepPoints' = [stepPoints EXCEPT ![id] = @ \ {i}]
       ELSE UNCHANGED <<sagas, stepPoints>>
  /\ UNCHANGED <<sagasPaused, ran, ledgerTime>>

FinishRollback ==
  /\ running.loop = "rollback"
  /\ running.step = 0
  /\ Store("RollbackCompleted")

(* Slip: a completed orchestration may be cancelled. *)
CancelOrchestrationCompleted(id) ==
  /\ running = Idle
  /\ sagas[id] # NoSaga
  /\ sagas[id].status # "RollbackCompleted"
  /\ sagas' = [sagas EXCEPT ![id].status = "Cancelled"]
  /\ UNCHANGED <<stepPoints, sagasPaused, running, ran, ledgerTime>>

CancelOrchestration(id) ==
  /\ running = Idle
  /\ sagas[id] # NoSaga
  /\ sagas[id].status \notin {"Completed", "RollbackCompleted"}
  /\ sagas' = [sagas EXCEPT ![id].status = "Cancelled"]
  /\ UNCHANGED <<stepPoints, sagasPaused, running, ran, ledgerTime>>

EmergencyPause(b) ==
  /\ running = Idle
  /\ sagasPaused' = b
  /\ UNCHANGED <<sagas, stepPoints, running, ran, ledgerTime>>

LedgerCloses ==
  /\ running = Idle
  /\ ledgerTime' \in SagaTimes
  /\ ledgerTime' > ledgerTime
  /\ UNCHANGED <<sagas, stepPoints, sagasPaused, running, ran>>

Next ==
  \/ \E id \in SagaIds :
       \/ \E n \in 1..MaxSteps, t \in Timeouts : CreateOrchestration(id, n, t)
       \/ ExecuteLate(id) \/ ExecuteOrchestration(id)
       \/ \E i \in 1..MaxSteps : ExecuteStepAlone(id, i)
       \/ RollbackOrchestration(id) \/ CancelOrchestration(id)
  \/ ExecuteStep \/ AfterStep \/ FinishExecution
  \/ RollbackStep \/ FinishRollback
  \/ \E b \in BOOLEAN : EmergencyPause(b)
  \/ LedgerCloses

Spec == Init /\ [][Next]_vars

-----------------------------------------------------------------------------
TypeOK ==
  /\ sagas \in [SagaIds -> Saga \cup {NoSaga}]
  /\ stepPoints \in [SagaIds -> SUBSET (1..MaxSteps)]
  /\ sagasPaused \in BOOLEAN
  /\ \/ running = Idle
     \/ running \in [loop : {"execute", "after step", "rollback"}, id : SagaIds,
                     copy : Saga, step : 0..MaxSteps + 1]
  /\ ran \in [SagaIds -> SUBSET (1..MaxSteps)]
  /\ ledgerTime \in SagaTimes

Holds(id, statuses) == sagas[id] # NoSaga /\ sagas[id].status \in statuses

(* A status is told by the last write of several copies; what it says of    *)
(* the steps is still so.  A completed orchestration ran every step, and    *)
(* one that is cancelled, timed out or not yet executed counts no step, so  *)
(* that its rollback touches none of those run by execute_step alone.       *)
StatusTellsWhatRan ==
  \A id \in SagaIds :
    /\ Holds(id, {"Completed"}) => ran[id] = Steps(sagas[id]) /\ sagas[id].done > 0
    /\ Holds(id, {"Created", "TimedOut", "Cancelled"}) => sagas[id].done = 0
    /\ Holds(id, {"StepCompleted"}) => 1..sagas[id].done \subseteq ran[id]

(* logic.rs:249, "Rollback completed steps in reverse order": a rollback    *)
(* that reports success has undone, and dropped the checkpoint of, every    *)
(* step that the execution ran.                                             *)
RollbackUndoesWhatRan ==
  \A id \in SagaIds :
    Holds(id, {"RollbackCompleted"}) => stepPoints[id] \cap 1..sagas[id].done = {}
=============================================================================
