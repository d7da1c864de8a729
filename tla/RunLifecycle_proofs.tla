------------------------ MODULE RunLifecycle_proofs ------------------------
(* Proofs about RunLifecycle, for every set of nodes, clients, operations, *)
(* origins and broker, flush and fault outcomes.                           *)
EXTENDS RunLifecycle, TLAPS

(* The sets the types are made of, as facts a leaf can cite.               *)
LEMMA PayloadType ==
  ASSUME NEW previous \in SUBSET Entries, NEW state \in SUBSET Entries
  PROVE  Payload(previous, state) \in SUBSET Entries
  BY DEF Payload

(* persist_task_state keeps the types, whatever status it is given.        *)
LEMMA PersistType ==
  ASSUME TypeOK, NEW state \in SUBSET Entries,
         NEW status \in Statuses \cup {"unset"},
         cacheStatus \in Statuses \/ status # "unset",
         PersistTaskState(state, status)
  PROVE  /\ rowExists' \in BOOLEAN /\ rowStatus' \in Statuses
         /\ rowLog' \in SUBSET Entries /\ mem' \in SUBSET Entries
         /\ cacheStatus' \in Statuses \cup {"none", "expired"}
         /\ cacheLog' \in SUBSET Entries
<1> DEFINE merged == MergedState(cacheStatus, status, state)
<1>1. merged \in SUBSET Entries
  BY DEF MergedState, CancelledState, Entries, Marks
<1>2. Target(cacheStatus, status) \in Statuses
  BY DEF Target, TypeOK, Statuses, Active, Terminal, Verdicts
<1>3. Payload(cacheLog, merged) \in SUBSET Entries
  BY <1>1, PayloadType DEF TypeOK
<1>4. Column(cacheStatus, Target(cacheStatus, status)) \in Statuses
  BY <1>2 DEF Column, TypeOK
<1> QED
  BY <1>1, <1>2, <1>3, <1>4 DEF PersistTaskState, TypeOK

(* So does persist_progress, which the graph calls.                        *)
LEMMA ProgressType ==
  ASSUME TypeOK, NEW state \in SUBSET Entries,
         NEW status \in Statuses \cup {"unset"},
         PersistProgress(state, status)
  PROVE  /\ rowExists' \in BOOLEAN /\ rowStatus' \in Statuses
         /\ rowLog' \in SUBSET Entries /\ mem' \in SUBSET Entries
         /\ cacheStatus' \in Statuses \cup {"none", "expired"}
         /\ cacheLog' \in SUBSET Entries
<1>1. CASE PersistTaskState(state, status) /\ cacheStatus \in Statuses
  BY <1>1, PersistType
<1>2. CASE mem' \in {state, state \cup {"cancelled"}} /\ UNCHANGED <<row, cache>>
  BY <1>2 DEF TypeOK, row, cache, Entries, Marks
<1> QED
  BY <1>1, <1>2 DEF PersistProgress, CancelledState

(* The types are inductive.                                                *)
LEMMA TypeInductive == TypeOK /\ [Next]_vars => TypeOK'
<1> SUFFICES ASSUME TypeOK, [Next]_vars PROVE TypeOK'
  OBVIOUS
<1> USE DEF TypeOK, row, cache, client, executor, Entries, Marks, Statuses,
            Active, Terminal, Verdicts, PCs
<1>1. CASE SeedInterventionLog
  BY <1>1 DEF SeedInterventionLog
<1>2. CASE Dispatch
  <2>1. sync' \in BOOLEAN
    BY <1>2, Zenon DEF Dispatch, FallsBack
  <2>2. pc' \in PCs \ {"final"}
    BY <1>2 DEF Dispatch, FallsBack
  <2>3. UNCHANGED <<row, cache, origin, mem, verdict, softFired, handler,
                    client, ackedAt>>
    BY <1>2 DEF Dispatch, FallsBack
  <2> QED
    BY <2>1, <2>2, <2>3
<1>3. CASE WorkerLoad
  BY <1>3 DEF WorkerLoad, Starts, RefreshCopy
<1>4. CASE Claim
  BY <1>4 DEF Claim, Column
<1>5. CASE Reload
  BY <1>5 DEF Reload, RefreshCopy
<1>6. CASE ReloadExpired
  BY <1>6 DEF ReloadExpired, RefreshCopy
<1>7. CASE GraphStart
  <2>1. mem \cup {"started"} \in SUBSET Entries /\ "RUNNING" \in Statuses \cup {"unset"}
    OBVIOUS
  <2>2. PersistProgress(mem \cup {"started"}, "RUNNING")
    BY <1>7 DEF GraphStart
  <2> QED
    BY <1>7, <2>1, <2>2, ProgressType DEF GraphStart
<1>8. CASE RunNode
  BY <1>8 DEF RunNode
<1>9. CASE NodeProgress
  <2>1. mem \in SUBSET Entries /\ "unset" \in Statuses \cup {"unset"}
    OBVIOUS
  <2>2. PersistProgress(mem, "unset")
    BY <1>9 DEF NodeProgress
  <2> QED
    BY <1>9, <2>1, <2>2, ProgressType DEF NodeProgress
<1>10. CASE EndGraph
  BY <1>10 DEF EndGraph
<1>11. CASE GraphAborted
  <2>1. mem \cup {"failed"} \in SUBSET Entries /\ "FAILED" \in Statuses \cup {"unset"}
    OBVIOUS
  <2>2. PersistProgress(mem \cup {"failed"}, "FAILED")
    BY <1>11 DEF GraphAborted
  <2> QED
    BY <1>11, <2>1, <2>2, ProgressType DEF GraphAborted
<1>12. CASE FinishWorker
  BY <1>12 DEF FinishWorker, Verdict, RefreshBeforeVerdict, RefreshCopy, CancelledState
<1>13. CASE FinishSync
  BY <1>13 DEF FinishSync, Verdict
<1>14. CASE FinalPersist
  <2>1. CASE PersistTaskState(mem, verdict)
    <3>1. verdict # "unset" \/ cacheStatus \in Statuses
      BY <1>14 DEF FinalPersist
    <3> QED
      BY <1>14, <2>1, <3>1, PersistType DEF FinalPersist
  <2>2. CASE ~rowExists /\ UNCHANGED <<row, cache, mem>>
    BY <1>14, <2>2 DEF FinalPersist
  <2> QED
    BY <1>14, <2>1, <2>2 DEF FinalPersist
<1>15. CASE Settle
  BY <1>15 DEF Settle, RefreshCopy
<1>16. CASE Report
  BY <1>16 DEF Report
<1>17. CASE FailureLoad
  BY <1>17 DEF FailureLoad, RefreshCopy, AfterHandler
<1>18. CASE FailureCommit
  <2> DEFINE state == FailureState(cacheStatus)
             status == FailureStatus(cacheStatus)
  <2>1. state \in SUBSET Entries /\ status \in Statuses
    BY DEF FailureState, FailureStatus, CancelledState
  <2>2. status # "unset"
    BY DEF FailureStatus
  <2>3. CASE PersistTaskState(state, status)
    BY <1>18, <2>1, <2>2, <2>3, PersistType DEF FailureCommit, AfterHandler
  <2>4. CASE ~rowExists /\ UNCHANGED <<row, cache, mem>>
    BY <1>18, <2>4 DEF FailureCommit, AfterHandler
  <2> QED
    BY <1>18, <2>3, <2>4 DEF FailureCommit
<1>19. CASE NodeRaises
  BY <1>19 DEF NodeRaises
<1>20. CASE SoftLimit
  BY <1>20 DEF SoftLimit, AfterHandler
<1>21. CASE HardLimit
  BY <1>21 DEF HardLimit, KillHandler
<1>22. CASE Crash
  BY <1>22 DEF Crash
<1>23. ASSUME NEW c \in Clients, Client(c) PROVE TypeOK'
  <2>1. CASE ClientLoad(c)
    BY <2>1 DEF ClientLoad, ClientDone, Snapshot, Accepted, CancelFirst, MarkOnly
  <2>2. CASE MarkTaskCancelled(c)
    BY <2>2 DEF MarkTaskCancelled, ClientDone, Payload, CancelledState
  <2>3. CASE ClientRefresh(c)
    BY <2>3 DEF ClientRefresh, ClientDone, Snapshot
  <2>4. CASE MarkContinued(c)
    BY <2>4 DEF MarkContinued, ClientDone
  <2>5. CASE DeleteRun(c)
    <3>1. rowExists' \in BOOLEAN
      BY <2>5, Zenon DEF DeleteRun
    <3>2. ClientDone(c) /\ UNCHANGED <<rowStatus, rowLog, cache, executor, conts, ackedAt>>
      BY <2>5 DEF DeleteRun
    <3> QED
      BY <3>1, <3>2 DEF ClientDone
  <2> QED
    BY <1>23, <2>1, <2>2, <2>3, <2>4, <2>5 DEF Client
<1>24. CASE UNCHANGED vars
  BY <1>24 DEF vars
<1> QED
  BY <1>1, <1>2, <1>3, <1>4, <1>5, <1>6, <1>7, <1>8, <1>9, <1>10, <1>11, <1>12,
     <1>13, <1>14, <1>15, <1>16, <1>17, <1>18, <1>19, <1>20, <1>21, <1>22, <1>23, <1>24
     DEF Next, Executor, Fault

(* The initial states, for every origin, are well typed.                   *)
LEMMA TypeInit == Init => TypeOK
<1> SUFFICES ASSUME Init PROVE TypeOK
  OBVIOUS
<1>1. rowExists \in BOOLEAN /\ sync \in BOOLEAN /\ softFired \in BOOLEAN
  BY Zenon DEF Init
<1>2. pc \in {"seed", "dispatch"}
  BY DEF Init
<1> QED
  BY <1>1, <1>2 DEF Init, TypeOK, Statuses, Active, Terminal, Verdicts, PCs

(* Every reachable state is well typed.                                    *)
THEOREM TypeCorrect == Spec => []TypeOK
  BY TypeInit, TypeInductive, PTL DEF Spec
-----------------------------------------------------------------------------
(* What persist_task_state does to the status: a copy that is CANCELLED    *)
(* leaves the row alone, an unset status does too.                         *)
LEMMA PersistStatus ==
  ASSUME NEW state, NEW status, PersistTaskState(state, status)
  PROVE  /\ rowExists /\ rowExists'
         /\ cacheStatus = "CANCELLED" \/ status = "unset" \/ status = cacheStatus
              => rowStatus' = rowStatus /\ cacheStatus' \in {cacheStatus, "expired"}
         /\ ~(cacheStatus = "CANCELLED" \/ status = "unset" \/ status = cacheStatus)
              => rowStatus' = status /\ cacheStatus' \in {status, "expired"}
  BY DEF PersistTaskState, Target, Column

(* persist_progress writes a status only over a copy that is not CANCELLED.*)
LEMMA ProgressStatus ==
  ASSUME TypeOK, NEW state, NEW status, PersistProgress(state, status)
  PROVE  \/ UNCHANGED <<rowExists, rowStatus, cacheStatus>>
         \/ cacheStatus \in Statuses \ {"CANCELLED"} /\ PersistTaskState(state, status)
  BY DEF PersistProgress, row, cache

(* A run starts QUEUED, unclaimed and unacknowledged: the strengthening    *)
(* holds.                                                                  *)
LEMMA SafetyInit == Init => IInv
<1> SUFFICES ASSUME Init PROVE IInv
  OBVIOUS
<1>1. pc \in {"seed", "dispatch"}
  BY DEF Init
<1> QED
  BY <1>1, TypeInit DEF Init, IInv, PhaseInv, StatusInv, AckInv, Timely,
     CopyInv, Early, Running, Failure

(* Every action of the executor, of its faults and of the clients keeps    *)
(* the strengthening: the phases, the statuses each phase can see, and the *)
(* acknowledged cancellation.                                              *)
LEMMA SafetyInductive == IInv /\ [Next]_vars => IInv'
<1> SUFFICES ASSUME IInv, [Next]_vars
             PROVE  PhaseInv' /\ StatusInv' /\ AckInv' /\ CopyInv'
  BY TypeInductive DEF IInv
<1> USE DEF IInv, PhaseInv, StatusInv, AckInv, Timely, CopyInv,
            Early, Running, Failure, Fallen, Terminal, Verdicts, row, cache, client, executor
<1> DEFINE All == {"QUEUED", "RUNNING", "SUCCEEDED", "BUG_FOUND", "FAILED", "CANCELLED"}
<1>0. rowStatus \in All /\ handler \in 0..2 /\ (pc = "final" => verdict \in Terminal)
  BY DEF TypeOK, Statuses, Active
<1>1. CASE SeedInterventionLog
  BY <1>1 DEF SeedInterventionLog
<1>2. CASE Dispatch
  BY <1>2 DEF Dispatch, FallsBack
<1>3. CASE WorkerLoad
  BY <1>3 DEF WorkerLoad, Starts, RefreshCopy
<1>4. CASE Claim
  BY <1>4 DEF Claim, Column
<1>5. CASE Reload
  BY <1>5 DEF Reload, RefreshCopy
<1>6. CASE ReloadExpired
  BY <1>0, <1>6 DEF ReloadExpired, RefreshCopy
<1>7. CASE GraphStart
  <2>1. PersistProgress(mem \cup {"started"}, "RUNNING")
    BY <1>7 DEF GraphStart
  <2>2. /\ pc = "start" /\ pc' = "graph" /\ sync' = sync /\ handler' = handler
        /\ softFired' = softFired /\ ackedAt' = ackedAt
    BY <1>7 DEF GraphStart
  <2>3. CASE UNCHANGED <<rowExists, rowStatus, cacheStatus>>
    BY <2>2, <2>3
  <2>4. CASE /\ cacheStatus \in Statuses \ {"CANCELLED"}
             /\ PersistTaskState(mem \cup {"started"}, "RUNNING")
    <3>1. /\ rowExists /\ rowExists'
          /\ cacheStatus = "RUNNING" => rowStatus' = rowStatus
          /\ cacheStatus # "RUNNING" => rowStatus' = "RUNNING"
          /\ cacheStatus' \in {"RUNNING", "expired"}
      BY <2>4, PersistStatus
    <3> QED
      BY <1>0, <2>2, <2>4, <3>1 DEF Statuses, Active
  <2> QED
    BY <2>1, <2>3, <2>4, ProgressStatus
<1>8. CASE RunNode
  BY <1>8 DEF RunNode
<1>9. CASE NodeProgress
  BY <1>9, ProgressStatus, PersistStatus DEF NodeProgress
<1>10. CASE EndGraph
  BY <1>10 DEF EndGraph
<1>11. CASE GraphAborted
  BY <1>11, ProgressStatus, PersistStatus DEF GraphAborted
<1>12. CASE FinishWorker
  BY <1>12 DEF FinishWorker, Verdict, RefreshBeforeVerdict, RefreshCopy, CancelledState
<1>13. CASE FinishSync
  BY <1>13 DEF FinishSync, Verdict
<1>14. CASE FinalPersist
  <2>1. CASE PersistTaskState(mem, verdict) /\ pc' = "settle" /\ UNCHANGED handler
    BY <1>0, <1>14, <2>1, PersistStatus DEF FinalPersist
  <2>2. CASE ~rowExists /\ UNCHANGED row /\ UNCHANGED cache
    BY <1>14, <2>2 DEF FinalPersist
  <2> QED
    BY <1>14, <2>1, <2>2 DEF FinalPersist
<1>15. CASE Settle
  BY <1>0, <1>15 DEF Settle, RefreshCopy
<1>16. CASE Report
  BY <1>16 DEF Report
<1>17. CASE FailureLoad
  BY <1>0, <1>17 DEF FailureLoad, RefreshCopy, AfterHandler
<1>18. CASE FailureCommit
  BY <1>18, PersistStatus DEF FailureCommit, AfterHandler, FailureStatus, TypeOK
<1>19. CASE NodeRaises
  BY <1>19 DEF NodeRaises
<1>20. CASE SoftLimit
  BY <1>20 DEF SoftLimit, AfterHandler, TypeOK
<1>21. CASE HardLimit
  BY <1>21 DEF HardLimit, KillHandler
<1>22. CASE Crash
  BY <1>22 DEF Crash
<1>23. ASSUME NEW c \in Clients, Client(c)
       PROVE  PhaseInv' /\ StatusInv' /\ AckInv' /\ CopyInv'
  <2>1. CASE ClientLoad(c)
    BY <2>1 DEF ClientLoad
  <2>2. CASE MarkTaskCancelled(c)
    BY <2>2 DEF MarkTaskCancelled
  <2>3. CASE ClientRefresh(c)
    BY <2>3 DEF ClientRefresh
  <2>4. CASE MarkContinued(c)
    BY <2>4 DEF MarkContinued
  <2>5. CASE DeleteRun(c)
    BY <2>5 DEF DeleteRun
  <2> QED
    BY <1>23, <2>1, <2>2, <2>3, <2>4, <2>5 DEF Client
<1>24. CASE UNCHANGED vars
  BY <1>24 DEF vars
<1> QED
  BY <1>1, <1>2, <1>3, <1>4, <1>5, <1>6, <1>7, <1>8, <1>9, <1>10, <1>11, <1>12,
     <1>13, <1>14, <1>15, <1>16, <1>17, <1>18, <1>19, <1>20, <1>21, <1>22, <1>23, <1>24
     DEF Next, Executor, Fault

(* The inductive invariant holds in every reachable state.                 *)
THEOREM Safety == Spec => []IInv
  BY SafetyInit, SafetyInductive, PTL DEF Spec

(* A cancellation outside the two critical windows is honoured.            *)
THEOREM HonouredCancel == Spec => []CancelIsHonoured
<1>1. IInv => CancelIsHonoured
  BY DEF IInv, AckInv, Timely, CancelIsHonoured
<1> QED
  BY <1>1, Safety, PTL

(* After the failure handlers, the run is failed or cancelled.             *)
THEOREM FailureRecorded == Spec => []FailureReachesRow
<1>1. IInv => FailureReachesRow
  BY DEF IInv, StatusInv, Fallen, FailureReachesRow
<1> QED
  BY <1>1, Safety, PTL

(* A worker that ends leaves the run in a terminal status.                 *)
THEOREM WorkerSettles == Spec => []NoRunLeftActive
<1>1. ASSUME IInv, pc = "done", ~sync, rowExists PROVE rowStatus \in Terminal
  <2>1. handler \in {0, 1, 2}
    BY <1>1 DEF IInv, TypeOK
  <2>2. CASE handler = 0
    BY <1>1, <2>2 DEF IInv, StatusInv
  <2>3. CASE handler = 1
    BY <1>1, <2>3 DEF IInv, PhaseInv
  <2>4. CASE handler = 2
    BY <1>1, <2>4 DEF IInv, StatusInv, Fallen, Terminal, Verdicts
  <2> QED
    BY <2>1, <2>2, <2>3, <2>4
<1>2. IInv => NoRunLeftActive
  BY <1>1 DEF NoRunLeftActive
<1> QED
  BY <1>2, Safety, PTL
-----------------------------------------------------------------------------
ObservedStep == cacheStatus = "CANCELLED" /\ rowExists => rowStatus' = "CANCELLED"

(* A copy that shows the cancellation agrees with the row, and every write *)
(* through it leaves the status alone; the claim needs a QUEUED copy.      *)
LEMMA ObservedInStep ==
  ASSUME IInv, [Next]_vars PROVE ObservedStep
<1> SUFFICES ASSUME cacheStatus = "CANCELLED", rowExists
             PROVE  rowStatus' = "CANCELLED"
  BY DEF ObservedStep
<1> USE DEF row, cache, client, executor
<1>0. rowStatus = "CANCELLED"
  BY DEF IInv, CopyInv
<1>1. CASE UNCHANGED rowStatus
  BY <1>0, <1>1
<1>2. CASE \E state, status : PersistTaskState(state, status)
  BY <1>0, <1>2, PersistStatus
<1>3. CASE \E state, status : PersistProgress(state, status)
  BY <1>0, <1>3 DEF PersistProgress
<1>4. CASE Claim
  BY <1>4 DEF Claim, IInv, PhaseInv
<1>5. CASE GraphStart \/ NodeProgress \/ GraphAborted
  BY <1>3, <1>5 DEF GraphStart, NodeProgress, GraphAborted
<1>6. CASE FinalPersist
  BY <1>1, <1>2, <1>6 DEF FinalPersist
<1>7. CASE FailureCommit
  BY <1>1, <1>2, <1>7 DEF FailureCommit
<1>8. CASE Fault
  BY <1>1, <1>8 DEF Fault, NodeRaises, SoftLimit, HardLimit, Crash
<1>9. ASSUME NEW c \in Clients, Client(c) PROVE rowStatus' = "CANCELLED"
  BY <1>0, <1>9 DEF Client, ClientLoad, MarkTaskCancelled, ClientRefresh,
                    MarkContinued, DeleteRun
<1>10. CASE SeedInterventionLog \/ Dispatch \/ WorkerLoad \/ Reload \/ ReloadExpired
            \/ RunNode \/ EndGraph
  BY <1>1, <1>10 DEF SeedInterventionLog, Dispatch, WorkerLoad, Reload, ReloadExpired,
                     RunNode, EndGraph
<1>11. CASE FinishWorker \/ FinishSync \/ Settle \/ Report \/ FailureLoad
  BY <1>1, <1>11 DEF FinishWorker, FinishSync, Settle, Report, FailureLoad
<1>12. CASE UNCHANGED vars
  BY <1>1, <1>12 DEF vars
<1> QED
  BY <1>4, <1>5, <1>6, <1>7, <1>8, <1>9, <1>10, <1>11, <1>12 DEF Next, Executor

(* Once the executor's session has seen the cancellation, no path of the   *)
(* worker, of the fallback or of the failure handlers undoes it.           *)
THEOREM ObservedCancel == Spec => ObservedCancelIsFinal
<1>1. IInv /\ [Next]_vars => [ObservedStep]_vars
  BY ObservedInStep
<1>2. Spec => [][ObservedStep]_vars
  BY <1>1, Safety, PTL DEF Spec
<1> QED
  BY <1>2 DEF ObservedCancelIsFinal, ObservedStep
-----------------------------------------------------------------------------
CancelStep ==
  ~sync /\ pc \in {"reload", "start", "graph", "progress", "finish"}
    /\ rowStatus = "CANCELLED"
  => rowStatus' = "CANCELLED"

(* A progress write of a worker never carries the status column: the copy  *)
(* holds RUNNING, and so does the write, or the write has no status.       *)
LEMMA ProgressStep ==
  ASSUME IInv, [Next]_vars PROVE CancelStep
<1> SUFFICES ASSUME ~sync, rowStatus = "CANCELLED",
                    pc \in {"reload", "start", "graph", "progress", "finish"}
             PROVE  rowStatus' = "CANCELLED"
  BY DEF CancelStep
<1> USE DEF row, cache, client, executor
<1>1. CASE GraphStart
  <2>1. PersistProgress(mem \cup {"started"}, "RUNNING") /\ pc = "start"
    BY <1>1 DEF GraphStart
  <2>2. CASE /\ cacheStatus \in Statuses \ {"CANCELLED"}
             /\ PersistTaskState(mem \cup {"started"}, "RUNNING")
    <3>1. rowExists
      BY <2>2, PersistStatus
    <3>2. cacheStatus = "RUNNING"
      BY <2>1, <2>2, <3>1 DEF IInv, StatusInv, Running, Statuses, Active, Terminal, Verdicts
    <3> QED
      BY <2>2, <3>2, PersistStatus
  <2> QED
    BY <2>1, <2>2, ProgressStatus DEF IInv
<1>2. CASE NodeProgress
  <2>1. PersistProgress(mem, "unset")
    BY <1>2 DEF NodeProgress
  <2> QED
    BY <2>1, ProgressStatus, PersistStatus DEF IInv
<1>3. CASE Reload \/ ReloadExpired \/ RunNode \/ EndGraph \/ FinishWorker
  BY <1>3 DEF Reload, RefreshCopy, ReloadExpired, RunNode, EndGraph, FinishWorker
<1>4. CASE Fault
  BY <1>4 DEF Fault, NodeRaises, SoftLimit, HardLimit, Crash
<1>5. ASSUME NEW c \in Clients, Client(c) PROVE rowStatus' = "CANCELLED"
  BY <1>5 DEF Client, ClientLoad, MarkTaskCancelled, ClientRefresh, MarkContinued,
              DeleteRun
<1>6. CASE UNCHANGED vars
  BY <1>6 DEF vars
<1>7. CASE \/ SeedInterventionLog \/ Dispatch \/ WorkerLoad \/ Claim \/ GraphAborted
           \/ FinishSync \/ FinalPersist \/ Settle \/ Report \/ FailureLoad \/ FailureCommit
  BY <1>7 DEF SeedInterventionLog, Dispatch, WorkerLoad, Claim, GraphAborted,
              FinishSync, FinalPersist, Settle, Report, FailureLoad, FailureCommit
<1> QED
  BY <1>1, <1>2, <1>3, <1>4, <1>5, <1>6, <1>7 DEF Next, Executor

(* Between the claim and the final persist a cancelled row stays so.       *)
THEOREM ProgressSafe == Spec => ProgressKeepsCancel
<1>1. IInv /\ [Next]_vars => [CancelStep]_vars
  BY ProgressStep
<1>2. Spec => [][CancelStep]_vars
  BY <1>1, Safety, PTL DEF Spec
<1> QED
  BY <1>2 DEF ProgressKeepsCancel, CancelStep
-----------------------------------------------------------------------------
(* The mark of the cancellation in the log: it is there before the worker  *)
(* loads the run and after its final persist; in between progress writes   *)
(* may drop it, and the final persist knows of the cancellation.           *)
MarkInv ==
  /\ pc = "seed" => /\ ackedAt \in {"never", "seed"}
                    /\ rowStatus = "CANCELLED" => ackedAt = "seed"
  /\ pc = "final" /\ ~sync =>
       /\ cacheStatus = "CANCELLED" => verdict = "CANCELLED"
       /\ verdict = "CANCELLED" => "cancelled" \in mem
  /\ /\ pc \in {"dispatch", "queued", "settle", "report", "done"}
     /\ ~sync /\ handler = 0 /\ rowExists /\ rowStatus = "CANCELLED"
     /\ ackedAt # "seed" /\ conts = 0
     => "cancelled" \in rowLog

(* The final persist of a worker leaves a cancelled row marked.            *)
LEMMA FinalMarks ==
  ASSUME IInv, MarkInv, ~sync, pc = "final", PersistTaskState(mem, verdict)
  PROVE  rowStatus' = "CANCELLED" => "cancelled" \in rowLog'
<1>1. verdict \in Terminal /\ cacheStatus \in {"RUNNING", "CANCELLED", "expired"}
  BY DEF IInv, TypeOK, StatusInv, Running, PersistTaskState
<1>2. rowLog' = Payload(cacheLog, MergedState(cacheStatus, verdict, mem))
  BY DEF PersistTaskState
<1>3. CASE verdict = "CANCELLED"
  <2>1. "cancelled" \in MergedState(cacheStatus, verdict, mem)
    BY <1>3 DEF MergedState, MarkInv
  <2> QED
    BY <1>2, <2>1 DEF Payload
<1>4. CASE verdict # "CANCELLED"
  <2>1. cacheStatus # "CANCELLED" /\ verdict # cacheStatus /\ verdict # "unset"
    BY <1>1, <1>4 DEF MarkInv, Terminal, Verdicts
  <2> QED
    BY <1>4, <2>1, PersistStatus
<1> QED
  BY <1>3, <1>4

(* Every step keeps the mark where it has to be.                           *)
LEMMA MarkInductive ==
  ASSUME IInv, MarkInv, [Next]_vars
  PROVE  MarkInv'
<1> USE DEF MarkInv, row, cache, client, executor
<1>0. /\ pc \in Failure => handler # 0
      /\ cacheStatus = "none" => ~rowExists
  BY DEF IInv, PhaseInv
<1>1. CASE SeedInterventionLog
  BY <1>1 DEF SeedInterventionLog
<1>2. CASE Dispatch
  BY <1>2 DEF Dispatch, FallsBack
<1>3. CASE WorkerLoad
  BY <1>3 DEF WorkerLoad, Starts, RefreshCopy
<1>4. CASE Claim \/ Reload \/ ReloadExpired
  BY <1>4 DEF Claim, Reload, ReloadExpired
<1>5. CASE GraphStart \/ RunNode \/ EndGraph
  BY <1>5 DEF GraphStart, RunNode, EndGraph
<1>6. CASE NodeProgress
  BY <1>6 DEF NodeProgress
<1>7. CASE GraphAborted
  BY <1>7 DEF GraphAborted
<1>8. CASE FinishWorker
  BY <1>0, <1>8 DEF FinishWorker, Verdict, RefreshBeforeVerdict, CancelledState, Verdicts
<1>9. CASE FinishSync
  BY <1>9 DEF FinishSync
<1>10. CASE FinalPersist
  <2>1. CASE sync
    BY <1>10, <2>1 DEF FinalPersist
  <2>2. CASE ~sync /\ PersistTaskState(mem, verdict) /\ pc' = "settle"
    <3>1. pc = "final" /\ UNCHANGED <<sync, conts, ackedAt>>
      BY <1>10 DEF FinalPersist
    <3> QED
      BY <2>2, <3>1, FinalMarks
  <2>3. CASE ~sync /\ pc' = "fail_load"
    BY <2>3
  <2> QED
    BY <1>10, <2>1, <2>2, <2>3 DEF FinalPersist
<1>11. CASE Settle
  BY <1>11 DEF Settle
<1>12. CASE Report
  BY <1>12 DEF Report
<1>13. CASE FailureLoad \/ FailureCommit
  BY <1>0, <1>13 DEF FailureLoad, FailureCommit, AfterHandler, Failure
<1>14. CASE Fault
  BY <1>0, <1>14 DEF Fault, NodeRaises, SoftLimit, HardLimit, Crash, AfterHandler, KillHandler,
     Failure
<1>15. ASSUME NEW c \in Clients, Client(c) PROVE MarkInv'
  <2>1. CASE ClientLoad(c) \/ ClientRefresh(c) \/ DeleteRun(c)
    BY <2>1 DEF ClientLoad, ClientRefresh, DeleteRun
  <2>2. CASE MarkTaskCancelled(c)
    <3>1. CASE rowExists
      <4>1. "cancelled" \in rowLog'
        BY <2>2, <3>1 DEF MarkTaskCancelled, Payload, CancelledState
      <4> QED
        BY <2>2, <3>1, <4>1 DEF MarkTaskCancelled
    <3>2. CASE ~rowExists
      BY <2>2, <3>2 DEF MarkTaskCancelled
    <3> QED
      BY <3>1, <3>2
  <2>3. CASE MarkContinued(c)
    <3>1. conts' # 0
      BY <2>3 DEF MarkContinued, IInv, TypeOK
    <3> QED
      BY <2>3, <3>1 DEF MarkContinued
  <2> QED
    BY <1>15, <2>1, <2>2, <2>3 DEF Client
<1>16. CASE UNCHANGED vars
  BY <1>16 DEF vars
<1> QED
  BY <1>1, <1>2, <1>3, <1>4, <1>5, <1>6, <1>7, <1>8, <1>9, <1>10, <1>11, <1>12, <1>13,
     <1>14, <1>15, <1>16 DEF Next, Executor

(* A cancelled run whose worker ended without an exception says so in its  *)
(* log, whatever progress writes overwrote in between.                     *)
THEOREM MarkSurvives == Spec => []CancelMarkSurvives
<1>1. Init => MarkInv
  BY DEF Init, MarkInv
<1>2. IInv /\ MarkInv /\ [Next]_vars => MarkInv'
  BY MarkInductive
<1>3. MarkInv => CancelMarkSurvives
  BY DEF MarkInv, CancelMarkSurvives
<1> QED
  BY <1>1, <1>2, <1>3, Safety, PTL DEF Spec
=============================================================================
