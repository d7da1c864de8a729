---------------------------- MODULE RunLifecycle ----------------------------
(***************************************************************************)
(* The life of one run: the row of table `tasks`, the executor that drives *)
(* the agent graph for it (a Celery worker, or the API process itself when *)
(* the broker is down), and the API requests that touch the same row.      *)
(*                                                                         *)
(* Every actor has an SQLAlchemy session of its own.  Sessions are opened  *)
(* with expire_on_commit=False, so the copy of the row in a session's      *)
(* identity map is refreshed only where the code calls db.refresh, or      *)
(* after a rollback expired it: cacheStatus and cacheLog are that copy for *)
(* the executor, snapStatus and snapLog for the API clients.  An UPDATE    *)
(* carries the columns whose value differs from the copy, and no others.   *)
(*                                                                         *)
(* execution_log is abstracted to the set of entries it holds: the steps   *)
(* the graph's nodes append, and the marks other operations leave.         *)
(***************************************************************************)
EXTENDS Naturals, FiniteSets

CONSTANTS
  Nodes,      \* the graph node updates a run can go through
  Clients,    \* concurrent API requests on the run
  Ops,        \* what they may ask for: subset of {"cancel","intervene","delete"}
  Origins,    \* the routes that created the run
  Brokers,    \* outcomes of run_agent_task.delay: subset of {"up","down"}
  Flushes,    \* outcomes of AgentRuntimeEventStore.flush_state
  Faults      \* subset of {"raise","soft","hard","crash"}

Active   == {"QUEUED", "RUNNING"}
Verdicts == {"SUCCEEDED", "BUG_FOUND", "FAILED"}
Terminal == Verdicts \cup {"CANCELLED"}
Statuses == Active \cup Terminal

\* Marks that are not node steps. "context" is intervention_context, the one
\* key a route writes that is not in EXECUTION_LOG_KEYS; "source" stands for
\* agent_source_run_id and the other listed keys of the seed.
Marks   == {"started", "failed", "worker_failed", "cancel", "cancelled",
            "continued", "context", "source"}
Entries == Nodes \cup Marks

ASSUME NodesAssumption   == Nodes # {} /\ Nodes \cap Marks = {}
ASSUME OpsAssumption     == Ops \subseteq {"cancel", "intervene", "delete"}
ASSUME OriginsAssumption ==
  Origins # {} /\ Origins \subseteq {"run", "intervention", "task_rerun"}
ASSUME BrokersAssumption == Brokers # {} /\ Brokers \subseteq {"up", "down"}
ASSUME FlushesAssumption == Flushes # {} /\ Flushes \subseteq BOOLEAN

VARIABLES
  rowExists, rowStatus, rowLog,   \* the committed row
  origin, sync,                   \* creating route; TRUE: in the API process
  pc,                             \* where the executor is
  cacheStatus, cacheLog,          \* the executor session's copy of the row
  mem,                            \* what the agent state would add to the log
  verdict,                        \* final_status computed, not yet persisted
  softFired,                      \* the soft time limit was raised already
  handler,                        \* 0: none, 1: except clause, 2: task_failure
  cpc, cop, snapStatus, snapLog,  \* the API clients
  conts,                          \* continuation runs created (at most one a client)
  ackedAt                         \* history: pc when the first cancel committed

row    == <<rowExists, rowStatus, rowLog>>
cache  == <<cacheStatus, cacheLog>>
client == <<cpc, cop, snapStatus, snapLog, conts>>
vars   == <<row, origin, sync, pc, cache, mem, verdict, softFired, handler,
            client, ackedAt>>

PCs == {"seed", "dispatch", "queued", "claim", "reload", "start", "graph",
        "progress", "abort", "finish", "final", "settle", "report",
        "fail_load", "fail_commit", "done", "lost", "crashed"}

Quiet == {"done", "lost", "crashed"}
-----------------------------------------------------------------------------
(* The session copy as db.refresh, or a first db.get, loads it.            *)
RefreshCopy == cacheStatus' = rowStatus /\ cacheLog' = rowLog

(* build_execution_log_payload: previous entries and the state's own are   *)
(* merged, what is not a listed key is left out.                           *)
Payload(previous, state) == (previous \cup state) \ {"context"}

UnmarkedState(state)  == state
CancelledState(state) == state \cup {"cancelled"}

(* persist_task_state on the session copy <<status, log>>: a copy that is  *)
(* already CANCELLED forces CANCELLED; an unset status is left alone; only *)
(* changed columns reach the row.  flush_state swallows its own failure,   *)
(* but its rollback expires the copy.  The commit needs the row.           *)
Target(current, status) ==
  IF current = "CANCELLED" \/ status = "unset" THEN current ELSE status

MergedState(current, status, state) ==
  IF current = "CANCELLED" /\ status # "CANCELLED"
    THEN CancelledState(state) ELSE state

WholeRow(current, target) == target
Column(current, target) == IF target = current THEN rowStatus ELSE target

PersistTaskState(state, status) ==
  LET target == Target(cacheStatus, status)
      merged == MergedState(cacheStatus, status, state)
  IN  /\ rowExists
      /\ rowStatus' = Column(cacheStatus, target)
      /\ rowLog' = Payload(cacheLog, merged)
      /\ mem' = merged
      /\ cacheLog' = Payload(cacheLog, merged)
      /\ \E ok \in Flushes : cacheStatus' = IF ok THEN target ELSE "expired"
      /\ UNCHANGED rowExists

(* persist_progress: the row comes from db.get, that is from the session   *)
(* copy.  No row, no write; a cancelled copy only marks the state; an      *)
(* error of the write (here: the row was deleted) is swallowed.            *)
PersistProgress(state, status) ==
  \/ /\ \/ cacheStatus = "none"
        \/ cacheStatus = "expired" /\ ~rowExists
        \/ cacheStatus \in Statuses \ {"CANCELLED"} /\ ~rowExists
     /\ mem' = state
     /\ UNCHANGED <<row, cache>>
  \/ /\ cacheStatus = "CANCELLED"
     /\ mem' = CancelledState(state)
     /\ UNCHANGED <<row, cache>>
  \/ /\ cacheStatus \in Statuses \ {"CANCELLED"}
     /\ PersistTaskState(state, status)
-----------------------------------------------------------------------------
Init ==
  /\ rowExists = TRUE /\ rowStatus = "QUEUED" /\ rowLog = {}
  /\ origin \in Origins
  /\ sync = FALSE
  /\ pc = IF origin = "intervention" THEN "seed" ELSE "dispatch"
  /\ cacheStatus = "QUEUED" /\ cacheLog = {}
  /\ mem = {} /\ verdict = "unset" /\ softFired = FALSE /\ handler = 0
  /\ cpc = [c \in Clients |-> "idle"]
  /\ cop = [c \in Clients |-> "none"]
  /\ snapStatus = [c \in Clients |-> "none"]
  /\ snapLog = [c \in Clients |-> {}]
  /\ conts = 0
  /\ ackedAt = "never"

executor == <<pc, origin, sync, mem, verdict, softFired, handler>>

(* _seed_intervention_execution_log: overwrites the log of the run just    *)
(* created from the copy taken at its creation, then refreshes.            *)
SeedInterventionLog ==
  /\ pc = "seed"
  /\ IF rowExists
       THEN /\ pc' = "dispatch"
            /\ rowLog' = {"context", "source"}
            /\ cacheStatus' = rowStatus
            /\ cacheLog' = {"context", "source"}
       ELSE pc' = "lost" /\ UNCHANGED <<rowLog, cache>>
  /\ UNCHANGED <<rowExists, rowStatus, origin, sync, mem, verdict, softFired,
                 handler, client, ackedAt>>

FallsBack(route) == route # "task_rerun"

(* run_agent_task.delay, and the routes' fallback when it raises: runs and *)
(* tasks are executed in the request, on the session that created the row; *)
(* rerun_task only logs the failure.                                       *)
Dispatch ==
  /\ pc = "dispatch"
  /\ \/ "up" \in Brokers /\ pc' = "queued" /\ UNCHANGED sync
     \/ /\ "down" \in Brokers /\ FallsBack(origin)
        /\ pc' = "start" /\ sync' = TRUE
     \/ /\ "down" \in Brokers /\ ~FallsBack(origin)
        /\ pc' = "lost" /\ UNCHANGED sync
  /\ UNCHANGED <<row, cache, origin, mem, verdict, softFired, handler, client,
                 ackedAt>>

(* Head of _run: a session of the worker's own reads the row, and does not *)
(* start a run that is cancelled already.                                  *)
AlwaysStarts(status) == status \in Statuses
Starts(status) == status # "CANCELLED"

WorkerLoad ==
  /\ pc = "queued"
  /\ IF rowExists
       THEN /\ RefreshCopy
            /\ pc' = IF Starts(rowStatus) THEN "claim" ELSE "done"
       ELSE /\ cacheStatus' = "none" /\ cacheLog' = {}
            /\ pc' = "start"
  /\ UNCHANGED <<row, origin, sync, mem, verdict, softFired, handler, client,
                 ackedAt>>

(* update_status(RUNNING): an unguarded write, then (Reload) the refresh.  *)
Claim ==
  /\ pc = "claim"
  /\ IF rowExists
       THEN /\ rowStatus' = Column(cacheStatus, "RUNNING")
            /\ cacheStatus' = "RUNNING"
            /\ pc' = "reload" /\ UNCHANGED handler
       ELSE pc' = "fail_load" /\ handler' = 1 /\ UNCHANGED <<rowStatus, cacheStatus>>
  /\ UNCHANGED <<rowExists, rowLog, cacheLog, origin, sync, mem, verdict,
                 softFired, client, ackedAt>>

Reload ==
  /\ pc = "reload"
  /\ IF rowExists
       THEN /\ RefreshCopy
            /\ pc' = "start" /\ UNCHANGED handler
       ELSE pc' = "fail_load" /\ handler' = 1 /\ UNCHANGED cache
  /\ UNCHANGED <<row, origin, sync, mem, verdict, softFired, client, ackedAt>>

(* db.get of a copy that a rollback expired reads the row again.           *)
ReloadExpired ==
  /\ pc \in {"start", "progress", "abort"}
  /\ cacheStatus = "expired" /\ rowExists
  /\ RefreshCopy
  /\ UNCHANGED <<row, executor, client, ackedAt>>

(* run_graph_with_progress: the first persist, then one per node update.   *)
GraphStart ==
  /\ pc = "start"
  /\ PersistProgress(mem \cup {"started"}, "RUNNING")
  /\ pc' = "graph"
  /\ UNCHANGED <<origin, sync, verdict, softFired, handler, client, ackedAt>>

RunNode ==
  /\ pc = "graph"
  /\ \E n \in Nodes \ mem : mem' = mem \cup {n}
  /\ pc' = "progress"
  /\ UNCHANGED <<row, cache, origin, sync, verdict, softFired, handler, client,
                 ackedAt>>

NodeProgress ==
  /\ pc = "progress"
  /\ PersistProgress(mem, "unset")
  /\ pc' = IF "cancelled" \in mem' THEN "finish" ELSE "graph"
  /\ UNCHANGED <<origin, sync, verdict, softFired, handler, client, ackedAt>>

EndGraph ==
  /\ pc = "graph" /\ mem \cap Nodes # {}
  /\ pc' = "finish"
  /\ UNCHANGED <<row, cache, origin, sync, mem, verdict, softFired, handler,
                 client, ackedAt>>

(* The graph raised: FAILED is persisted on the session copy, the          *)
(* exception goes on to run_agent_task, or to the HTTP request.            *)
GraphAborted ==
  /\ pc = "abort"
  /\ PersistProgress(mem \cup {"failed"}, "FAILED")
  /\ IF sync THEN pc' = "done" /\ handler' = 1
             ELSE pc' = "fail_load" /\ handler' = 1
  /\ UNCHANGED <<origin, sync, verdict, softFired, client, ackedAt>>

(* Tail of _run: the worker refreshes its copy before it decides; the      *)
(* synchronous routes do not, and reading an expired copy raises.          *)
Verdict(v) == IF "cancelled" \in mem THEN "CANCELLED" ELSE v

KeepCopy == UNCHANGED cache
RefreshBeforeVerdict == RefreshCopy

FinishWorker ==
  /\ pc = "finish" /\ ~sync
  /\ \/ /\ cacheStatus = "none"
        /\ pc' = "report" /\ UNCHANGED <<cache, mem, verdict, handler>>
     \/ /\ cacheStatus # "none" /\ rowExists
        /\ RefreshBeforeVerdict
        /\ IF cacheStatus' = "CANCELLED"
             THEN /\ mem' = CancelledState(mem)
                  /\ verdict' = "CANCELLED"
             ELSE /\ \E v \in Verdicts : verdict' = Verdict(v)
                  /\ UNCHANGED mem
        /\ pc' = "final" /\ UNCHANGED handler
     \/ /\ cacheStatus # "none" /\ ~rowExists
        /\ pc' = "fail_load" /\ handler' = 1
        /\ UNCHANGED <<cache, mem, verdict>>
  /\ UNCHANGED <<row, origin, sync, softFired, client, ackedAt>>

FinishSync ==
  /\ pc = "finish" /\ sync
  /\ IF cacheStatus = "expired"
       THEN pc' = "done" /\ handler' = 1 /\ UNCHANGED verdict
       ELSE /\ \E v \in Verdicts : verdict' = Verdict(v)
            /\ pc' = "final" /\ UNCHANGED handler
  /\ UNCHANGED <<row, cache, origin, sync, mem, softFired, client, ackedAt>>

FinalPersist ==
  /\ pc = "final"
  /\ \/ PersistTaskState(mem, verdict) /\ pc' = "settle" /\ UNCHANGED handler
     \/ /\ ~rowExists
        /\ pc' = (IF sync THEN "done" ELSE "fail_load") /\ handler' = 1
        /\ UNCHANGED <<row, cache, mem>>
  /\ verdict' = "unset"
  /\ UNCHANGED <<origin, sync, softFired, client, ackedAt>>

(* refresh=True at the end of persist_task_state.                          *)
Settle ==
  /\ pc = "settle"
  /\ IF rowExists
       THEN /\ RefreshCopy
            /\ pc' = (IF sync THEN "done" ELSE "report") /\ UNCHANGED handler
       ELSE /\ pc' = (IF sync THEN "done" ELSE "fail_load") /\ handler' = 1
            /\ UNCHANGED cache
  /\ UNCHANGED <<row, origin, sync, mem, verdict, softFired, client, ackedAt>>

(* The bug report is inserted in another table; the row is done with.      *)
Report ==
  /\ pc = "report"
  /\ pc' = "done"
  /\ UNCHANGED <<row, cache, origin, sync, mem, verdict, softFired, handler,
                 client, ackedAt>>

(* persist_terminal_worker_failure, run by the except clause (handler 1)   *)
(* and again by the task_failure signal (handler 2), each in a session of  *)
(* its own.  Errors are swallowed.                                         *)
AfterHandler ==
  IF handler = 1 THEN pc' = "fail_load" /\ handler' = 2
                 ELSE pc' = "done" /\ UNCHANGED handler

FailureLoad ==
  /\ pc = "fail_load"
  /\ IF rowExists
       THEN /\ RefreshCopy
            /\ pc' = "fail_commit" /\ UNCHANGED handler
       ELSE UNCHANGED cache /\ AfterHandler
  /\ mem' = {"worker_failed"} /\ verdict' = "unset"
  /\ UNCHANGED <<row, origin, sync, softFired, client, ackedAt>>

FailureUnlessTerminal(current) == IF current \in Terminal THEN current ELSE "FAILED"
FailureStatus(current) ==
  IF current = "CANCELLED" THEN "CANCELLED" ELSE "FAILED"

FailureState(current) ==
  IF current = "CANCELLED" THEN CancelledState({"worker_failed"}) ELSE {"worker_failed"}

FailureCommit ==
  /\ pc = "fail_commit"
  /\ \/ PersistTaskState(FailureState(cacheStatus), FailureStatus(cacheStatus))
     \/ ~rowExists /\ UNCHANGED <<row, cache, mem>>
  /\ AfterHandler
  /\ UNCHANGED <<origin, sync, verdict, softFired, client, ackedAt>>
-----------------------------------------------------------------------------
(* Faults of the executor.  An exception of a node, or of the graph.       *)
NodeRaises ==
  /\ "raise" \in Faults /\ pc = "graph"
  /\ pc' = "abort"
  /\ UNCHANGED <<row, cache, origin, sync, mem, verdict, softFired, handler,
                 client, ackedAt>>

(* Celery raises SoftTimeLimitExceeded, an Exception, wherever the worker  *)
(* is, once.  In the graph it aborts it; inside persist_progress or a      *)
(* failure handler the except clause there swallows it with the write;     *)
(* anywhere else it leaves _run.                                           *)
SoftLimit ==
  /\ "soft" \in Faults /\ ~softFired /\ ~sync
  /\ softFired' = TRUE
  /\ \/ pc = "graph" /\ pc' = "abort" /\ UNCHANGED <<handler, mem>>
     \/ /\ pc = "start" /\ mem' = mem \cup {"started"}
        /\ pc' = "graph" /\ UNCHANGED handler
     \/ /\ pc = "progress"
        /\ pc' = IF "cancelled" \in mem THEN "finish" ELSE "graph"
        /\ UNCHANGED <<handler, mem>>
     \/ /\ pc \in {"abort", "claim", "reload", "finish", "final", "settle", "report"}
        /\ pc' = "fail_load" /\ handler' = 1 /\ UNCHANGED mem
     \/ pc \in {"fail_load", "fail_commit"} /\ AfterHandler /\ UNCHANGED mem
  /\ verdict' = "unset"
  /\ UNCHANGED <<row, cache, origin, sync, client, ackedAt>>

(* The hard limit comes after the soft one: the child is killed, and the   *)
(* parent's task_failure signal runs the handler.                          *)
NoKillHandler == pc' = "done" /\ UNCHANGED handler
KillHandler   == pc' = "fail_load" /\ handler' = 2

HardLimit ==
  /\ "hard" \in Faults /\ softFired /\ pc \notin Quiet /\ handler # 2
  /\ KillHandler /\ verdict' = "unset"
  /\ UNCHANGED <<row, cache, origin, sync, mem, softFired, client, ackedAt>>

(* The machine of the executor is lost.  Celery acknowledges on receipt,   *)
(* so nothing is redelivered; a message still queued is not lost.          *)
Crash ==
  /\ "crash" \in Faults /\ pc \notin Quiet \cup {"queued"}
  /\ pc' = "crashed"
  /\ UNCHANGED <<row, cache, origin, sync, mem, verdict, softFired, handler,
                 client, ackedAt>>
-----------------------------------------------------------------------------
(* API requests.  Each loads the row, checks what it saw, and commits on   *)
(* it later.  Any answer, a 4xx or 5xx too, ends the request: its session  *)
(* is closed and its copy of the row is gone.                              *)
ClientDone(c) ==
  /\ cpc' = [cpc EXCEPT ![c] = "done"] /\ cop' = [cop EXCEPT ![c] = "none"]
  /\ snapStatus' = [snapStatus EXCEPT ![c] = "none"]
  /\ snapLog' = [snapLog EXCEPT ![c] = {}]

Snapshot(c) == /\ snapStatus' = [snapStatus EXCEPT ![c] = rowStatus]
               /\ snapLog' = [snapLog EXCEPT ![c] = rowLog]

CancelFirst(op, status) == op \in {"cancel", "intervene"} /\ status \in Active
MarkOnly(op, status) ==
  op = "intervene" /\ status \in {"FAILED", "BUG_FOUND", "CANCELLED"}

Accepted(op, status) ==
  IF op = "delete" THEN {"delete"}
  ELSE IF CancelFirst(op, status) THEN {"cancel"}
  ELSE IF MarkOnly(op, status) THEN {"mark"} ELSE {}

ClientLoad(c) ==
  /\ cpc[c] = "idle"
  /\ \E op \in Ops :
       \/ \E step \in Accepted(op, rowStatus) :
            /\ rowExists
            /\ cop' = [cop EXCEPT ![c] = op] /\ cpc' = [cpc EXCEPT ![c] = step]
            /\ Snapshot(c)
       \/ /\ ~rowExists \/ Accepted(op, rowStatus) = {}
          /\ ClientDone(c)
  /\ UNCHANGED <<row, cache, executor, conts, ackedAt>>

(* mark_task_cancelled, committed.  _revoke_worker_task revokes the row's  *)
(* id, which is no Celery task id: the executor does not notice.           *)
MarkTaskCancelled(c) ==
  /\ cpc[c] = "cancel"
  /\ IF rowExists
       THEN /\ rowStatus' = "CANCELLED"
            /\ rowLog' = Payload(snapLog[c], CancelledState({"cancel"}))
            /\ ackedAt' = IF ackedAt = "never" THEN pc ELSE ackedAt
       ELSE UNCHANGED <<rowStatus, rowLog, ackedAt>>
  /\ IF rowExists /\ cop[c] = "intervene"
       THEN cpc' = [cpc EXCEPT ![c] = "refresh"]
            /\ UNCHANGED <<cop, snapStatus, snapLog>>
       ELSE ClientDone(c)
  /\ UNCHANGED <<rowExists, cache, executor, conts>>

ClientRefresh(c) ==
  /\ cpc[c] = "refresh"
  /\ IF rowExists
       THEN cpc' = [cpc EXCEPT ![c] = "mark"] /\ Snapshot(c) /\ UNCHANGED cop
       ELSE ClientDone(c)
  /\ UNCHANGED <<row, cache, executor, conts, ackedAt>>

(* create_run_intervention creates the continuation run, then overwrites   *)
(* the source's log with the log it loaded plus the continuation keys.     *)
MarkContinued(c) ==
  /\ cpc[c] = "mark"
  /\ conts' = conts + 1
  /\ rowLog' = IF rowExists THEN snapLog[c] \cup {"continued"} ELSE rowLog
  /\ ClientDone(c)
  /\ UNCHANGED <<rowExists, rowStatus, cache, executor, ackedAt>>

(* delete_run has no guard on the status.                                  *)
DeleteRun(c) ==
  /\ cpc[c] = "delete"
  /\ rowExists' = FALSE
  /\ ClientDone(c)
  /\ UNCHANGED <<rowStatus, rowLog, cache, executor, conts, ackedAt>>
-----------------------------------------------------------------------------
Executor ==
  \/ SeedInterventionLog \/ Dispatch \/ WorkerLoad \/ Claim \/ Reload
  \/ ReloadExpired \/ GraphStart \/ RunNode \/ NodeProgress \/ EndGraph
  \/ GraphAborted \/ FinishWorker \/ FinishSync \/ FinalPersist \/ Settle
  \/ Report \/ FailureLoad \/ FailureCommit

Fault == NodeRaises \/ SoftLimit \/ HardLimit \/ Crash

Client(c) == ClientLoad(c) \/ MarkTaskCancelled(c) \/ ClientRefresh(c)
             \/ MarkContinued(c) \/ DeleteRun(c)

Next == Executor \/ Fault \/ \E c \in Clients : Client(c)

Spec == Init /\ [][Next]_vars

(* A delivered task runs to its end; users ask for nothing in particular,  *)
(* but a request that was accepted is carried out.                         *)
FairSpec == Spec /\ WF_vars(Executor)
-----------------------------------------------------------------------------
(* Every variable has its type.                                            *)
TypeOK ==
  /\ rowExists \in BOOLEAN /\ rowStatus \in Statuses /\ rowLog \in SUBSET Entries
  /\ origin \in Origins /\ sync \in BOOLEAN /\ pc \in PCs
  /\ cacheStatus \in Statuses \cup {"none", "expired"}
  /\ cacheLog \in SUBSET Entries /\ mem \in SUBSET Entries
  /\ verdict \in Terminal \cup {"unset"} /\ (pc = "final" => verdict \in Terminal)
  /\ softFired \in BOOLEAN /\ handler \in 0..2
  /\ cpc \in [Clients -> {"idle", "cancel", "refresh", "mark", "delete", "done"}]
  /\ cop \in [Clients -> Ops \cup {"none"}]
  /\ snapStatus \in [Clients -> Statuses \cup {"none"}]
  /\ snapLog \in [Clients -> SUBSET Entries]
  /\ conts \in Nat
  /\ ackedAt \in PCs \cup {"never"}

(* persist_task_state, persist_progress, _run: once the executor's session *)
(* has seen the run cancelled, whatever it, its exception paths and its    *)
(* failure handlers do later, the row is and stays cancelled.              *)
ObservedCancelIsFinal ==
  [][ cacheStatus = "CANCELLED" /\ rowExists => rowStatus' = "CANCELLED" ]_vars

(* A cancellation committed while a worker owns the run is in the row when *)
(* the worker ends, if no exception left the graph and the commit did not  *)
(* fall between a read of the status and the write decided on it: the      *)
(* check and the update at the head of _run, the refresh and the persist   *)
(* at its tail.  Stale progress writes in between do not matter.           *)
CancelIsHonoured ==
  pc = "done" /\ ~sync /\ handler = 0 /\ rowExists
    /\ ackedAt \notin {"never", "claim", "final"}
  => rowStatus = "CANCELLED"

(* run_agent_task and the task_failure signal: when both failure handlers  *)
(* are through, after an exception, a swallowed soft limit or a hard kill, *)
(* the run is failed or cancelled.                                         *)
FailureReachesRow ==
  pc = "done" /\ handler = 2 /\ rowExists => rowStatus \in {"FAILED", "CANCELLED"}

(* A worker that ends leaves no run active.                                *)
NoRunLeftActive ==
  pc = "done" /\ ~sync /\ rowExists => rowStatus \in Terminal

(* _run: a run whose worker ends without an exception and that is          *)
(* cancelled says so in its log, although progress writes overwrote the    *)
(* mark of mark_task_cancelled.  Two writers do lose the mark for good:    *)
(* the seed of an intervention's log, and the continuation mark.           *)
CancelMarkSurvives ==
  pc = "done" /\ ~sync /\ handler = 0 /\ rowExists /\ rowStatus = "CANCELLED"
    /\ ackedAt # "seed" /\ conts = 0
  => "cancelled" \in rowLog

(* Between the claim and the final persist, a worker whose graph did not   *)
(* raise never turns a cancelled row into anything else.                   *)
ProgressKeepsCancel ==
  [][ ~sync /\ pc \in {"reload", "start", "graph", "progress", "finish"}
        /\ rowStatus = "CANCELLED"
      => rowStatus' = "CANCELLED" ]_vars

(* Every run is settled in the end, for good: the executor finishes, or a  *)
(* failure handler writes the failure.  Two runs are left as they are:     *)
(* that of a synchronous fallback left by an exception, which has no such  *)
(* handler, and one whose rerun the broker refuses, which has no fallback  *)
(* (tasks.py:139-140): its row stays what the request made of it.          *)
EventuallySettled ==
  <>[]( \/ ~rowExists
        \/ rowStatus \in Terminal
        \/ sync /\ handler = 1
        \/ origin = "task_rerun" /\ pc = "lost" )
-----------------------------------------------------------------------------
(* What the repository's contract says, and the code does not do.          *)

(* database-guidelines.md:471: a cancelled task is kept CANCELLED and not  *)
(* overwritten with success or failure.                                    *)
CancelledIsKept ==
  [][rowStatus = "CANCELLED" => rowStatus' = "CANCELLED"]_vars

-----------------------------------------------------------------------------
(* An inductive strengthening of the invariants above.                     *)

(* A session copy that shows the cancellation shows the row as it is.      *)
CopyInv == cacheStatus = "CANCELLED" /\ rowExists => rowStatus = "CANCELLED"

Early   == {"seed", "dispatch", "queued", "claim"}
Running == {"start", "graph", "progress", "abort", "finish", "final"}
Failure == {"fail_load", "fail_commit"}
Fallen  == {"FAILED", "CANCELLED"}

(* Which phases go with which executor: only a worker loads, claims,       *)
(* reports, is timed out or runs the failure handlers.                     *)
PhaseInv ==
  /\ pc \in Early \cup {"reload", "report"} \cup Failure => ~sync
  /\ softFired => ~sync /\ pc \notin {"seed", "dispatch", "queued"}
  /\ handler # 0 => pc \in Failure \cup {"done", "crashed"}
  /\ pc \in Failure => handler # 0
  /\ pc = "done" /\ handler = 1 => sync
  /\ cacheStatus = "none" => ~rowExists
  /\ pc = "claim" => cacheStatus = "QUEUED"

(* What the row and the session copy can hold in each phase of a worker.   *)
StatusInv ==
  rowExists =>
    /\ pc \in Early => rowStatus \in {"QUEUED", "CANCELLED"}
    /\ ~sync /\ pc \in Running \cup {"reload"} => rowStatus \in {"RUNNING", "CANCELLED"}
    /\ ~sync /\ pc \in Running => cacheStatus \in {"RUNNING", "CANCELLED", "expired"}
    /\ ~sync /\ handler = 0 /\ pc \in {"settle", "report", "done"}
         => rowStatus \in Terminal
    /\ handler = 2 /\ (pc = "done" \/ ~softFired) => rowStatus \in Fallen
    /\ pc = "fail_commit" /\ cacheStatus \in Fallen => rowStatus \in Fallen

(* When the cancellation came at no critical moment, the row shows it; the *)
(* claim and the final persist were decided on a copy that shows it.       *)
Timely == ackedAt \notin {"never", "claim", "final"}

AckInv ==
  /\ ~sync /\ handler = 0 /\ rowExists /\ Timely => rowStatus = "CANCELLED"
  /\ pc = "claim" /\ rowExists => ~Timely
  /\ ~sync /\ pc = "final" /\ rowExists /\ Timely => cacheStatus = "CANCELLED"

IInv == TypeOK /\ PhaseInv /\ StatusInv /\ AckInv /\ CopyInv
=============================================================================
