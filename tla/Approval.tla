------------------------------ MODULE Approval ------------------------------
(***************************************************************************)
(* Human approval of guarded writes in a v2 run.  The agent loop files a   *)
(* request in the run's execution_log and polls it; API requests answer    *)
(* it; progress writes, cancellation and the final persist rewrite the     *)
(* whole log meanwhile, each from the copy its own session loaded.         *)
(*                                                                         *)
(* rec is the list v2_approval_requests of the committed log, stRec the    *)
(* one in the agent state, copyRec and csnap the ones in the session       *)
(* copies of the worker and of the clients.  A deleted row never returns.  *)
(* The commits of one session are atomic and seen by every later load.     *)
(***************************************************************************)
CONSTANTS
  Requests,   \* guarded tool calls the model may make, each with its own id
  Clients,    \* API requests on the run
  Acts,       \* what they may be: subset of {"answer", "cancel", "delete"}
  Locals,     \* subset of BOOLEAN; TRUE: agent loop in the API process
  Policies    \* execution policies that ask for approval

ASSUME RequestsAssumption == "none" \notin Requests
ASSUME ActsAssumption     == Acts \subseteq {"answer", "cancel", "delete"}
ASSUME LocalsAssumption   == Locals \subseteq BOOLEAN
ASSUME PoliciesAssumption == Policies \subseteq {"safe_with_auth", "write_allowed"}

Votes   == {"approve", "deny"}
Answers == {"approved", "denied"}
Records == [Requests -> Answers \cup {"none", "pending", "timed_out"}]

VARIABLES
  rowStatus, rec,           \* the committed row
  local, policy,            \* where the loop runs, the run's execution policy
  pc, req, granted,         \* agent loop: where, on which request, what it was told
  copyStatus, copyRec,      \* the worker session's copy of the row
  stRec,                    \* state["v2_approval_requests"]
  future, expired,          \* per request: in-process answer, deadline over
  decision, how,            \* history: what became of the request, and through what
  cpc, csnap, cask,         \* API requests: where, log copy, <<request, vote>>
  accepted,                 \* history: <<client, request, vote>> answered with 200
  lost                      \* history: requests a client's stale list wrote over

row    == <<rowStatus, rec>>
mode   == <<local, policy>>
copy   == <<copyStatus, copyRec>>
call   == <<req, granted, decision, how>>
loop   == <<pc, call, copy, stRec, expired>>
past   == <<accepted, lost>>
client == <<cpc, csnap, cask>>
vars   == <<row, mode, loop, future, client, past>>

PCs == {"idle", "file", "file_commit", "poll", "timeout", "timeout_commit", "act",
        "report", "wrapup", "final", "done", "aborting", "aborted"}

Blank == [r \in Requests |-> "none"]

Init ==
  /\ rowStatus = "RUNNING" /\ rec = Blank
  /\ local \in Locals /\ policy \in Policies
  /\ pc = "idle" /\ req = "none" /\ granted = FALSE
  /\ copyStatus = "RUNNING" /\ copyRec = Blank /\ stRec = Blank
  /\ future = Blank
  /\ expired = [r \in Requests |-> FALSE]
  /\ decision = [r \in Requests |-> "open"] /\ how = Blank
  /\ cpc = [c \in Clients |-> "idle"]
  /\ csnap = [c \in Clients |-> Blank]
  /\ cask = [c \in Clients |-> <<"none", "none">>]
  /\ accepted = {} /\ lost = {}
-----------------------------------------------------------------------------
(* persist_progress in the loop: nothing over a copy that is cancelled or  *)
(* gone; otherwise the state's list replaces the row's.  The error of a    *)
(* write to a deleted row is swallowed, and its rollback drops the copy.   *)
Written == stRec

PersistProgress ==
  \/ copyStatus \in {"CANCELLED", "gone"} /\ UNCHANGED <<row, copy>>
  \/ /\ copyStatus = "RUNNING" /\ rowStatus # "deleted"
     /\ rec' = Written /\ copyRec' = Written
     /\ UNCHANGED <<rowStatus, copyStatus>>
  \/ /\ copyStatus = "RUNNING" /\ rowStatus = "deleted"
     /\ copyStatus' = "gone" /\ UNCHANGED <<row, copyRec>>

(* _load_task: db.get and db.refresh.                                      *)
LoadTask == rowStatus # "deleted" /\ copyStatus' = rowStatus /\ copyRec' = rec

(* A tool call the guard lets through, or blocks: only its progress is     *)
(* written, with the list the state holds.                                 *)
UnguardedCall ==
  /\ pc = "idle" /\ PersistProgress
  /\ UNCHANGED <<mode, pc, call, stRec, expired, future, client, past>>

(* _handle_tool_call: the guard asks for approval; progress is persisted.  *)
Ask(r) ==
  /\ pc = "idle" /\ decision[r] = "open"
  /\ pc' = "file" /\ req' = r /\ granted' = FALSE
  /\ PersistProgress
  /\ UNCHANGED <<mode, stRec, expired, decision, how, future, client, past>>

(* _persist_request: load and append, then commit the list.                *)
PersistRequest ==
  /\ pc = "file" /\ LoadTask
  /\ stRec' = [rec EXCEPT ![req] = "pending"]
  /\ pc' = "file_commit"
  /\ UNCHANGED <<row, mode, call, expired, future, client, past>>

PersistRecords ==
  /\ pc \in {"file_commit", "timeout_commit"}
  /\ IF rowStatus = "deleted"
       THEN pc' = "aborting" /\ UNCHANGED <<rec, copyRec, how>>
       ELSE /\ rec' = stRec /\ copyRec' = stRec
            /\ \/ pc = "file_commit" /\ pc' = "poll" /\ UNCHANGED how
               \/ /\ pc = "timeout_commit" /\ pc' = "act"
                  /\ how' = [how EXCEPT ![req] = "timeout"]
  /\ UNCHANGED <<rowStatus, mode, req, granted, decision, copyStatus, stRec, expired,
                 future, client, past>>

(* request_approval, top of the loop: the in-process future is done.       *)
PollFuture ==
  /\ pc = "poll" /\ future[req] # "none"
  /\ granted' = (future[req] = "approve")
  /\ how' = [how EXCEPT ![req] = "future"]
  /\ pc' = "act"
  /\ UNCHANGED <<row, mode, req, decision, copy, stRec, expired, future, client, past>>

(* The persisted record answers, the deadline is over, or wait and retry.  *)
StaleState == UNCHANGED stRec
StateFollows == stRec' = rec
NoDeadline(r) == FALSE /\ expired[r]
Overdue(r) == expired[r]

PollRecord ==
  /\ pc = "poll" /\ future[req] = "none" /\ LoadTask
  /\ StateFollows
  /\ \/ /\ rec[req] \in Answers
        /\ granted' = (rec[req] = "approved")
        /\ how' = [how EXCEPT ![req] = "poll"]
        /\ pc' = "act"
     \/ /\ rec[req] \notin Answers
        /\ pc' = IF Overdue(req) THEN "timeout" ELSE "poll"
        /\ UNCHANGED <<granted, how>>
  /\ UNCHANGED <<row, mode, req, decision, expired, future, client, past>>

(* _mark_timeout: only a pending record is marked, and only then does the  *)
(* state follow; the loop answers False either way.                        *)
MarkTimeout ==
  /\ pc = "timeout" /\ LoadTask
  /\ \/ /\ rec[req] = "pending"
        /\ stRec' = [rec EXCEPT ![req] = "timed_out"]
        /\ pc' = "timeout_commit" /\ UNCHANGED how
     \/ /\ rec[req] # "pending"
        /\ how' = [how EXCEPT ![req] = "late"]
        /\ pc' = "act" /\ UNCHANGED stRec
  /\ UNCHANGED <<row, mode, req, granted, decision, expired, future, client, past>>

(* The row was deleted.  A session that noticed finds no task and goes on  *)
(* without a record; the refresh of one that did not raises.               *)
NoTask ==
  /\ copyStatus = "gone"
  /\ \/ pc = "file" /\ pc' = "poll" /\ UNCHANGED how
     \/ /\ pc = "poll" /\ future[req] = "none"
        /\ pc' = IF Overdue(req) THEN "timeout" ELSE "poll"
        /\ UNCHANGED how
     \/ /\ pc = "timeout" /\ pc' = "act"
        /\ how' = [how EXCEPT ![req] = "late"]
  /\ UNCHANGED <<row, mode, req, granted, decision, copy, stRec, expired, future,
                 client, past>>

RefreshRaises ==
  /\ rowStatus = "deleted" /\ copyStatus # "gone"
  /\ \/ pc \in {"file", "timeout"}
     \/ pc = "poll" /\ future[req] = "none"
  /\ pc' = "aborting"
  /\ UNCHANGED <<row, mode, call, copy, stRec, expired, future, client, past>>

(* The tool runs if it was granted and ToolExecutor's own policy check     *)
(* lets a write through.                                                   *)
Ungated(told, allowed) == told \in BOOLEAN /\ allowed = "write_allowed"
Runs(told, allowed) == told /\ allowed = "write_allowed"

Act ==
  /\ pc = "act"
  /\ decision' = [decision EXCEPT
       ![req] = IF Runs(granted, policy) THEN "executed" ELSE "refused"]
  /\ pc' = "report"
  /\ UNCHANGED <<row, mode, req, granted, how, copy, stRec, expired, future, client,
                 past>>

ReportCall ==
  /\ pc = "report" /\ PersistProgress
  /\ pc' = "idle"
  /\ UNCHANGED <<mode, call, stRec, expired, future, client, past>>

(* finish, a failed LLM call or the last turn end the loop; the graph's    *)
(* node updates are persisted, then _run or the route persists the end     *)
(* state, over a cancelled row too.                                        *)
EndLoop ==
  /\ pc = "idle" /\ pc' = "wrapup"
  /\ UNCHANGED <<row, mode, call, copy, stRec, expired, future, client, past>>

NodeUpdate ==
  /\ pc = "wrapup" /\ PersistProgress
  /\ pc' = "final"
  /\ UNCHANGED <<mode, call, stRec, expired, future, client, past>>

FinalPersist ==
  /\ pc = "final" /\ pc' = "done"
  /\ IF rowStatus = "deleted" THEN UNCHANGED <<rec, copy>>
     ELSE rec' = stRec /\ copyRec' = stRec /\ copyStatus' = rowStatus
  /\ UNCHANGED <<rowStatus, mode, call, stRec, expired, future, client, past>>

(* An exception out of request_approval, the soft time limit among them.   *)
(* run_graph_with_progress persists its own state, which has no list: the  *)
(* one of the session copy is written back.                                *)
Raise ==
  /\ pc \in {"file", "file_commit", "poll", "timeout", "timeout_commit"}
  /\ pc' = "aborting"
  /\ UNCHANGED <<row, mode, call, copy, stRec, expired, future, client, past>>

PersistFailure ==
  /\ pc = "aborting" /\ pc' = "aborted"
  /\ rec' = IF copyStatus = "RUNNING" /\ rowStatus # "deleted" THEN copyRec ELSE rec
  /\ UNCHANGED <<rowStatus, mode, call, copy, stRec, expired, future, client, past>>

(* The clock: the deadline is set when the request has been persisted.     *)
Deadline ==
  /\ pc = "poll" /\ ~expired[req]
  /\ expired' = [expired EXCEPT ![req] = TRUE]
  /\ UNCHANGED <<row, mode, pc, call, copy, stRec, future, client, past>>
-----------------------------------------------------------------------------
(* API requests: load, check what was loaded, commit on it.                *)
ClientDone(c) ==
  /\ cpc' = [cpc EXCEPT ![c] = "done"]
  /\ csnap' = [csnap EXCEPT ![c] = Blank]
  /\ cask' = [cask EXCEPT ![c] = <<"none", "none">>]

(* History: the records that changed since the client loaded the list.     *)
Overwrites(c) == lost' = lost \cup {r \in Requests : rec[r] # csnap[c][r]}

Begin(c, act, ask) ==
  /\ cpc' = [cpc EXCEPT ![c] = act]
  /\ csnap' = [csnap EXCEPT ![c] = rec]
  /\ cask' = [cask EXCEPT ![c] = ask]

(* resolve_persisted_request: 404 unless the record is pending.            *)
AnyStatus(status) == status # "none"
Answerable(status) == status = "pending"

ClientLoad(c) ==
  /\ cpc[c] = "idle"
  /\ \/ /\ "answer" \in Acts
        /\ \E r \in Requests, v \in Votes :
             IF rowStatus # "deleted" /\ Answerable(rec[r])
               THEN Begin(c, "answer", <<r, v>>) ELSE ClientDone(c)
     \/ /\ "cancel" \in Acts
        /\ IF rowStatus = "RUNNING" THEN Begin(c, "cancel", cask[c]) ELSE ClientDone(c)
     \/ /\ "delete" \in Acts
        /\ IF rowStatus # "deleted" THEN Begin(c, "delete", cask[c]) ELSE ClientDone(c)
  /\ UNCHANGED <<row, mode, loop, future, past>>

(* The loaded list is committed with the answer in it, then the channel of *)
(* this process, if the loop runs here and waits for it, is resolved too.  *)
Waiting(r) ==
  req = r /\ pc \in {"file", "file_commit", "poll", "timeout", "timeout_commit"}

Recorded(v) == IF v = "approve" THEN "approved" ELSE "denied"

AnswerRequest(c) ==
  LET r == cask[c][1]
      v == cask[c][2]
  IN  /\ cpc[c] = "answer"
      /\ IF rowStatus = "deleted" THEN UNCHANGED <<rec, past, future>>
         ELSE /\ rec' = [csnap[c] EXCEPT ![r] = Recorded(v)]
              /\ accepted' = accepted \cup {<<c, r, v>>} /\ Overwrites(c)
              /\ future' = IF local /\ Waiting(r) /\ future[r] = "none"
                             THEN [future EXCEPT ![r] = v] ELSE future
      /\ ClientDone(c)
      /\ UNCHANGED <<rowStatus, mode, loop>>

(* mark_task_cancelled commits the log it loaded, the list included.       *)
CancelRun(c) ==
  /\ cpc[c] = "cancel"
  /\ IF rowStatus = "deleted" THEN UNCHANGED <<row, lost>>
     ELSE rowStatus' = "CANCELLED" /\ rec' = csnap[c] /\ Overwrites(c)
  /\ ClientDone(c)
  /\ UNCHANGED <<mode, loop, future, accepted>>

DeleteRun(c) ==
  /\ cpc[c] = "delete" /\ rowStatus' = "deleted"
  /\ ClientDone(c)
  /\ UNCHANGED <<rec, mode, loop, future, past>>
-----------------------------------------------------------------------------
Worker ==
  \/ UnguardedCall \/ (\E r \in Requests : Ask(r)) \/ PersistRequest \/ PersistRecords
  \/ PollFuture \/ PollRecord \/ MarkTimeout \/ NoTask \/ RefreshRaises \/ Act
  \/ ReportCall \/ EndLoop \/ NodeUpdate \/ FinalPersist \/ PersistFailure

Client(c) == ClientLoad(c) \/ AnswerRequest(c) \/ CancelRun(c) \/ DeleteRun(c)

Next == Worker \/ Raise \/ Deadline \/ \E c \in Clients : Client(c)

Spec == Init /\ [][Next]_vars

(* The loop runs and time passes; nobody has to answer.                    *)
FairSpec == Spec /\ WF_vars(Worker) /\ WF_vars(Deadline)
-----------------------------------------------------------------------------
(* Every variable has its type.                                            *)
TypeOK ==
  /\ rowStatus \in {"RUNNING", "CANCELLED", "deleted"} /\ rec \in Records
  /\ local \in Locals /\ policy \in Policies
  /\ pc \in PCs /\ req \in Requests \cup {"none"} /\ granted \in BOOLEAN
  /\ copyStatus \in {"RUNNING", "CANCELLED", "gone"}
  /\ copyRec \in Records /\ stRec \in Records
  /\ future \in [Requests -> Votes \cup {"none"}]
  /\ expired \in [Requests -> BOOLEAN]
  /\ decision \in [Requests -> {"open", "executed", "refused"}]
  /\ how \in [Requests -> {"none", "future", "poll", "timeout", "late"}]
  /\ cpc \in [Clients -> {"idle", "answer", "cancel", "delete", "done"}]
  /\ csnap \in [Clients -> Records]
  /\ cask \in [Clients -> (Requests \cup {"none"}) \X (Votes \cup {"none"})]
  /\ accepted \subseteq Clients \X Requests \X Votes /\ lost \subseteq Requests

(* The whole of it keeps what human approval promises (ApprovalPromise):   *)
(* stale snapshots, lost updates and timeouts included, no write without   *)
(* an accepted approval, none twice, no refusal out of nothing.            *)
Given(r, v) == \E c \in Clients : <<c, r, v>> \in accepted

Promise == INSTANCE ApprovalPromise WITH
  answers <- [r \in Requests |-> {v \in Votes : Given(r, v)}],
  late <- expired,
  outcome <- decision

ImplementsPromise == Promise!Spec

(* What is on file for a request that a decision of the loop settled.      *)
Agrees(status, outcome, through) ==
  IF through = "timeout" THEN status = "timed_out"
  ELSE /\ outcome = "executed" => status = "approved"
       /\ status \in Answers

(* _load_persisted_request, _mark_timeout and the final persist: when the  *)
(* run ends, the log shows for each request that was decided by polling or *)
(* by the timeout what was decided, although progress writes of a stale    *)
(* state and other sessions' whole-log writes came in between.  Only an    *)
(* API request that commits a list it loaded before can spoil that.        *)
AuditAgrees ==
  [][ pc = "final" /\ pc' = "done" /\ rowStatus # "deleted" =>
        \A r \in Requests \ lost : how[r] \in {"poll", "timeout"} =>
          Agrees(rec'[r], decision[r], how[r]) ]_vars

(* resolve_persisted_request: of several answers to one request the API    *)
(* accepts one, unless a concurrent API request wrote over it with a stale *)
(* list, or the loop left without having read the answer from the row.     *)
SoleAnswer ==
  \A a, b \in accepted :
    /\ a[2] = b[2] /\ a[2] \notin lost
    /\ how[a[2]] \in {"none", "poll", "timeout"} /\ pc # "aborted"
    => a = b

(* request_approval: the loop never waits for a human for ever; it gets an *)
(* answer, gives up at the deadline, or leaves with an exception.          *)
EventuallyDecided == pc = "poll" ~> pc \in {"report", "aborted"}
-----------------------------------------------------------------------------
(* An inductive invariant that implies the promise.                        *)

(* No list, wherever it is kept, holds an answer nobody gave.              *)
Grounded(list) ==
  \A r \in Requests : /\ list[r] = "approved" => Given(r, "approve")
                      /\ list[r] = "denied" => Given(r, "deny")

GroundInv ==
  /\ Grounded(rec) /\ Grounded(copyRec) /\ Grounded(stRec)
  /\ \A c \in Clients : Grounded(csnap[c])
  /\ \A r \in Requests, v \in Votes : future[r] = v => Given(r, v)

(* What the loop was told has a reason, and it was not told before.        *)
WaitInv ==
  /\ pc \in {"file", "file_commit", "poll", "timeout", "timeout_commit", "act"}
       => req \in Requests /\ decision[req] = "open"
  /\ pc \in {"file", "file_commit", "poll", "timeout", "timeout_commit"} => ~granted
  /\ pc \in {"timeout", "timeout_commit"} => expired[req]
  /\ pc = "act" =>
       IF granted THEN Given(req, "approve") ELSE Given(req, "deny") \/ expired[req]

AskInv == \A c \in Clients : cpc[c] = "answer" => cask[c] \in Requests \X Votes

IInv == TypeOK /\ GroundInv /\ WaitInv /\ AskInv
=============================================================================
