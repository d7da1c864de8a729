----------------------------- MODULE RunEvents ------------------------------
(***************************************************************************)
(* The records an agent run leaves (actions, tool calls, evidence,         *)
(* observations, evaluations): the lists of the agent state, their copy in *)
(* execution_log, the tables flush_state fills under one sequence, and the *)
(* clients that stream the run (stream_run_events).                        *)
(*                                                                         *)
(* A record is its number in the order in which it was appended; kinds     *)
(* holds what it is.  Content is left out, so an item appended again with  *)
(* the identity it had is no new record.  One executor writes the records  *)
(* of a run; the clients write events of their own under the same sequence *)
(* (streamTop is their highest), which is why a flush reads a maximum.     *)
(***************************************************************************)
EXTENDS Naturals, Sequences, FiniteSets

CONSTANTS
  Clients,     \* SSE connections
  MaxRecords,  \* AGENT_PROTOCOL_MAX_RECORDS, what a list of the state holds
  MaxNodes,    \* bound: progress writes before the verdict
  MaxCalls,    \* bound: tool calls of the run
  MaxPlans     \* bound: action plans of the run

ASSUME MaxRecordsAssumption == MaxRecords \in Nat \ {0}

\* In the order flush_state stores them.
KindOrder == <<"action", "tool_call", "evidence", "observation", "evaluation">>
Kinds     == {KindOrder[i] : i \in DOMAIN KindOrder}
Rank(k)   == CHOOSE i \in DOMAIN KindOrder : KindOrder[i] = k

\* In the order load_runtime_detail selects them.
Selects == <<"action", "observation", "evaluation", "tool_call", "evidence">>

VARIABLES
  pc,         \* executor: "plan", "node", "log", "read", "write", "done"
  back,       \* where the executor goes on after the flush
  node,       \* progress writes begun: of a node, or within it
  kinds,      \* Seq(Kinds): the kind of each record, in the order of appending
  held,       \* the records in the lists of the agent state
  flushNext,  \* the sequence the running flush read, 0 without one
  flushed,    \* history: the flush after the verdict was committed
  saved,      \* history: the records stored when the verdict was written
  stored,     \* record -> sequence: the rows of the four tables and their events
  streamTop,  \* the highest sequence of an event a client wrote
  row,        \* the run: status and log (version and lists); status "none": deleted
  clients     \* Clients -> connection

vars == <<pc, back, node, kinds, held, flushNext, flushed, saved, stored, streamTop, row,
          clients>>

Statuses == {"running", "finished", "failed", "cancelled"}
Terminal == {"finished", "failed", "cancelled"}

Records == 1 .. Len(kinds)
OfKind(S, k) == {r \in S : kinds[r] = k}
NoLog == [version |-> 0, lists |-> {}]
NoDetail == [k \in Kinds |-> {}]

\* A connection.  seen is what it last emitted, now what it polled, detail
\* what it has selected of select - 1 tables, shown the last snapshot.
Idle == [pc |-> "off", next |-> 0, seen |-> [status |-> "none", version |-> 0],
         now |-> [status |-> "none", log |-> NoLog], select |-> 1,
         detail |-> NoDetail, shown |-> NoDetail]

TypeOK ==
  /\ pc \in {"plan", "node", "log", "read", "write", "done"}
  /\ back \in {"plan", "log", "done"}
  /\ node \in Nat
  /\ kinds \in Seq(Kinds)
  /\ held \subseteq Records
  /\ flushNext \in Nat
  /\ flushed \in BOOLEAN
  /\ saved \subseteq DOMAIN stored
  /\ DOMAIN stored \subseteq Records
  /\ stored \in [DOMAIN stored -> Nat]
  /\ streamTop \in Nat
  /\ row.status \in Statuses \cup {"none"}
  /\ row.log.version \in Nat
  /\ row.log.lists \subseteq Records
  /\ \A c \in Clients :
       /\ clients[c].pc \in {"off", "poll", "select", "end", "closed"}
       /\ clients[c].next \in Nat
       /\ clients[c].select \in 1 .. Len(Selects) + 1
       /\ \A k \in Kinds : clients[c].detail[k] \cup clients[c].shown[k] \subseteq OfKind(Records, k)

Init ==
  /\ pc = "plan"
  /\ back = "plan"
  /\ node = 1
  /\ kinds = << >>
  /\ held = {}
  /\ flushNext = 0
  /\ flushed = FALSE
  /\ saved = {}
  /\ stored = [r \in {} |-> 0]
  /\ streamTop = 0
  /\ row = [status |-> "running", log |-> NoLog]
  /\ clients = [c \in Clients |-> Idle]

----------------------------------------------------------------------------
(* The executor. *)

Tables  == <<flushNext, flushed, stored, streamTop>>
Store   == <<Tables, saved>>
Outside == <<streamTop, clients>>

InNode == pc \in {"plan", "node"}

\* _append_protocol_record keeps the last MaxRecords of a list; the actions are
\* no such list, each plan replaces them.
Trimmed(S) ==
  {r \in S : kinds'[r] = "action"
             \/ Cardinality({q \in S : kinds'[q] = kinds'[r] /\ q > r}) < MaxRecords}

\* append_api_result_observations, append_ui_result_observations: what a request
\* or command leaves, and append_evaluation_protocol: what is made of it.
ResultLeaves     == <<"tool_call", "evidence", "observation">>
EvaluationLeaves == <<"evaluation">>
Left             == ResultLeaves \o EvaluationLeaves

\* AgentRuntime.run_action, at the most: a blocked call has no evidence, the
\* results of a stage are evaluated together.
CallTool ==
  /\ InNode
  /\ pc' = "node"
  /\ Cardinality(OfKind(Records, "tool_call")) < MaxCalls
  /\ kinds' = kinds \o Left
  /\ held' = Trimmed(held \cup {Len(kinds) + i : i \in DOMAIN Left})
  /\ UNCHANGED <<back, node, Store, row, clients>>

\* AgentRuntime.validate_plan, at the head of a runner: a plan takes the place of
\* the one before; an action whose number and tool are those of an earlier one
\* has its identity.
ReplaceActions ==
  /\ pc = "plan"
  /\ pc' = "node"
  /\ Cardinality(OfKind(Records, "action")) < MaxPlans
  /\ \E old \in SUBSET OfKind(Records, "action") :
       held' = (held \ OfKind(Records, "action")) \cup old \cup {Len(kinds) + 1}
  /\ kinds' = Append(kinds, "action")
  /\ UNCHANGED <<back, node, Store, row, clients>>

\* A runner flushes before it reports (flush_stage_events).
FlushStage ==
  /\ InNode
  /\ pc' = "read"
  /\ back' = "log"
  /\ UNCHANGED <<node, kinds, held, Store, row, clients>>

\* Or goes straight to its progress write.
EndNode ==
  /\ InNode
  /\ pc' = "log"
  /\ UNCHANGED <<back, node, kinds, held, Store, row, clients>>

Written(status, lists) ==
  [status |-> status, log |-> [version |-> row.log.version + 1, lists |-> lists]]

\* Where the executor goes from its write: the last node is followed by the
\* verdict's (_run).
After == IF node > MaxNodes THEN "done" ELSE IF node = MaxNodes THEN "log" ELSE "plan"

\* persist_task_state: the log is committed, then the state is flushed.  The
\* write of a node leaves the status alone, the last one sets it.  A session
\* that knows of a cancellation skips the write of a node (persist_progress)
\* and keeps the status; one that does not overwrites it (module RunLifecycle).
WriteLog ==
  /\ pc = "log"
  /\ row.status # "none"
  /\ node' = node + 1
  /\ back' = After
  /\ IF node > MaxNodes
     THEN /\ row' \in {Written(s, held) : s \in {"finished", row.status} \ {"running"}}
          /\ saved' = DOMAIN stored
     ELSE row' = Written(row.status, held) /\ UNCHANGED saved
  /\ pc' = "read"
  /\ UNCHANGED <<kinds, held, Tables, clients>>

\* The row is gone, or a node finds it cancelled: nothing is written or flushed.
SkipLog ==
  /\ pc = "log"
  /\ row.status = "none" \/ (row.status = "cancelled" /\ node <= MaxNodes)
  /\ node' = node + 1
  /\ pc' = After
  /\ UNCHANGED <<back, kinds, held, Store, row, clients>>

\* A node raises: the failure handlers write FAILED over the log, whose lists
\* they keep, from a state without records.
Abort ==
  /\ InNode
  /\ pc' = "done"
  /\ row' = CASE row.status = "none"      -> row
              [] row.status = "cancelled" -> Written("cancelled", row.log.lists)
              [] OTHER                    -> Written("failed", row.log.lists)
  /\ UNCHANGED <<back, node, kinds, held, Store, clients>>

----------------------------------------------------------------------------
(* flush_state *)

MaxOf(S) == CHOOSE m \in S : \A x \in S : x <= m
Sequences == {stored[r] : r \in DOMAIN stored}

\* Mutant: only the clients' events count.
NextOfStream == streamTop + 1

\* _next_sequence
NextSequence == MaxOf(Sequences \cup {streamTop, 0}) + 1

FlushRead ==
  /\ pc = "read"
  /\ flushNext' = NextSequence
  /\ pc' = "write"
  /\ UNCHANGED <<back, node, kinds, held, flushed, saved, stored, streamTop, row, clients>>

\* The five _flush functions pass each other the sequence; within a list
\* the order is that of appending.
Before(q, r) ==
  \/ Rank(kinds[q]) < Rank(kinds[r])
  \/ kinds[q] = kinds[r] /\ q < r

Position(r, new) == Cardinality({q \in new : Before(q, r)})

\* What is not stored yet gets a row and an event.
Flushed ==
  LET new == held \ DOMAIN stored
  IN [r \in DOMAIN stored \cup new |->
        IF r \in new THEN flushNext + Position(r, new) ELSE stored[r]]

FlushCommit ==
  /\ pc = "write"
  /\ stored' = Flushed
  /\ flushNext' = 0
  /\ flushed' = (back = "done")
  /\ pc' = back
  /\ back' = "plan"
  /\ UNCHANGED <<node, kinds, held, saved, streamTop, row, clients>>

\* Any exception: rolled back and logged, the run goes on.
FlushFail ==
  /\ pc = "write"
  /\ flushNext' = 0
  /\ pc' = back
  /\ back' = "plan"
  /\ UNCHANGED <<node, kinds, held, flushed, saved, stored, streamTop, row, clients>>

Execute ==
  \/ CallTool \/ ReplaceActions \/ FlushStage \/ EndNode \/ WriteLog \/ SkipLog
  \/ Abort \/ FlushRead \/ FlushCommit \/ FlushFail

----------------------------------------------------------------------------
(* The API: a cancellation and a deletion. *)

Executor == <<pc, back, node, kinds, held, flushNext, flushed, saved, stored>>

\* mark_task_cancelled: its state has no run to flush.
Cancel ==
  /\ row.status = "running"
  /\ row' = Written("cancelled", row.log.lists)
  /\ UNCHANGED <<Executor, Outside>>

Delete ==
  /\ row.status # "none"
  /\ row' = [status |-> "none", log |-> NoLog]
  /\ UNCHANGED <<Executor, Outside>>

----------------------------------------------------------------------------
(* stream_run_events, one coroutine per connection.  What it emits after a read *)
(* depends on that read and its own count: read and emission are one step.     *)

\* A connection's step, on its own record.
Moves(c, change) ==
  /\ clients' = [clients EXCEPT ![c] = change]
  /\ UNCHANGED <<Executor, row>>

\* What the browser keeps.
Close(cl) == [Idle EXCEPT !.pc = "closed", !.seen = cl.seen, !.shown = cl.shown]

\* _emit of n events, each persisted in a session of its own with the client's
\* count.  That _persist_run_event may fail is left out: it only lowers the
\* maximum, as a client that connected earlier does.
Emits(c, n) == streamTop' = MaxOf({streamTop, clients[c].next + n - 1})

\* stream_run, then _next_run_event_sequence, which answers 1 when it fails
Connect(c) ==
  /\ clients[c].pc = "off"
  /\ row.status # "none"
  /\ \E n \in {1, NextSequence} :
       Moves(c, [clients[c] EXCEPT !.pc = "poll", !.next = n])
  /\ UNCHANGED streamTop

\* A status that is new is emitted; a log that is new needs the tables.
Poll(c) ==
  /\ clients[c].pc = "poll"
  /\ row.status # "none"
  /\ LET new == row.status # clients[c].seen.status
     IN /\ Moves(c, [clients[c] EXCEPT
              !.pc = IF row.log.version # clients[c].seen.version THEN "select" ELSE "end",
              !.now = row,
              !.seen.status = row.status,
              !.next = IF new THEN @ + 1 ELSE @])
        /\ IF new THEN Emits(c, 1) ELSE UNCHANGED streamTop

\* Mutant: a run that is gone is polled for ever.
WaitForRow(c) ==
  /\ clients[c].pc = "poll"
  /\ row.status = "none"
  /\ Moves(c, clients[c])
  /\ UNCHANGED streamTop

\* "Run not found"
RowGone(c) ==
  /\ clients[c].pc = "poll"
  /\ row.status = "none"
  /\ Moves(c, Close(clients[c]))
  /\ UNCHANGED streamTop

\* Mutant: what an observation refers to is read before it.
SelectFirst == <<"tool_call", "evidence", "action", "observation", "evaluation">>
SelectOf(i) == SelectFirst[i]

Selected(i) == Selects[i]

\* One of load_runtime_detail's selects: READ COMMITTED, each sees what is
\* committed when it runs.
SelectTable(c) ==
  /\ clients[c].pc = "select"
  /\ clients[c].select <= Len(Selects)
  /\ LET k == Selected(clients[c].select)
     IN Moves(c, [clients[c] EXCEPT !.select = @ + 1,
                                    !.detail[k] = OfKind(DOMAIN stored, k)])
  /\ UNCHANGED streamTop

\* Mutant: the log's lists are mixed up.
MixedUp(lists, detail) ==
  [k \in Kinds |-> IF detail[k] # {} THEN detail[k] ELSE lists]

\* A list of the tables takes the place of the log's if it is not empty.
Merged(lists, detail) ==
  [k \in Kinds |-> IF detail[k] # {} THEN detail[k] ELSE OfKind(lists, k)]

\* The snapshot, the workflow (whoever writes the log adds a step) and the log.
ShowLog(c) ==
  /\ clients[c].pc = "select"
  /\ clients[c].select > Len(Selects)
  /\ Moves(c, [clients[c] EXCEPT
       !.pc = "end", !.select = 1, !.detail = NoDetail,
       !.shown = Merged(clients[c].now.log.lists, clients[c].detail),
       !.seen.version = clients[c].now.log.version,
       !.next = @ + 3])
  /\ Emits(c, 3)

\* run.finished, or the pause until the next poll
Rest(c) ==
  /\ clients[c].pc = "end"
  /\ IF clients[c].now.status \in Terminal
     THEN /\ Moves(c, Close(clients[c]))
          /\ Emits(c, 1)
     ELSE /\ Moves(c, [clients[c] EXCEPT !.pc = "poll", !.now = Idle.now])
          /\ UNCHANGED streamTop

Stream(c) ==
  \/ Poll(c) \/ RowGone(c) \/ SelectTable(c) \/ ShowLog(c) \/ Rest(c)

Next ==
  \/ Execute
  \/ Cancel
  \/ Delete
  \/ \E c \in Clients : Connect(c) \/ Stream(c)

Spec == Init /\ [][Next]_vars

\* The graph is run to its end and a connection's coroutine is scheduled; users
\* need not do anything.
FairSpec ==
  /\ Spec
  /\ WF_vars(Execute)
  /\ \A c \in Clients : WF_vars(Stream(c))

----------------------------------------------------------------------------
(* Properties *)

Journal == INSTANCE RunJournal WITH journal <- stored

\* The records of a run keep their order and their sequences apart, although
\* flush_state reads its first sequence long before it commits and every client
\* counts on from a maximum of its own: a record never shares a sequence with
\* another, never changes it, and never gets one below what was stored before.
ImplementsJournal == Journal!Spec

\* A flush that fails loses nothing: when the run has finished and its last
\* flush was committed, every record is in the tables but for actions that a
\* later plan replaced and what _append_protocol_record dropped.
NothingLost ==
  pc = "done" /\ flushed /\ row.status = "finished"
    => \A r \in Records \ DOMAIN stored :
         \/ kinds[r] = "action"
         \/ Cardinality({q \in OfKind(Records, kinds[r]) : q > r}) >= MaxRecords

\* The tool call an observation names.
CallOf(o) == MaxOf({r \in OfKind(Records, "tool_call") : r < o})

\* Every observation a client is shown comes with the tool call it names, though
\* load_runtime_detail reads the tables one by one while a flush may commit, and
\* a list of the log stands in for a table that was empty.
ObservationsResolve ==
  \A c \in Clients : \A o \in clients[c].shown["observation"] :
    CallOf(o) \in held \cup DOMAIN stored => CallOf(o) \in clients[c].shown["tool_call"]

\* A client that saw the run finish was shown everything the run left, unless the
\* flush before the verdict had failed: the last snapshot is not an early one.
LastSnapshotComplete ==
  \A c \in Clients :
    clients[c].pc = "closed" /\ clients[c].seen.status = "finished" /\ held \subseteq saved
      => \A k \in Kinds : OfKind(held, k) \subseteq clients[c].shown[k]

\* A connection comes to its end: the run finishes, fails, is cancelled or is
\* deleted under it.
StreamEnds == \A c \in Clients : clients[c].pc # "off" ~> clients[c].pc = "closed"

\* Between a flush that may fail, a log, and clients that read table by table,
\* nothing of a run is lost, torn apart or left out at the end.
Delivered == NothingLost /\ ObservationsResolve /\ LastSnapshotComplete
=============================================================================
