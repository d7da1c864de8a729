# TestClaw: TLA+ models, checks and proofs

TestClaw is a test-running service. A FastAPI application stores *runs* (rows of
table `tasks`), a Celery worker drives a LangGraph agent for each run, the agent
plans and executes API and UI tests with a language model and a browser, and the
API streams progress to a Vue client, cancels runs, re-runs them with human
help, lets a human approve risky writes, plans runs in a chat, checks their
authentication before they start and keeps their cases as suites. This directory
models the parts of `src/app` whose correctness depends on the order in which
these things happen or on what one part makes of the data of another.

## 1. Inventory

State and operations are named as in the source (`src/app/...`).

| Component | State | Operations | Interacts through | What makes it correct |
|---|---|---|---|---|
| Run lifecycle: `worker/tasks.py`, `agent/progress.py`, `services/task_service.py` | the row (`status`, `execution_log`), each session's copy of it, the agent state | claim, first and per-node progress, verdict, final persist, two failure handlers | the row, Celery | a cancellation seen is final; every run settles; a failure reaches the row |
| Run API: `api/v1/runs.py`, `api/v1/tasks.py` | a session's copy of the row per request | create, cancel, intervene (continuation run), delete, re-run, resolve an approval, save cases | the row, Celery, the approval channel | no request overwrites what it did not see |
| Approval channel and gate: `agent/v2/*`, `agent/runtime/tool_executor.py` | `v2_approval_requests` in the log and in the agent state, one future per process and run | file, poll, time out, resolve, run the tool | the row, an in-process dictionary | a guarded write runs once and only if approved; waiting ends |
| Agent graph: `agent/graph.py`, `agent/nodes/execution_evaluator.py`, `tc_generator.py`, `reporter.py` | `AgentState` | one node after the other; retry, replan, continue, report | state keys | bounded, stages in order, verdict agrees with the counts |
| API stage: `agent/nodes/api_runner.py`, `agent/runtime/tool_executor.py` | requests, results, budget, ids found in answers, blocked scopes, token | build, gate, select, send, retry, log in again, chain, clean up | the tested system | every candidate is accounted for; the budget holds; a chain changes its own record |
| UI stage: `ui_login.py`, `ui_test_planner.py`, `ui_runner.py`, `tools/playwright_*.py` | the browser, saved session files, `setup_result`, cases, results | log in, explore, plan, run command batches | the tested system, the one browser | a failed login is not tested past; what passed was done and photographed |
| Planning nodes: `mission_planner.py`, `knowledge_retriever.py`, `planner.py`, `agent_supervisor.py` | plans in the state | one call each | language model | none of them decides the route alone |
| Runtime event store: `agent/runtime/event_store.py` | four tables with one `sequence` | `flush_state` after a progress write, `load_runtime_detail` | the run's session | records keep their order; a failed flush loses nothing |
| Run stream: `services/run_stream_service.py` | last status, last log and next sequence of each client | poll, emit, store the events | run events, the row | the last snapshot is complete; the stream ends when the run does |
| Action runtime, tool registry: `agent/action_runtime.py`, `agent/tool_registry.py`, `agent/runtime/runtime.py` | protocol lists of the agent state | validate, classify, record | agent graph, stages | failures are classed as the evaluator needs them |
| Plan sessions: `services/agent_planning.py`, `api/v1/agent_plans.py` | session row, messages, questionnaire | say, edit, roll back, reject, fill in, execute, delete | run API, language model | an offered plan is what the user said; one execution, one run |
| Suites, test cases, run contexts: `api/v1/test_cases.py`, `runs.py`, `core/redaction.py` | suites, cases, the context in a run's log | save, edit, delete, run a suite, re-run, continue | the store, the worker's arguments | the chosen cases are those that run; what redaction knows is not stored, and no secret is sent again |
| Preflight, authentication check: `services/auth_preflight_service.py`, `api_auth.py`, `preflight_service.py` | results in a process-local cache | profile, log in, prove, reuse | the tested system | a run starts with headers that were seen to work |
| Knowledge base: `knowledge_sink.py`, `services/knowledge_service.py`, `vector_store.py` | vectors, bug reports | ingest, search | the run's session | one bug report for a bug |
| LLM gateway and bridge: `core/llm_gateway.py`, `agent/v2/llm_bridge.py` | none | call | provider | - |
| Other routes, tools, legacy nodes, frontend | storage or none | CRUD, parsing | - | - |

How they interact: the API and the worker never call each other. They share the
row of the run, which each session reads into an identity map that is *not*
expired on commit (`expire_on_commit=False`), so every component above works on
a copy that may be old, and an `UPDATE` carries only the columns that differ from
that copy. `execution_log` is a single JSON column: whoever changes one key
writes the whole. A planning session and a suite are rows with the same rules.
Inside a run the nodes share one `AgentState`, the stages the tested system, and
all runs one browser. `PROJECT.json` lists the hazards that follow, each at its
line.

Hard behaviours: a cancellation that lands between a read and the write decided
on it; a worker killed by a time limit, with the failure written by another
process; a broker that is down, so that the API process runs the graph itself;
a flush that fails and rolls the run's session back; tables read one by one
while a flush commits; a human's answer racing the deadline; two humans; stale
copies written over answers; retries that share a budget; ids that come from
whatever the tested system answers; a chat turn that takes a minute while the
session is edited, rejected or executed; a proof that is used minutes later;
redaction between a run and its successor; a language model that may answer
anything.

## 2. Modules

| Module | Models |
|---|---|
| `RunLifecycle` | run lifecycle and run API on one row |
| `ApprovalPromise`, `Approval` | what human approval promises (abstract); the agent loop's gate, the approval channel, the API's writes on the same log |
| `AgentGraph` | the graph, its evaluator loop, report and final status |
| `RunJournal`, `RunEvents` | a journal that only grows (abstract); the records of a run, the tables, the log, the streams |
| `Selections` | lists of the elements that pass a condition |
| `ApiCases`, `ApiRequests`, `ApiStage` | which generated cases and assertions are kept; which requests the API stage builds; sending them |
| `UiCommands`, `UiCases`, `UiStage` | dialects of a browser command; cases made of explored pages; login, exploration, execution |
| `PlanPayload`, `PlanSession` | from a conversation to a run; the requests on one session |
| `LoginForm`, `AuthPreflight`, `RunStart` | finding and filling a login; what must be proven; preflights and creations with their cache |
| `CaseAssets`, `RunContext`, `SuiteStore` | cases as rows and payloads; the context of a run and its redaction; the store, suites' runs and their successors |
| `MC*` | instances for TLC |
| `*_proofs` | theorems about the module they are named after (section 4) |

In each group the first modules are pure operators or the abstract
specification, the last one has the state.

### RunLifecycle

One row, one executor, several API requests. `rowStatus`, `rowLog`, `rowExists`
are the committed row. `cacheStatus`, `cacheLog` are the copy in the executor's
session; `"expired"` is a copy that a rollback expired and the next access
reloads, `"none"` the worker's `db.get` that found nothing. `RefreshCopy` is
`db.refresh` or a first load; no other step moves the row into the copy.
`snapStatus`, `snapLog` are the copies of API requests. `Column` is the rule
that an `UPDATE` sets only changed columns: a target equal to the copy leaves
the row's status alone, however stale the copy. `rowLog` holds the *kinds* of
entries (`started`, one per node, `cancelled`, `continued`, ...), not their text;
`Payload` keeps what `build_execution_log_payload` merges and drops
`intervention_context`, which is not in `EXECUTION_LOG_KEYS`.

Actions follow the code between two commits or awaits: `SeedInterventionLog`,
`Dispatch` (with the routes' synchronous fallback), `WorkerLoad`, `Claim`,
`Reload` (head of `_run`), `GraphStart`, `RunNode`, `NodeProgress`, `EndGraph`,
`GraphAborted` (`run_graph_with_progress`), `FinishWorker`, `FinishSync`,
`FinalPersist`, `Settle`, `Report` (tail of `_run` and of the routes),
`FailureLoad`, `FailureCommit` (`persist_terminal_worker_failure`, run by the
`except` clause as `handler = 1` and by the `task_failure` signal as
`handler = 2`). Faults are `NodeRaises`, `SoftLimit`, `HardLimit`, `Crash`.
API requests are `ClientLoad`, `MarkTaskCancelled`, `ClientRefresh`,
`MarkContinued`, `DeleteRun`. `ackedAt` is a history variable: where the
executor was when the first cancellation committed. Celery, its early
acknowledgement and its signals are external and appear as the executor's
control flow.

### ApprovalPromise and Approval

`ApprovalPromise` has three facts per request (answers accepted, time over,
outcome) and four steps. `Approval` is the real machinery: `rec` is the list in
the committed log, `stRec` the agent state's, `copyRec` and `csnap` the session
copies. The loop's steps are `Ask`, `PersistRequest`/`PersistRecords`,
`PollFuture`/`PollRecord`, `MarkTimeout`, `NoTask`, `RefreshRaises`, `Act`,
`ReportCall`, then `EndLoop`, `NodeUpdate`, `FinalPersist`; `Raise` and
`PersistFailure` are the way out by an exception. `PersistProgress` replaces the
row's list by the state's unless the session's copy is cancelled. The API's
requests load, check what they loaded, and commit the list they loaded with
their change in it. `future` is the in-process channel, which exists only if the
loop runs in the API process (`local`). `how`, `accepted`, `lost` are history.

The refinement mapping of `ImplementsPromise` maps `answers` to the accepted
answers, `late` to the expired deadlines and `outcome` to the loop's decisions;
every other step of `Approval` is a stutter.

### AgentGraph

One action per graph node (`PassOn` for those that decide nothing); `node` is
the node that runs next and each action contains the conditional edge that
follows it. What a model, a server or a browser answers is a choice:

- `out[s]` is the class of a stage's counts, because the evaluator, the reporter
  and `determine_final_status` each look at different sums of them;
- `Findings` is what one evaluation sees (class of failure, thin, covered,
  reportable); `human` is the one fact kept of the observation history, that an
  earlier attempt met a failure which needs a human;
- `GuardrailDecision`, `ModelDecisions`, `MergeDecisions`, `ApplyDecision` are the
  functions of `execution_evaluator.py` one to one.

A run ends at `end`, where `DetermineFinalStatus` gives it its status. A node
that raises ends the graph; that path is `GraphAborted` of `RunLifecycle`.
That `AgentRuntime` drops observations beyond a thousand is ignored here.
Suites start without base URL and credentials, as `_suite_worker_kwargs` creates them.

### RunJournal and RunEvents

A record (action, tool call, evidence, observation, evaluation) is its number in
the order in which the executor appended it. `held` are the lists of the agent
state, which keep the last `AGENT_PROTOCOL_MAX_RECORDS` of a kind and replace
the actions with each plan; `row.log` is the copy of them in `execution_log`;
`stored` maps each row of the tables to its sequence. A progress write commits
the log and then flushes: `FlushRead` reads the next sequence,
`FlushCommit`/`FlushFail` end it. A client polls the row, then selects the
tables one after the other (`SelectTable`, in the code's order, each seeing what
is committed then), merges them with the log's lists and stores the events it
emits under sequences of its own (`streamTop`). `RunJournal` says what the
tables are: a map that only grows, each new record above all that were there.

Simplifications: one executor per run (a second worker is a hazard of
`RunLifecycle`); an event and a record may share a sequence, for no constraint
forbids it, but records among themselves never do; a client's failing insert is
left out, as it only lowers the maximum; records of a node that was aborted are
never stored, as in the code; a replan's action with the id of an earlier one is
not stored again; evaluation ids, which count the trimmed list, may collide
once the list is full, which is not modelled; `tasks.py` (API) has an older
stream without the tables that is not modelled. Evidence ids are hashes of the
content (`action_runtime.py:1167`): equal evidence that is recorded twice still takes
two places of the bounded list (`_append_protocol_record`), but is one row; in the
model it is two records.

### ApiCases, ApiRequests and ApiStage

`ApiCases` is `api_scope.py`: what is kept of the cases a model generated, and which of
their assertions become notes because neither the description, nor an example, nor the
user's words name what they look at. An assertion is what that code finds out about it;
of one about the status that is whether the documented status satisfies it, whether a
rejection may, and whether the sanitizer can read it. `Expected` is the template's own
`expected_status`, which decides when no assertion is about the status. `ApiRequests`
turns a configuration (policy, coverage, focus, API description, planned actions, cases,
headers) into candidate requests as `_build_agent_action_test_requests`, the case and
schema builders and the CRUD chain builder do, marks those a gate refuses, orders them
and cuts them to the budget. A path is a resource and whether an id is to be filled in;
a text that the code searches is the set of markers found in it; `benign` says that the
text of an endpoint, a case or an action names a login, a token, a captcha, an export or
a download. `Configurations` is the type of what the stage is given. A list
comprehension with a condition is `Picked` of `Selections`, the elements at a set of
positions in their order, and not `SelectSeq`, which proofs cannot unfold. `ApiStage` is
the loop of `run`: `SkipMarked`, `SkipDependent`, `SkipEnvironment`, `OmitRest`,
`Begin`, then the executor's attempts (`Respond`, `Raise`, each counted in `tries`), a
new login and a second round, `Judge`, and what the response adds to the dependency
context. Whose record an id in a response names (`"own"` or `"other"`) is a choice,
except where the request pins it down.

Simplifications: request bodies of POST and PUT; `PUT` stands for PUT and PATCH; one
origin; an answer is a success, which carries the documented status, a rejection or
another failure; the cases that expect a rejection are `AUTH` and `SECURITY`. As in the
code: the loop does not look at a cancellation; a 405 in a second round is not
remembered as a blocked scope; a gate anywhere in the plan confirms every write; the
budget can cut a chain's clean-up off; a write that is retried may have been executed
twice; login calls are outside the budget. A finished stage stutters.

### UiCommands, UiCases and UiStage

`UiCommands` has the three dialects of a command: what a model, a user or a
suite wrote, the structured action the planner compiles it to, and the spec the
runner executes, with normalisation, blocking and smart waits. `UiCases` has the
elements read from a snapshot, the business cases built from them and which of
the model's cases are kept. `UiStage` runs `ui_login` (open, inspect, captcha,
generate, send, verify), `ui_test_planner` (open, explore, plan) and `ui_runner`
(decide the context of each case, set up, resolve references against the current
snapshot, send, assert, photograph, report) against a site given by constants
(`Elements`, `Lands`, `Leads`, `Enters`). `browser` is one variable for all runs:
the command line tool is called without a session name (`playwright_tool.py:75`).

Simplifications: quoting, joining of addresses, wording, storage of screenshots
and tool-call records; which text is a part of which other is given by
`Parts` (`_find_ref_by_text` looks both ways, and for the pointer), other substring tests
are equality; branches no input reaches.
As in the code: an unsupported structured type is skipped and the case can pass;
`type "text"` becomes `fill_text` without a value; exploration clicks whatever
looks interesting, also what acts; after a replan it starts where the last case
left the browser; cases made of explored pages start at the page after login; a
"fresh" login-validation case only gets a `goto` in the signed-in browser.

### PlanPayload and PlanSession

`PlanPayload` is `normalize_planner_run_payload` with what it infers (source,
type, authentication, policy, base URL) from what the patterns find in the
users' texts and from what the model's own answer has of them (token, headers and
credentials included), the questions still open, and the options a question is given
(model's, sanitised, or the fallback's). `PlanSession` is one session row with
its messages and its questionnaire; requests load (`Load*`), wait for the model
or the run, and write the columns that differ from what they loaded; an edit
holds the row's lock while the model thinks. `overlap` and `died` are history:
most promises can only hold for requests that do not overlap, and the
properties say so.

Simplifications: objective, titles, captcha mode, which headers there are, repetition wording,
read views, several addresses in one text. As in the code: two overlapping
executions create two runs; a process that dies between `create_run`'s commit
and the mark leaves a run the session does not know; a session may be
`collecting` with a payload after overlapping writes; a deferred answer with both
option and text keeps both; concurrent intakes can create two questionnaires; answers of the
questionnaire are redacted before they enter the conversation (`agent_plans.py:309`), so a
text is what the patterns find in the redacted answer, for "token: x" the placeholder;
deleting a session during a turn leaves the turn's message behind; chat and
questionnaire ignore each other.

### LoginForm, AuthPreflight and RunStart

`LoginForm` has the scoring that finds the login among the endpoints of a
document, the body made of credentials, and what an answer is worth.
`AuthPreflight` has the modes, the given headers, the read-only requests that
prove headers and the decision. `RunStart` interleaves preflights and creations
with a changing world: documents, live tokens, the account, models, the target,
the clock, a restart of the process. `granted` is history: what was let in, with
what, when.

Simplifications: one API process (the cache is process-local); a request takes
no time on the clock; the validation requests of one preflight are one action;
the tie-break of equally scored endpoints by path length; refresh of a dynamic
captcha during the run; target memory and the mission preview. As in the code:
the fingerprint leaves out the user and `allow_out_of_schema_api_cases`; cached
headers go to a target that is computed again; a token may die between proof and
start; `no_auth_declared` and `none_confirmed` drop headers that do not
authenticate; "auto" without credentials but enabled sends a login and ignores
its answer; a field whose name contains "code" takes the captcha.

### CaseAssets, RunContext and SuiteStore

`CaseAssets` saves an accepted case as a row (merge of the edit, request template,
commands, redaction) and loads rows as API or UI payloads of a suite with target and
seed address. `RunContext` is what `EXECUTION_LOG_KEYS`, `redact_sensitive_data` and
`_rerun_context_from_task` make of a context. `SuiteStore` composes them (its predicates
`IsRun`, `IsCase`, `IsData` say what the constants may hold): runs, cases and suites as
rows; `Save`, the CRUD requests, `ReadSuites`/`CommitDelete` (two steps),
`ReadSuite`/`ReadCase`/ `RunSuite` (one step per row), `StartRun`, `Plan`, `Replan`,
`Rerun`, `Intervene`. `Plan` is what the planning nodes write into the lists of a log
that was given cases: the browser planner rewrites each case's commands and adds its
actions (`Planned`). `Replan` empties a list or fills it with one of `Generated`, as the
model or a run without cases has it. Values are classes: a plain one, a secret,
`[REDACTED]`, an address with or without a secret in it. A command has a form: with both
words quoted or both bare (`"plain"`), or a quoted selector before a bare value
(`"mixed"`), which the patterns of `redaction.py:86` miss; a command of one word has no
value they could find. `LoggedCommand` is redaction, `SavedCommand` adds the second look
of `runs.py:1138`.

Simplifications: single-step requests are one action because they commute with the
others; new ids are given in a fixed order; list and generation endpoints, titles,
legacy step templates, triage views; the aliases of command names and of viewports;
`api_cases` losing assertions in the log (`api_runner.py:3362`); a command that is not
supported leaves a placeholder in its list; `MaxRequests` bounds replans with the
requests. How a run ends is `RunLifecycle`'s. As in the code: an update replaces a
case's data and origin; a suite's UI cases without an address get no seed; typed values
that redaction knows are saved as `[REDACTED]`, so a saved or re-run UI case types the
placeholder; a re-run carries no credentials; a re-run of a mixed suite is of type
"full".

### How the groups meet

`RunNode` of `RunLifecycle` is any action of `AgentGraph` followed by its
progress write, whose flush is that of `RunEvents`; `Verdicts` are the `status`
of `AgentGraph`. The API and UI nodes of `AgentGraph` are one step for what
`ApiStage` and `UiStage` do, and their `out` is the class of those stages'
counts; `Prepared` and `Route` of `UiStage` repeat the edges after `ui_login`.
The agent loop of `Approval` is the single node of a v2 graph. `CreateRun` of
`PlanSession` is `Create` of `RunStart`, whose `runs` begin as `Dispatch` of
`RunLifecycle`; `StartRun` of `SuiteStore` is its `Claim`, `Plan` and
`Replan` are its `NodeProgress` after the nodes that plan. They are separate
because each has a different part of the state as its data and their products
are out of reach; the values that cross a border are choices on the far side.

## 3. Runs

Where a property is a conjunction, its named parts stand before it in the module,
each with its comment.

| Run | Question and instance | Properties |
|---|---|---|
| `worker` | One run (created, continued, or re-run from a task), two concurrent requests (cancel, intervene, delete; interchangeable), one graph node, both brokers, failing flushes, all four faults | `ObservedCancelIsFinal`, `CancelIsHonoured`, `FailureReachesRow`, `NoRunLeftActive`, `CancelMarkSurvives`, `ProgressKeepsCancel` |
| `settles` | The same with fairness, one request, two nodes, no crash without a signal. Two ways of not settling are excepted, as the code has no answer to them: a synchronous fallback that raises, and a task's re-run the broker refuses | `EventuallySettled` |
| `kept` | Expected violation, section 5 | `CancelledIsKept` |
| `approval_loop` | Two guarded calls, three requests (interchangeable) that answer, cancel or delete, both policies, loop in the worker or in the API process | `SoleAnswer`, `ImplementsPromise`, `AuditAgrees` |
| `approval_decides` | One guarded call, two requests, with fairness | `EventuallyDecided` |
| `graph` | Twelve kinds of runs, `MaxAttempts` = 1 | `StepsBounded`, `UiAsAsked` (`UiNotSkipped`, `SetupFailureStops`), `NoFailureSucceeds`, `ApiNotAfterUi` |
| `events` | Two progress writes, two tool calls of a node, one plan, lists of one record, one client, a flush that fails, a cancellation or deletion at any time | `TypeOK`, `Delivered` (`NothingLost`, `ObservationsResolve`, `LastSnapshotComplete`), `ImplementsJournal`, `StreamEnds` |
| `api` | 75 configurations of policy, budget, retries, login, plan, cases with assertions of every kind, texts that name what needs no gate, and description over two resources, chains of at most 3 | `TypeOK`, `CallsAreBounded` (`BudgetHolds`, `SendsBounded`), `Accounted` (`EveryCandidateAccounted`, `VerdictsAreJust`), `RequestsAreAllowed` (`WritesAreGated`, `ScopeKept`), `ChainsCleanUp` (`NamedRecordIsUsed`, `CleanupIsTried`) |
| `plans` | Two interchangeable clients of one session, five messages, four requests, two runs; the model's answer may bring back a rejected token | `TypeOK`, `RowAgrees` (`LastMessageDecides`, `NothingLeftBehind`, `LockIsHeld`), `RunsAreWanted` (`OneRun`, `ExecutedHasRun`, `RunsAreAnswered`, `DeferredBlocks`), `TurnsServeTheUser` (`PlansFollowTheUser`, `OptionsUsable`) |
| `preflight` | Two interchangeable requests, ten payloads, three documents, cached results that a tick of the clock expires, one tick, one event of the world, two requests | `TypeOK`, `RunsStartProven` (`RunsAreProven`, `TargetsAreProven`, `OneCredential`, `UiReady`), `LoginsAreRight` (`PlainLoginWins`, `GuidanceWorks`, `CaptchaIsFetched`) |
| `ui` | Five scenarios on a site with a login, a home and a list page, on which one text is a part of another, one failing command or snapshot, one replan | `TypeOK`, `CasesArePrepared` (`NoCasesUnprepared`, `CasesStartPrepared`), `CommandsAreMeant` (`NoScriptRuns`, `RefsAreCurrent`), `ResultsAreTrue` (`PassedIsEvidenced`, `SuccessIsReported`), `StageEnds` |
| `suites` | Two interchangeable clients, three cases, two suites with lists of two, five runs, two there at first, four requests and replans; values typed in every form | `TypeOK`, `SecretsStay` (`SavedIsSafe`, `LogsAreSafe`, `NoSecretReplayed`), `SuccessorsRunTheCases` (`CasesCarryOver`, `ContinuationsAreLinked`), `SuiteRunsAreWhole` (`RunsWhatIsThere`, `ApiCasesSurvive`, `SuiteIsAimed`) |

Most of the safety properties are also proved for every instance (section 4).

**Why the bounds are enough.** The hazards are races between a read and the write
decided on it, and need two parties and one object they share: two requests, two
clients, a worker and a client. `approval_loop` has a third client because a lost answer
needs two writers besides the one who answered. One retry and one replan a stage show
every kind of attempt; the proof of `StepsBounded` covers any number. Lists of one
record and two tool calls are the smallest in which `_append_protocol_record` drops
something; two progress writes are the smallest in which a failed flush is made good by
the next. A chain of three is create, use, delete. Five messages hold a plan, a
rejection and a second plan. A TTL of zero in a time of one tick lets a result be used
in the tick of its proof and expire in the next. One failing command at any place is
what the UI stage's error paths distinguish. Five runs are two that are saved from, and
a chain of re-runs and continuations of a suite's run.

**Deadlock** is checked in `api` and `ui`, whose stages stutter when they are
done. The other systems may really stop: a run, a connection or a session ends,
or the requests of the bound are used up.

**Fairness.** `RunLifecycle`: weak fairness of the executor's own steps (`Executor`);
`Approval`: of the loop's (`Worker`) and of the passing of time (`Deadline`); none of
requests, faults or brokers, and a worker that dies without a signal is excluded from
`settles` by its `Faults`. `RunEvents`: weak fairness of the executor and of each
connection's polling. `UiStage`: weak fairness of the stage's steps, written as
"reported infinitely often, or a step infinitely often": a step is possible exactly
until the stage is reported. These are threads and coroutines that the operating system
and the event loop schedule; nothing assumes that a human acts.

**Faulty variants.** Beside some definitions stands one with a plausible bug
(`NoKillHandler`, `Ungated`, `LatestNames`, ...). No specification uses them;
`PROJECT.json` pairs each with the property it breaks.

## 4. Proofs

TLAPS proves the following for every value of the constants that satisfies the
named assumptions of the modules (TLC evaluates them in each run). They say what the
constants are: that bounds are numbers, that a set holds what its name says. Three
say a little more, each from the code: `SuiteStore` takes it that ids are finitely
many and no empty strings, that cases have the keys the code reads, and that the runs
there are at first were made by no rerun and no suite; `PlanSession`, that the
required steps of a questionnaire are among its steps and that the model's answers have
the fields of `PlannerLLMOutput`; `RunStart`, that payloads
and documents have the keys the schemas give them, that a document's operations have
a path and that a field it requires is one it declares (the scoring counts it so,
`api_auth.py:161`; the body is made of declared fields only, so that nothing a user could
give would fill another).

| Module | Theorem | Statement |
|---|---|---|
| `RunLifecycle_proofs` | `TypeCorrect` | `Spec => []TypeOK` |
| | `ObservedCancel` | `Spec => ObservedCancelIsFinal` |
| | `HonouredCancel` | `Spec => []CancelIsHonoured` |
| | `FailureRecorded` | `Spec => []FailureReachesRow` |
| | `WorkerSettles` | `Spec => []NoRunLeftActive` |
| | `ProgressSafe` | `Spec => ProgressKeepsCancel` |
| | `MarkSurvives` | `Spec => []CancelMarkSurvives` |
| `Approval_proofs` | `TypeCorrect`, `Safety` | `Spec => []TypeOK`, `Spec => []IInv` |
| | `Refinement` | `Spec => ImplementsPromise` |
| | `OneAnswer` | `Spec => []SoleAnswer` |
| | `AuditHolds` | `Spec => AuditAgrees` |
| `AgentGraph_proofs` | `TypeCorrect` | `Spec => []TypeOK`, both attempt counters within the setting |
| | `Bounded` | `Spec => []StepsBounded` |
| | `UiStageKept` | `Spec => []UiAsAsked` |
| | `NoFailureHidden` | `Spec => []NoFailureSucceeds` |
| | `ApiStaysDone` | `Spec => ApiNotAfterUi` |
| `RunEvents_proofs` | `TypeCorrect` | `Spec => []TypeOK` |
| | `TablesAreAJournal` | `Spec => ImplementsJournal` |
| | `NothingGoesMissing` | `Spec => []Delivered` |
| `RunStart_proofs` | `RunsProven` | `Spec => []RunsStartProven` |
| | `LoginsRight` | `Spec => []LoginsAreRight` |
| | `TypeCorrect` | `Spec => []TypeOK` |
| `PlanSession_proofs` | `RowAndLockAgree` | `Spec => []RowAgrees` |
| | `RunsWanted` | `Spec => []RunsAreWanted` |
| | `TurnsServe` | `Spec => []TurnsServeTheUser` |
| | `TypeCorrect` | `Spec => []TypeOK` |
| `SuiteStore_proofs` | `NoSecretLeaks` | `Spec => []SecretsStay` |
| | `SuccessorsCarryOn` | `Spec => []SuccessorsRunTheCases` |
| | `TypeCorrect` | `Spec => []TypeOK` |
| | `SuiteRunsWhole` | `Spec => []SuiteRunsAreWhole` |
| `ApiStage_proofs` | `CallsBounded` | `Spec => []CallsAreBounded` |
| | `PolicyKept` | no write is sent under a read-only policy, and nothing that is marked as skipped |
| | `TypeCorrect` | `Spec => []TypeOK` |
| | `RequestsAllowed` | `Spec => []RequestsAreAllowed` |
| | `EverythingAccounted` | `Spec => []Accounted` |
| | `CleanedUp` | `Spec => []ChainsCleanUp` |

None of the properties is inductive as it stands. The arguments:

- **RunLifecycle.** The properties speak of the end of a run. `IInv` adds `PhaseInv`
  (which executor can be in which phase, when a failure handler is pending),
  `StatusInv` (what row and copy hold in each phase; the key line is that a worker
  between claim and final persist has a row that is `RUNNING` or `CANCELLED`),
  `CopyInv` (a copy that shows the cancellation shows the row as it is, since no step
  of another actor leaves `CANCELLED`), and `AckInv` (a cancellation outside the two
  check-then-write windows is in the row). The action properties follow from `IInv`
  step by step. `MarkInv` carries `MarkSurvives`: progress writes may drop
  the mark, and the final persist knows the cancellation and puts it back.
- **Approval.** `GroundInv`: no list, wherever a copy of it is kept, holds an
  answer nobody gave; loads and stale commits move grounded lists around.
  `WaitInv`: what the loop was told has a reason and the call is still open;
  `AskInv`: a request that is about to answer has something to answer. `IInv`
  makes `Act` a step of `ApprovalPromise` and every other step a stutter, an
  answer, or a deadline. `OneAnswer` and `AuditHolds` add `FileInv` (before a request
  is committed nobody knows of it) and `KeptInv`: of a request nobody wrote over, the
  record is pending only before its answer, and what the loop decided on stays in
  the row and in the state.
- **AgentGraph.** `StepsAccounted`: steps taken plus the distance to the end never
  exceed fifteen plus what retries and replans cost, so the bound follows from the
  counters being within `MaxAttempts`. `StageInv` (stage and node go together, the
  API stage precedes the browser), `LoginInv` (the user's instructions are never
  forgotten), `UiOrder` (after `ui_login` only UI nodes, their evaluation and the
  report follow), `VerdictInv` (a `PASS` was given without a failing count, and the
  status was made of the counts there are now) and `UiNotSkipped` itself complete
  the inductive invariant.
- **RunEvents.** `ReadAbove`: what a flush read as the next sequence is above
  everything stored until it commits, because only the executor stores records; with
  it each commit is an `Append` of `RunJournal` and every other step a stutter.
  `GivenUp` counts: a record that a list no longer holds has `MaxRecords` younger
  ones of its kind (a cardinality argument about the dropped ones) or was replaced
  with its plan. `AllFlushed` says the last flush leaves nothing behind. `ShownInv`
  is about connections: a connection is never ahead of the log (`Behind`), a
  tool call and its observation are in every list, table and copy together
  (`AllPaired`), so a poll that read the calls before a commit and the
  observations after it still resolves them (`Resolves`), and one that saw the run
  finish has selected all that was saved (`Complete`).
- **RunStart.** `GoodEntry`: a positive result in the cache that has not expired is
  `Backed` by a grant of the time it was stored, for the very payload that is its
  fingerprint; `GoodRequest` says the same of a request in each of its phases and
  `GoodRun` of the runs. `ClockInv` ties the last sight of the vision model to the
  clock. The lemmas before it walk through the decisions of `AuthPreflight`: each
  either ends with what is backed or goes on to a proof.
  `LoginsRight` adds `DocInv` (a login works on one of the documents). Ranks of
  candidates are triples; `Distance` makes a natural number of each, so that one candidate is
  beaten by none (`OneIsUnbeaten`, from the library's well-founded order of the naturals).
  `ScoreBounds` then says that a special endpoint that lacks a field has at most 171
  points and a plain one that lacks none at least 250, each with 30 for a required
  field; `GuidanceHelps` goes through the fields.
- **PlanSession.** The first invariant, `IInv`, is two in one. `Data` and `LockInv` hold
  in every interleaving: no payload with an open question is ever in a row, a message, a
  request or a run, an executed row names a run there was, and a lock belongs to an edit
  whose model is thinking. `Order` holds as long as requests come one at a time: the
  only request in progress has seen what there is (`Alone`), what it left is what the
  last message says (`Settled`), and at most one run was created (`RunOnce`, unless a
  process died). `TInv` is the invariant of the conversation: its messages have times of
  their own (`Timed`), and every plan offered `Follows` from what was said before it
  (`Sincere`). A turn in progress has seen exactly what comes before its message, so an
  edit or a rollback, which keeps an initial part, keeps it sincere (`SincereStays`),
  and the plan a turn adds follows the users by `TurnFollows`: what the model's answer
  `brought` is in the message, and what the patterns find last is what was said last
  (`SecretIsSaid`, `SourceIsNamed`, on the rows of positions of `PickedPlaces`,
  `TranscriptIs` and `UsersAre`). `TurnCanBeAnswered` goes through the sanitizer,
  whatever the model proposes. `CInv` is for the type: requests in progress are finitely
  many, and the messages and runs they still have room for are counted.
- **SuiteStore.** `RunsInv` has `GoodRun` for each row: the log this code began is free
  of what redaction knows, a successor's context is `Clean` of sensitive headers, and
  `Carries`: the suite's cases are in the context, and, as they are `Seen`, in the log
  as soon as the worker began and unless it planned anew. `Seen` is a case planned,
  redacted and without the values of its actions; `Carries` is inductive because seeing
  twice is seeing once (redaction is idempotent, planning what was planned changes
  nothing more, `SeenKept`) and because redaction leaves the rerun context alone; these
  are the lemmas on commands, actions, cases and contexts before it. `LinkInv` says that
  the continuation a log names was given out and names its source, until deleted.
  `CasesInv` and `ReqInv` keep rows and half-read requests within the shapes the
  assumptions name. `SuiteRunsWhole` has a second invariant, `WInv`, proved with the
  first. A request that has read the first n ids of its list is `Whole` up to n: the
  payloads of each kind `Follow` the list in its order, a case that is left has one, and
  each payload is `PayRight`, as the row it was made of was `RowRight` (`SavedSendable`,
  `PayloadRight`). What was read stays right because the tables only `Age`: an id that
  was given out stays so, what is gone does not come back, and a run keeps its address.
  The request reads on by `FollowNext`; the run that is made of it is whole up to the
  end of the list, and `Aimed` finds it an address.
- **ApiStage.** `TriesBounded`: what was sent for the current request is at most what
  was tried in this round, plus a full first round in the second; `Attempts` caps a
  round by what the budget leaves, which carries `BudgetHolds` over `Begin` and the
  second round. `Sendable`: the request that is being sent passed the policy and the
  marks, and a second round sends the same one. `Books`: until the stage is done there
  is one result for each request before `index`. `CallsBounded` and `PolicyKept` need no
  more: they hold whatever was selected. The others are about what the builders make.
  `PickedPlaces` and `FlattenPlaces` say where the elements of a selection and of a
  flattened sequence come from, and the lemmas after them follow a request from the
  description, the plan or the cases to the queue (`RunCasesType`, `CaseRequestType`,
  `ActionRequestType`, `ChainType`, `SyntheticType`, `QueueType`). `SInv` adds to the
  types that the queue is, from the selection on, `Queue(conf)` and nothing else
  (`Selection`) and where the loop stands in it (`Position`). `Origin` then says of each
  executable request which gate it went through or which word of its text or path it got
  by with, `Fit` that a generated case met an endpoint, and `RequestsAllowed` is that
  and `Sendable`. `EverythingAccounted` follows an assertion through
  `_sanitize_assertions`: what still blocks and is not a note rests on a name, or is a
  guess about the status that `_sanitize_assertions` cannot read. For `CleanedUp`,
  `Tidy` says what a composed queue looks like: unless the resource was planned for, its
  creation precedes every other request about it, and a deletion waits for the id of its
  own resource and nothing else. `CInv` adds `Showing` (only a success shows an id) and
  `Chains`: the id known for a resource is that of the record created, or nothing is
  named yet and no id known while a creation is still to come (`Known`), and each
  deletion the loop is past was sent unless there is nothing to delete or a 405 forbade
  it (`Deleted`).

Only model-checked:

- Liveness (`EventuallySettled`, `EventuallyDecided`, `StreamEnds`, `StageEnds`): out of the
  prover's reach.
- What folds over sequences compute for every input needs induction
  over data: `CommandsAreMeant` and `ResultsAreTrue` (compiled batches, sums of counts).
- The state machine of `UiStage`, with its type: its batches are what folds
  and `SelectSeq` return, and `CasesStartPrepared` rests on a fold as well
  (`WithEvidence`).

## 5. Disagreements between code and contract

`kept` shows one: `_run` reads the status, then writes `RUNNING` unconditionally
(`worker/tasks.py:283`). A cancellation committed in between is lost. No crash is
needed.

### Met while modelling

Disagreements and surprises that no run of their own shows. The properties that
hold are stated so that they leave out exactly these. The contract's documents
are in `.trellis/spec/backend/`: DG is `database-guidelines.md`, QG is
`quality-guidelines.md`.

Runs and their worker:

- `_revoke_worker_task` revokes the row's id, which is no Celery task id
  (`api/v1/runs.py:3719`): the old worker executes further nodes beside the
  continuation. QG:1629 lists as bad "active runs are silently rerun while the old
  worker keeps running".
- `rerun_task` has no synchronous fallback (`api/v1/tasks.py:139`); DG:1170 demands
  one "so the rerun never gets stuck in `queued`". `EventuallySettled` names that exception.
- `cancel_run` commits `CANCELLED` on a status it read earlier: a run that
  finished in between becomes cancelled (`runs.py:3725`).
- When the graph raises, `FAILED` is persisted over a cancellation that the
  session has not seen (`tasks.py:268`); `ProgressKeepsCancel` stops at `abort`.
- The synchronous fallback never refreshes (`runs.py:3886`): it does not notice a
  cancellation, and with an expired copy it raises and leaves the run `RUNNING`.
  `EventuallySettled` names that exception.
- `execution_log` is written as a whole: progress removes the mark of a concurrent
  cancellation and the mark of a continuation (`progress.py:284`);
  `intervention_context`, written by the route, is dropped by the first progress
  write (`runs.py:3621`, `progress.py:158`). Two concurrent interventions create
  two continuations (`runs.py:4481`).

Approval:

- An answer taken from the in-process channel does not update the agent state,
  whose next progress write reopens the record (`agent/v2/approval.py:219`); DG:176
  lists that as bad.
- Under `safe_with_auth` the executor blocks a write that a human approved
  (`tool_executor.py:59`). Two answers to one request are both accepted if both
  loaded it pending (`approval.py:164`). An answer committed after the last poll
  is accepted, and the loop times out (`approval.py:236`).

Graph and verdict:

- A replan asked for by the model empties a suite's cases
  (`execution_evaluator.py:941`), although the guardrail refuses to and DG:1520 says
  "Replanning must not alter user-selected suite semantics".
- `ui_login` makes up instructions from credentials and forgets to store them on
  three of its failure paths (`ui_login.py:448`): the failed login does not stop
  the UI stage, against DG:1045.
- A passed API stage and a failed required login give `PARTIAL`
  (`reporter.py:487`), which `determine_final_status` does not know: the run is
  `SUCCEEDED`. DG:1050 expects `FAIL`.
- An API run in which every request was skipped is reported `NOT_EXECUTED` and
  ends `SUCCEEDED` (`progress.py:240`).
- The graph sets no recursion limit, the default of older langgraph releases that
  `pyproject.toml` allows is 25 nodes, and a run can take 35.
- A replan of the API stage does not use its feedback while UI cases exist
  (`tc_generator.py:453`).

Stages:

- If a creation is answered without an id, the first record of the list that
  follows is the one the chain changes and deletes (`api_runner.py:2204`), though
  the action says (`:1616`) "Clean up the disposable {resource} record created by
  this run." `NamedRecordIsUsed` is about creations that named their record.
- The same happens to a resource that the model planned to read before the stage added
  its chain: an id the read showed is kept when the creation names another
  (`api_runner.py:2233` adds names and replaces none), and the chain changes and
  deletes that record. `NamedRecordIsUsed` leaves `Planned` resources out.
- An unapproved POST, PUT or PATCH is sent if its path or its text (the reason of an action,
  the title of a case, the summary of an endpoint) names a login, a token, a captcha, an
  export or a download (`api_runner.py:404`, `:490`, `:1811`): "reset the token" is not a
  read. `WritesAreGated` grants that word, except to a deletion, to which the code grants
  it nowhere.
- The sanitizer of generated cases leaves a guessed status alone that it cannot
  read ("not_equals:200" and what is no number, `api_scope.py:571`), and never looks at
  the template's `expected_status`, which decides when no assertion is about the status
  (`api_runner.py:2385`). A success with the documented status then fails a case over a
  guess. `VerdictsAreJust` leaves these out.
- The negative probes of category `SECURITY` (`tc_generator.py:132`) are not excluded from
  the new login (`api_runner.py:2552`, only `AUTH` is): the 401 they expect
  triggers one, and the probe is sent again with what authenticates.
- A 405 in the second round, after a new login, is not remembered; the budget can
  cut a chain's clean-up.
- A suite's browser commands that have no structured action (select, reload,
  press, check, hover, go-back, dialog-dismiss) are dropped and the case passes
  without them (`ui_test_planner.py:684`); DG:1324 says "keep original command
  semantics". `CommandsAreMeant` is about the commands that are sent.
- A click on a text goes to the first element whose text has it or is a part of it when none
  bears it, and to one of those with the pointer before one that bears it without
  (`ui_runner.py:441`): "orders" may open "new orders". `RefsAreCurrent` demands the
  exact text only if an element with the pointer bears it.
- A "fresh" login-validation case only gets a `goto` in the signed-in
  browser (DG:1323).
- All runs of a host drive one browser (`playwright_tool.py:83`).

Planning sessions:

- A turn accepted before an execution writes `collecting` or `ready` over
  `executed` when the model answers (`agent_planning.py:1620`, checked only at
  `agent_plans.py:164`), against QG:205 "so the session cannot lose `executed`
  status or stale run linkage".
- The payload's token is the model's own, if its answer has one, and only then the user's
  (`agent_planning.py:595`; the prompt asks for it, `:1773`). The history it is shown is redacted
  (`:1749`), so it may be a placeholder or invented; it may also be one the user has
  rejected. `PlansFollowTheUser` is about tokens the model did not bring.
- A chat after a questionnaire with a step put off makes a plan of its own, which may be
  executed. `DeferredBlocks` is about sessions without messages.
- Two overlapping executions create two runs; one that dies after `create_run`'s
  commit leaves a run the session does not know (`agent_plans.py:937`, `:943`).
- The questionnaire reports success for ever when a document has no base URL
  (`agent_plans.py:389`); "测试环境写入", an option it offers, does not match
  `_WRITE_ALLOWED_RE`; concurrent intakes create two questionnaires; generating
  answers 400 unless the session has both plan and payload.

Preflight and login:

- Following the advice loops when the user's own body lacks a required field;
  `GuidanceWorks` is about bodies made from the document.
- `tenantCode` and `smsCode` are filled with the captcha (`api_auth.py:738`; QG:806).
- A login scores by required field (`api_auth.py:324`): a special one that requires three
  fields more than the plain one, and lacks one of them, can outweigh it.
  `PlainLoginWins` is about a difference of at most two.
- A login that is enabled without full credentials is sent before any captcha is asked
  for, so with one typed earlier also in dynamic mode, and refused whatever it answers
  (`auth_preflight_service.py:699`). In dynamic mode a captcha the user wrote into the login's body
  stays there though the endpoint told another (`api_auth.py:866`).
  `CaptchaIsFetched` leaves out both.

Suites and re-runs:

- Two concurrent deletions, or an update with an old list, leave a deleted case in
  a suite (DG:274); an update between a deletion's read and its commit is lost
  (`test_cases.py:489`). `RunsWhatIsThere` holds because running passes it over.
- A page check with browser commands and an address of its own goes to the API
  stage (`test_cases.py:245`); DG:895 says "routed to `ui_cases`".
- What was typed stays in the log as the `value` of the actions the browser planner makes of
  each command (`ui_test_planner.py:709`, `:737`): a value by itself matches no pattern of
  `redaction.py`. In a command's text, redaction misses a sole word (`type "x"`) and a
  bare value after a quoted selector (`redaction.py:86`); a row saved from the log is looked
  at again, but only if the command has a word like "password" (`runs.py:1144`).
  `LogsAreSafe` and `SavedIsSafe` are about the forms that are known.
- A model that asks for a replan has a suite's cases replaced in the log by generated ones
  (`execution_evaluator.py:1034`, `:1043`); a re-run is then sent those. The planner itself
  rewrites a suite's UI cases in the log: unknown commands vanish, checks become
  snapshots (`ui_test_planner.py:725`), and the re-run has what is left.
  `CasesCarryOver` is about runs that did not plan anew, and compares cases as the planner
  writes them.
- A continuation or re-run of a run whose worker had not begun loses the suite's
  cases (`runs.py:3554`, `:3613`; QG:1597, :1613, :1627): `CasesCarryOver` is about
  runs that had begun. A re-run of a mixed suite has `test_type` "full"; a suite's
  UI cases without an address get no seed (DG:1168).

## 6. Not modelled

- *Content*: prompts, plans, generated cases, report text. They are choices over
  what the control flow tells apart.
- *The agent loop's turns*: its messages, token budget and supervisor; `Approval`
  has its gate.
- *Bug reports* inserted by `_run` and `knowledge_sink`.
- *The older stream* of `api/v1/tasks.py` and *list, triage and summary views* of
  runs, suites and sessions: reads of one transaction.
- *Target memory and mission preview* (`preflight_service.py` from 509 on), *captcha
  refresh during a run* (`api_runner.py` 2553-2592), *case generation by a model*.
- *Knowledge base, LLM gateway, other routes, parsers, mock data, frontend*: third
  party, pure I/O, or one transaction per request.
- *Legacy nodes* (`analyzer`, `coder`, `executor`, `healer`, `api_executor`): no
  graph registers them.
- *A worker lost without a signal*: no code answers it.

## 7. Plan

The model is complete as far as section 6 goes; what is left is proofs.

`UiStage`: `CasesArePrepared`, from what each phase knows of the login and from
the setup commands being the head of a prepared batch. The batches are made with
`SelectSeq`; with `Picked` for it, as `ApiRequests` has it, the lemmas of
`ApiStage_proofs` on selections would carry over.

## 8. Running

`tlc -config MCRunLifecycle_worker.cfg MCRunLifecycle` and so on for each run: the
module is the part of the configuration's name before the underscore.
`tlapm RunLifecycle_proofs.tla`, and so on for each `*_proofs` module, checks the proofs;
`RunEvents_proofs`, `SuiteStore_proofs` and `PlanSession_proofs` take the longest.
