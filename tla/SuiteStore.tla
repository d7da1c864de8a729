------------------------------ MODULE SuiteStore ------------------------------
(***************************************************************************)
(* Test cases, suites and the runs they come from and lead to: accepted    *)
(* cases of a run are saved as rows and a suite, users edit and delete     *)
(* both, a suite is run, and a run is run again as it was or with help     *)
(* (api/v1/test_cases.py; save_run_case_assets, rerun_run and              *)
(* create_run_intervention in api/v1/runs.py).                             *)
(* A request on cases that reads before it writes is two steps; the others *)
(* are one (RunLifecycle has the steps of a request on a run).             *)
(***************************************************************************)
EXTENDS RunContext, FiniteSets, Selections

CONSTANTS Clients,       \* concurrent requests
          CaseIds, SuiteIds,
          RunIds, Runs,  \* Runs: what the runs that are there at first hold
          Accepted,      \* selections a client sends: sequences of [source, index, edit]
          UserRows,      \* what a user writes into a case
          Texts,         \* what a user helps with
          Generated,     \* lists of cases that a run's planning makes
          MaxListed,     \* bounds the length of a list a user writes
          MaxRequests    \* bounds the requests and the replans of runs

ASSUME BoundsAssumption == MaxListed \in Nat /\ MaxRequests \in Nat

(* What the constants may hold.  A list is a JSON list; a case has the keys *)
(* of NoCase.                                                              *)
IsList(s) == Len(s) \in Nat /\ s = [i \in 1 .. Len(s) |-> s[i]]
IsCommand(c) == c = [name |-> c.name, arg |-> c.arg, val |-> c.val, form |-> c.form]
AreCommands(s) == IsList(s) /\ \A i \in 1 .. Len(s) : IsCommand(s[i])
IsAction(a) == a = [type |-> a.type, arg |-> a.arg, val |-> a.val]
AreActions(s) == IsList(s) /\ \A i \in 1 .. Len(s) : IsAction(s[i])
IsTemplate(t) == t = [method |-> t.method, url |-> t.url, base |-> t.base, headers |-> t.headers, body |-> t.body]
IsData(d) == /\ d = [request |-> d.request, url |-> d.url, target |-> d.target, base |-> d.base, commands |-> d.commands]
             /\ IsTemplate(d.request) /\ AreCommands(d.commands)
IsCase(x) == /\ x = [type |-> x.type, category |-> x.category, request |-> x.request, url |-> x.url,
                     target |-> x.target, base |-> x.base, commands |-> x.commands,
                     actions |-> x.actions, data |-> x.data]
             /\ IsTemplate(x.request) /\ AreCommands(x.commands) /\ AreActions(x.actions) /\ IsData(x.data)
AreCases(s) == IsList(s) /\ \A i \in 1 .. Len(s) : IsCase(s[i])
IsContext(c) ==
  /\ c = [source |-> c.source, input |-> c.input, seed |-> c.seed, options |-> c.options, setup |-> c.setup,
          auth |-> c.auth, custom |-> c.custom, cases |-> c.cases]
  /\ IsList(c.setup)
  /\ c.cases = [api_cases |-> c.cases.api_cases, ui_cases |-> c.cases.ui_cases, test_cases |-> c.cases.test_cases]
  /\ AreCases(c.cases.api_cases) /\ AreCases(c.cases.ui_cases) /\ AreCases(c.cases.test_cases)
IsLog(l) == /\ l = [context |-> l.context, cancelled |-> l.cancelled, runtime |-> l.runtime,
                    continuation |-> l.continuation, from |-> l.from]
            /\ IsContext(l.context)
IsRun(x) == /\ x = [status |-> x.status, target |-> x.target, context |-> x.context, log |-> x.log,
                    suite |-> x.suite, origin |-> x.origin, began |-> x.began, logged |-> x.logged,
                    replanned |-> x.replanned]
            /\ IsContext(x.context) /\ IsLog(x.log)

Active == {"queued", "running"}
Helpable == {"failed", "bug_found", "cancelled"}
Statuses == Active \cup Helpable \cup {"succeeded"}
Kinds == {"api", "ui", None}

(* Ids are no empty strings, and finitely many are considered.             *)
ASSUME IdsAssumption ==
  IsFiniteSet(RunIds) /\ IsFiniteSet(CaseIds) /\ IsFiniteSet(SuiteIds) /\ None \notin RunIds
(* The runs that are there at first were not made by what is modelled here. *)
ASSUME RunsAssumption ==
  /\ DOMAIN Runs \subseteq RunIds
  /\ \A id \in DOMAIN Runs :
       /\ IsRun(Runs[id]) /\ Runs[id].suite = [asked |-> <<>>] /\ Runs[id].origin = None
       /\ Runs[id].log.continuation = None /\ Runs[id].log.from = None
       /\ Runs[id].status \in Statuses /\ ~Runs[id].began
ASSUME GeneratedAssumption == \A made \in Generated : AreCases(made)
(* An edit replaces a key of a case by what that key may hold.             *)
ASSUME AcceptedAssumption ==
  \A accepted \in Accepted : IsList(accepted) /\ \A i \in DOMAIN accepted :
    LET edit == accepted[i].edit
    IN /\ accepted[i].source \in {"api_cases", "ui_cases", "test_cases"}
       /\ "request" \in DOMAIN edit => IsTemplate(edit.request)
       /\ "commands" \in DOMAIN edit => AreCommands(edit.commands)
       /\ "actions" \in DOMAIN edit => AreActions(edit.actions)
       /\ "data" \in DOMAIN edit => IsData(edit.data)
(* A user's own row comes from no run.                                     *)
ASSUME RowsAssumption ==
  \A row \in UserRows : /\ row = [category |-> row.category, data |-> row.data, run |-> None, kind |-> row.kind]
                        /\ IsData(row.data) /\ row.kind \in Kinds

VARIABLES runs,          \* id |-> row, Free or Gone
          cases, suites, \* id |-> row, Free or Gone
          req,           \* client |-> the request it waits for
          requests
vars == <<runs, cases, suites, req, requests>>

Free == [state |-> "free"]
Gone == [state |-> "gone"]
Idle == [op |-> "none"]
Live(rows) == {id \in DOMAIN rows : rows[id] \notin {Free, Gone}}
Unused(rows) == {id \in DOMAIN rows : rows[id] = Free}
(* Which of the unused ids a new row gets makes no difference. *)
NewIds(rows, n) == SubSeq(SetToSeq(Unused(rows)), 1, n)
NewId(rows) == NewIds(rows, 1)[1]

(* A row of a run: what its worker is sent, and its log.  Five fields are   *)
(* history: the suite it was dispatched for, what it was made from, whether *)
(* its worker has begun, which of its lists were planned anew, and whether, *)
(* when the runs it was made from were run again, the workers of all had    *)
(* begun and planned nothing anew.                                         *)
NoSuite == [asked |-> <<>>]
RunRow(target, context) ==
  [status |-> "queued", target |-> target, context |-> context, log |-> NoLog,
   suite |-> NoSuite, origin |-> None, began |-> FALSE, logged |-> TRUE,
   replanned |-> {}]
Init == /\ runs = [id \in RunIds |-> IF id \in DOMAIN Runs THEN Runs[id] ELSE Free]
        /\ cases = [id \in CaseIds |-> Free]
        /\ suites = [id \in SuiteIds |-> Free]
        /\ req = [c \in Clients |-> Idle]
        /\ requests = 0

Begin == requests < MaxRequests /\ requests' = requests + 1
SuiteRow(ids) == [state |-> "row", ids |-> ids]

(***************************************************************************)
(* save_run_case_assets                                                    *)
(***************************************************************************)
InLog(run, sel) == sel.index \in DOMAIN runs[run].log.context.cases[sel.source]
Valid(run, accepted) ==
  /\ accepted # <<>> /\ \A i \in DOMAIN accepted : InLog(run, accepted[i])
  /\ \A i, j \in DOMAIN accepted :
       accepted[i].source = accepted[j].source /\ accepted[i].index = accepted[j].index => i = j
AcceptedRow(run, sel) ==
  SavedRow(Merged(runs[run].log.context.cases[sel.source][sel.index], sel.edit), sel.source, run, runs[run].target)
(* The rows and the suite that names them are one commit. *)
Save(run, accepted) ==
  /\ run \in Live(runs) /\ Valid(run, accepted) /\ Begin
  /\ Cardinality(Unused(cases)) >= Len(accepted) /\ Unused(suites) # {}
  /\ LET ids == NewIds(cases, Len(accepted))
         At(id) == {i \in DOMAIN accepted : ids[i] = id}
     IN /\ cases' = [id \in CaseIds |-> IF At(id) = {} THEN cases[id]
                                       ELSE AcceptedRow(run, accepted[CHOOSE i \in At(id) : TRUE])]
        /\ suites' = [suites EXCEPT ![NewId(suites)] = SuiteRow(ids)]
  /\ UNCHANGED <<runs, req>>

(***************************************************************************)
(* Cases and suites as users write them                                    *)
(***************************************************************************)
CreateCase(row) ==
  /\ Unused(cases) # {} /\ Begin
  /\ cases' = [cases EXCEPT ![NewId(cases)] = row]
  /\ UNCHANGED <<runs, suites, req>>
UpdateCase(id, row) ==
  /\ id \in Live(cases) /\ Begin
  /\ cases' = [cases EXCEPT ![id] = row]
  /\ UNCHANGED <<runs, suites, req>>
CreateSuite(ids) ==
  /\ Unused(suites) # {} /\ Begin
  /\ suites' = [suites EXCEPT ![NewId(suites)] = SuiteRow(ids)]
  /\ UNCHANGED <<runs, cases, req>>
UpdateSuite(s, ids) ==
  /\ s \in Live(suites) /\ Begin
  /\ suites' = [suites EXCEPT ![s] = SuiteRow(ids)]
  /\ UNCHANGED <<runs, cases, req>>
DeleteSuite(s) ==
  /\ s \in Live(suites) /\ Begin
  /\ suites' = [suites EXCEPT ![s] = Gone]
  /\ UNCHANGED <<runs, cases, req>>
DeleteRun(run) ==
  /\ run \in Live(runs) /\ Begin
  /\ runs' = [runs EXCEPT ![run] = Gone]
  /\ UNCHANGED <<cases, suites, req>>

(***************************************************************************)
(* delete_test_case                                                        *)
(***************************************************************************)
Naming(id) == {s \in Live(suites) : \E i \in DOMAIN suites[s].ids : suites[s].ids[i] = id}
Pruned(ids, id) == Picked(ids, {i \in DOMAIN ids : ids[i] # id})
ReadSuites(c, id) ==
  /\ req[c] = Idle /\ id \in Live(cases) /\ Begin
  /\ req' = [req EXCEPT ![c] = [op |-> "delete", id |-> id,
                                pruned |-> [s \in Naming(id) |-> Pruned(suites[s].ids, id)]]]
  /\ UNCHANGED <<runs, cases, suites>>

(* The lists read are written back; a suite deleted meanwhile fails the     *)
(* whole commit.                                                           *)
CommitDelete(c) ==
  /\ req[c].op = "delete"
  /\ req' = [req EXCEPT ![c] = Idle]
  /\ \/ /\ DOMAIN req[c].pruned \subseteq Live(suites)
        /\ suites' = [s \in SuiteIds |-> IF s \in DOMAIN req[c].pruned THEN SuiteRow(req[c].pruned[s]) ELSE suites[s]]
        /\ cases' = [cases EXCEPT ![req[c].id] = Gone]
     \/ /\ ~(DOMAIN req[c].pruned \subseteq Live(suites))
        /\ UNCHANGED <<suites, cases>>
  /\ UNCHANGED <<runs, requests>>

(***************************************************************************)
(* run_suite                                                               *)
(***************************************************************************)
ReadSuite(c, s) ==
  /\ req[c] = Idle /\ s \in Live(suites) /\ suites[s].ids # <<>> /\ Begin
  /\ req' = [req EXCEPT ![c] = [op |-> "run", asked |-> suites[s].ids, at |-> 1,
                                read |-> <<>>, api |-> <<>>, ui |-> <<>>]]
  /\ UNCHANGED <<runs, cases, suites>>
(* The cases are read one after the other; one that is gone is passed over. *)
NextAfterGap(r) == Len(r.asked) + 1
AfterMissing(r) == r.at + 1
ReadCase(c) ==
  /\ req[c].op = "run" /\ req[c].at <= Len(req[c].asked)
  /\ LET r == req[c]
         p == Payload(r.asked[r.at], cases[r.asked[r.at]])
     IN req' = [req EXCEPT ![c] =
                  IF r.asked[r.at] \in Live(cases)
                  THEN Sorted([r EXCEPT !.at = r.at + 1, !.read = Append(r.read, p)], p)
                  ELSE [r EXCEPT !.at = AfterMissing(r)]]
  /\ UNCHANGED <<runs, cases, suites, requests>>

(* A suite that knows no address of its own goes where the first run its    *)
(* cases come from went, if that run is still there.                       *)
Reachable(r) == r \in Live(runs) /\ Absolute(runs[r].target)
SourceTarget(payloads) ==
  LET i == SelectInSeq(payloads, LAMBDA p : Reachable(p.run))
  IN IF i = 0 THEN Suite ELSE runs[payloads[i].run].target
TargetOf(r) ==
  LET own == SuiteTarget(r.api, r.ui)
  IN IF own = Suite THEN SourceTarget(r.read) ELSE own
SuiteContext(api, ui) ==
  [NoContext EXCEPT !.source = Suite, !.seed = UiSeed(ui), !.input = IF UiSeed(ui) = None THEN None ELSE "url",
                    !.cases = [NoCases EXCEPT !.api_cases = CasesOf(api), !.ui_cases = CasesOf(ui)]]
SuiteRun(r) ==
  [RunRow(TargetOf(r), SuiteContext(r.api, r.ui)) EXCEPT
     !.suite = [asked |-> r.asked, api |-> r.api, ui |-> r.ui,
                type |-> TestType(r.api, r.ui), agent |-> AgentType(r.api, r.ui)]]
RunSuite(c) ==
  /\ req[c].op = "run" /\ req[c].at > Len(req[c].asked)
  /\ req' = [req EXCEPT ![c] = Idle]
  /\ \/ /\ req[c].read # <<>> /\ Unused(runs) # {}
        /\ runs' = [runs EXCEPT ![NewId(runs)] = SuiteRun(req[c])]
     \/ /\ req[c].read = <<>>
        /\ UNCHANGED runs
  /\ UNCHANGED <<cases, suites, requests>>

(***************************************************************************)
(* The worker, rerun_run and create_run_intervention                       *)
(***************************************************************************)
(* The first write of the worker, or of the request itself when the broker  *)
(* is down.  What a run does then and how it ends is RunLifecycle's.        *)
StartRun(run) ==
  /\ run \in Live(runs) /\ runs[run].status = "queued"
  /\ runs' = [runs EXCEPT ![run].status = "running", ![run].began = TRUE,
                          ![run].log = LogPayload(StartState(runs[run].context), runs[run].log)]
  /\ UNCHANGED <<cases, suites, req, requests>>

(* The planning nodes write the lists of the log: what the run was sent, in *)
(* the planner's form, or, when the model asks for a replan and when a run  *)
(* has no cases, lists of their own.                                       *)
Logged(run) == runs[run].log.context.cases
Plan(run) ==
  /\ run \in Live(runs) /\ runs[run].status = "running"
  /\ runs[run].context.cases # NoCases /\ "ui_cases" \notin runs[run].replanned
  /\ runs' = [runs EXCEPT ![run].log = WithCases(@, AfterPlanning(runs[run].context, Logged(run)))]
  /\ UNCHANGED <<cases, suites, req, requests>>
Replan(run, list, made) ==
  /\ run \in Live(runs) /\ runs[run].status = "running" /\ Begin
  /\ \E written \in AfterReplan(Logged(run), list, made) :
       runs' = [runs EXCEPT ![run].log = WithCases(@, written), ![run].replanned = @ \cup {list}]
  /\ UNCHANGED <<cases, suites, req>>

Context(run) == RerunContext(runs[run].log, runs[run].target)
Again(run, target, context, log) ==
  [RunRow(target, context) EXCEPT !.log = log, !.suite = runs[run].suite, !.origin = run,
                                  !.logged = /\ runs[run].logged /\ runs[run].began
                                             /\ runs[run].replanned = {}]
Rerun(run) ==
  /\ run \in Live(runs) /\ Unused(runs) # {} /\ Begin
  /\ runs' = [runs EXCEPT ![NewId(runs)] = Again(run, RerunTarget(Context(run), runs[run].target), Context(run), NoLog)]
  /\ UNCHANGED <<cases, suites, req>>

(* The source is cancelled if it is active, and its log names the new run. *)
Continued(row, new) ==
  [row EXCEPT !.status = IF @ \in Active THEN "cancelled" ELSE @,
              !.log.cancelled = @ \/ row.status \in Active,
              !.log.runtime = "continued", !.log.continuation = new]
Intervene(run, text) ==
  /\ run \in Live(runs) /\ runs[run].status \in Active \cup Helpable /\ Unused(runs) # {} /\ Begin
  /\ LET context == Supplemented(Context(run), text)
         new == NewId(runs)
     IN runs' = [runs EXCEPT ![run] = Continued(@, new),
                             ![new] = Again(run, ContinuationTarget(context, runs[run].target), context,
                                            Seeded(context, run))]
  /\ UNCHANGED <<cases, suites, req>>

(* What a user writes into a suite is stored as it is, a case twice too.    *)
Lists == SeqOf(Live(cases), MaxListed) \ {<<>>}
Next ==
  \/ \E run \in RunIds : \/ DeleteRun(run) \/ Rerun(run) \/ StartRun(run) \/ Plan(run)
                         \/ \E list \in {"api_cases", "ui_cases"}, made \in Generated : Replan(run, list, made)
                         \/ \E accepted \in Accepted : Save(run, accepted)
                         \/ \E text \in Texts : Intervene(run, text)
  \/ \E row \in UserRows : CreateCase(row) \/ \E id \in CaseIds : UpdateCase(id, row)
  \/ \E ids \in Lists : CreateSuite(ids) \/ \E s \in SuiteIds : UpdateSuite(s, ids)
  \/ \E s \in SuiteIds : DeleteSuite(s)
  \/ \E c \in Clients : \/ \E id \in CaseIds : ReadSuites(c, id)
                        \/ \E s \in SuiteIds : ReadSuite(c, s)
                        \/ CommitDelete(c) \/ ReadCase(c) \/ RunSuite(c)
Spec == Init /\ [][Next]_vars

(***************************************************************************)
(* Properties                                                              *)
(***************************************************************************)
(* Rows are what the store may hold, and a suite's list names ids that were *)
(* given out.                                                              *)
TypeOK ==
  /\ requests \in 0..MaxRequests
  /\ \A r \in Live(runs) : /\ runs[r].status \in Statuses
                           /\ runs[r].log.continuation # None => runs[runs[r].log.continuation] # Free
  /\ \A id \in Live(cases) : /\ cases[id].kind \in Kinds
                             /\ cases[id].run # None => runs[cases[id].run] # Free
  /\ \A s \in Live(suites) : \A i \in DOMAIN suites[s].ids : cases[suites[s].ids[i]] # Free
  /\ \A c \in Clients : req[c].op \in {"none", "delete", "run"}

(* Whatever a run's log or an edit held, no row saved from a run keeps a    *)
(* sensitive header, body or query, nor a value that was typed in a form    *)
(* that redaction knows or into what is named like a password.             *)
SafeUrls(x) == {x.url, x.base} \cap {"http?token", "user@http"} = {}
LoggedCommands(commands) ==
  \A i \in DOMAIN commands :
    LET c == commands[i]
    IN c.arg # "http?token" /\ (Typing(c) /\ c.form = "plain" => c.val # Secret)
SavedCommands(commands) ==
  /\ LoggedCommands(commands)
  /\ \A i \in DOMAIN commands : Typing(commands[i]) /\ Hinted(commands[i]) => commands[i].val # Secret
SavedIsSafe ==
  \A id \in Live(cases) : cases[id].run # None =>
    LET data == cases[id].data
    IN /\ data.request.headers \cap SensitiveHeaders = {} /\ data.request.body # Secret
       /\ SafeUrls(data.request) /\ SafeUrls(data) /\ data.target \notin {"http?token", "user@http"}
       /\ SavedCommands(data.commands)

(* No log that this code began holds what a user sent or was given, in its  *)
(* instructions, headers or requests, nor what was typed in a form that     *)
(* redaction knows, however often it was planned and run again.  The        *)
(* planner's actions do hold what was typed (ui_test_planner.py:709).       *)
LoggedSecrets(c) ==
  \/ \E i \in DOMAIN c.setup : c.setup[i] = Secret
  \/ \E headers \in {c.auth, c.custom} : \E h \in DOMAIN headers :
       headers[h] = Secret \/ (h \in SensitiveHeaders /\ headers[h] # Hidden)
  \/ \E s \in DOMAIN c.cases : \E i \in DOMAIN c.cases[s] :
       LET case == c.cases[s][i] IN case.request.body = Secret \/ ~LoggedCommands(case.commands)
LogsAreSafe ==
  \A r \in Live(runs) : r \notin DOMAIN Runs \/ runs[r].began => ~LoggedSecrets(runs[r].log.context)

(* A run that is made from another is sent no header that is sensitive,     *)
(* secret or redacted, though the log may be older than the redaction.     *)
NoSecretReplayed ==
  \A r \in Live(runs) : runs[r].origin # None =>
    \A headers \in {runs[r].context.auth, runs[r].context.custom} : \A h \in DOMAIN headers :
      h \notin SensitiveHeaders /\ headers[h] \notin {Secret, Hidden}

(* However often a suite's run is run again, with or without help, it is    *)
(* sent the cases of the suite, redacted and as the planner writes them:    *)
(* nothing else that a worker logs changes them.  It need not be so when a  *)
(* worker had not begun by then or had planned anew.                       *)
Redacted(list) == <<>> \o [i \in DOMAIN list |-> RedactedCase(list[i])]
WithoutValue(a) == [a EXCEPT !.val = IF @ = None THEN None ELSE Hidden]
Seen(case) ==
  LET p == RedactedCase(Planned(case))
  IN [p EXCEPT !.actions = <<>> \o [i \in DOMAIN @ |-> WithoutValue(@[i])]]
AllSeen(list) == <<>> \o [i \in DOMAIN list |-> Seen(list[i])]
CasesCarryOver ==
  \A r \in Live(runs) : runs[r].suite # NoSuite /\ runs[r].logged =>
    /\ Redacted(runs[r].context.cases.api_cases) = Redacted(CasesOf(runs[r].suite.api))
    /\ AllSeen(runs[r].context.cases.ui_cases) = AllSeen(CasesOf(runs[r].suite.ui))

(* A continuation's log names its source to the end, and a source's log one *)
(* of its continuations.                                                   *)
ContinuationsAreLinked ==
  \A r \in Live(runs) :
    /\ runs[r].log.from # None => runs[r].log.from = runs[r].origin
    /\ runs[r].log.continuation \in Live(runs) =>
         LET next == runs[runs[r].log.continuation] IN next.origin = r /\ next.log.from = r

(* An API case that was saved with its request goes to the API stage with   *)
(* an address it can be sent to, when its run had one.                     *)
SuiteRuns == {r \in Live(runs) : runs[r].suite # NoSuite /\ runs[r].origin = None}
Sent(d) == {d.api[i] : i \in DOMAIN d.api} \cup {d.ui[i] : i \in DOMAIN d.ui}
SavedApi(p) == /\ p.run # None /\ p.case.data.request # NoTemplate /\ p.case.data.request.method # None
               /\ p.case.category # "ui"
ApiCasesSurvive ==
  \A r \in SuiteRuns : \A p \in Sent(runs[r].suite) : SavedApi(p) =>
    /\ p.case.type = "api"
    /\ Reachable(p.run) /\ p.case.request.url # None
         => Absolute(p.case.request.url) \/ p.case.request.base # None

(* A run of a suite contains, in the suite's order, every case of the list  *)
(* it read that still exists, and nothing else.                            *)
Within(d, payloads) ==
  \E at \in [DOMAIN payloads -> DOMAIN d.asked] :
    \A i \in DOMAIN payloads : /\ payloads[i].id = d.asked[at[i]]
                               /\ \A j \in DOMAIN payloads : i < j => at[i] < at[j]
RunsWhatIsThere ==
  \A r \in SuiteRuns :
    LET d == runs[r].suite
    IN /\ Within(d, d.api) /\ Within(d, d.ui)
       /\ \A i \in DOMAIN d.asked : d.asked[i] \in Live(cases) => \E p \in Sent(d) : p.id = d.asked[i]

(* A suite with a case saved from a run that is still there, and that had   *)
(* an address, is run against an address.                                  *)
SuiteIsAimed ==
  \A r \in SuiteRuns : (\E p \in Sent(runs[r].suite) : Reachable(p.run)) => runs[r].target # Suite

\* No secret that redaction can tell gets from a run into a case, a log, or a run made
\* from it.
SecretsStay == SavedIsSafe /\ LogsAreSafe /\ NoSecretReplayed

\* A run made from another runs the same cases and stays linked with it.
SuccessorsRunTheCases == CasesCarryOver /\ ContinuationsAreLinked

\* A suite's run has every case that is left, each sendable, and an address.
SuiteRunsAreWhole == RunsWhatIsThere /\ ApiCasesSurvive /\ SuiteIsAimed
=============================================================================
