------------------------------ MODULE ApiStage ------------------------------
(***************************************************************************)
(* The API stage of a run (api_runner.run and ToolExecutor): the selected  *)
(* requests one after the other, each sent up to 1 + retries times, once   *)
(* more after a new login, under a budget of HTTP calls for all of them;   *)
(* the ids the answers show fill in the paths of later requests.           *)
(*                                                                         *)
(* What a response holds is the answer it is to the code, and whose record *)
(* the first id in it is: one this run created ("own") or not ("other").   *)
(***************************************************************************)
EXTENDS ApiRequests

CONSTANT Scenarios  \* bound: configurations, cases, plans and descriptions

\* Settings are numbers; a budget of 0 is none.
ASSUME ScenariosAssumption == Scenarios \subseteq Configurations

VARIABLES
  conf,     \* what the stage was given
  pc,       \* "select", "next", "send", "answered", "login", "judge", "done"
  queue,    \* test_requests
  index,    \* the request the loop is at
  round,    \* 2: again, after a new login
  tries,    \* HTTP calls made for the tool call that runs
  answer,   \* the response it holds
  shows,    \* whose record the id in that response is, "none" without one
  spent,    \* http_executed_count
  ctx,      \* dependency_context: variable -> whose record it names
  blocked,  \* environment_blocked_scopes: methods (one origin)
  signedIn, \* state.auth_headers authenticates
  results,  \* how many results there are of each outcome
  omitted,  \* runtime_budget_omitted
  sends,    \* history: HTTP calls for the request at index
  sent,     \* history: the requests sent so far
  named,    \* history: resources whose creation was answered with an id
  wrote     \* history: <<method, owner>> of the records changed or deleted

vars == <<conf, pc, queue, index, round, tries, answer, shows, spent, ctx, blocked, signedIn,
          results, omitted, sends, sent, named, wrote>>

\* 2xx; 2xx with a body that refutes what is asserted of it; 2xx with a 4xx envelope; 401 or
\* 403 in either; another 4xx; 405; 5xx.
Answers  == {"ok", "wrong", "rejects", "auth", "refused", "denied", "fault"}
Outcomes == {"passed", "failed", "skipped", "blocking", "environment", "advisory"}
Owners   == {"none", "own", "other", "value"}

Q == queue[index]

TypeOK ==
  /\ conf \in Scenarios
  /\ pc \in {"select", "next", "send", "answered", "login", "judge", "done"}
  /\ \A i \in DOMAIN queue :
       /\ queue[i].method \in Methods /\ queue[i].res \in Resources
       /\ queue[i].needs \cup queue[i].gives \subseteq Vars
       /\ queue[i].skip \in Skips /\ queue[i].category \in Categories
  /\ index \in 1 .. Len(queue) + 1
  /\ round \in 1 .. 2
  /\ tries \in Nat /\ spent \in Nat /\ sends \in Nat /\ omitted \in Nat
  /\ answer \in Answers \cup {"none"}
  /\ shows \in Owners
  /\ ctx \in [Vars -> Owners]
  /\ blocked \subseteq WriteMethods
  /\ signedIn \in BOOLEAN
  /\ results \in [Outcomes -> Nat]
  /\ sent \subseteq DOMAIN queue
  /\ named \subseteq Resources
  /\ wrote \subseteq WriteMethods \X Owners

Init ==
  /\ conf \in Scenarios
  /\ pc = "select"
  /\ queue = << >>
  /\ index = 1
  /\ round = 1
  /\ tries = 0
  /\ answer = "none"
  /\ shows = "none"
  /\ spent = 0
  /\ ctx = [v \in Vars |-> "none"]
  /\ blocked = {}
  /\ signedIn = conf.headers
  /\ results = [o \in Outcomes |-> 0]
  /\ omitted = 0
  /\ sends = 0
  /\ sent = {}
  /\ named = {}
  /\ wrote = {}

Call    == <<round, tries, answer, shows>>
History == <<sent, named, wrote>>
World   == <<ctx, blocked, signedIn>>

----------------------------------------------------------------------------
(* The loop. *)

Select ==
  /\ pc = "select"
  /\ queue' = Queue(conf)
  /\ pc' = IF Len(queue') = 0 THEN "done" ELSE "next"
  /\ UNCHANGED <<conf, index, Call, spent, World, results, omitted, sends, History>>

\* A result is appended, the progress saved, the loop goes on.
Result(outcome) ==
  /\ results' = [results EXCEPT ![outcome] = @ + 1]
  /\ index' = index + 1
  /\ pc' = IF index = Len(queue) THEN "done" ELSE "next"
  /\ round' = 1 /\ tries' = 0 /\ answer' = "none" /\ shows' = "none" /\ sends' = 0

BlockingSkips == {"gate", "crud"}

Missing(q)    == {v \in q.needs : ctx[v] = "none"}
OverBudget    == conf.budget # 0 /\ spent >= conf.budget

SkipMarked ==
  /\ pc = "next" /\ Q.skip # "no"
  /\ Result(IF Q.skip \in BlockingSkips THEN "blocking" ELSE "skipped")
  /\ UNCHANGED <<conf, queue, spent, World, omitted, History>>

SkipDependent ==
  /\ pc = "next" /\ Q.skip = "no"
  /\ Missing(Q) # {}
  /\ Result("skipped")
  /\ UNCHANGED <<conf, queue, spent, World, omitted, History>>

SkipEnvironment ==
  /\ pc = "next" /\ Q.skip = "no" /\ Missing(Q) = {}
  /\ Q.method \in blocked
  /\ Result("environment")
  /\ UNCHANGED <<conf, queue, spent, World, omitted, History>>

OmitRest ==
  /\ pc = "next" /\ Q.skip = "no" /\ Missing(Q) = {} /\ Q.method \notin blocked
  /\ OverBudget
  /\ omitted' = omitted + Len(queue) - index + 1
  /\ pc' = "done"
  /\ UNCHANGED <<conf, queue, index, Call, spent, World, results, sends, History>>

Begin ==
  /\ pc = "next" /\ Q.skip = "no" /\ Missing(Q) = {} /\ Q.method \notin blocked
  /\ ~OverBudget
  /\ pc' = "send"
  /\ UNCHANGED <<conf, queue, index, Call, spent, World, results, omitted, sends, History>>

----------------------------------------------------------------------------
(* ToolExecutor._execute_api_http_request. *)

\* Mutant: the retries are the tool's own and none of the budget's business.
RetriesOnly == conf.retries + 1

\* None under a policy that does not allow the method.
Attempts ==
  IF Q.method \notin PolicyMethods(conf.policy) THEN 0
  ELSE IF conf.budget = 0 \/ conf.retries + 1 <= conf.budget - spent THEN conf.retries + 1
  ELSE conf.budget - spent

Touched == IF Q.detail THEN ctx[Q.res] ELSE "none"

\* Whose record the first id of a response is.  A list starts with any record, one
\* searched for the prefix with a record of this run.
Shown(a) ==
  IF a \notin {"ok", "wrong"} THEN {"none"}
  ELSE IF Q.method = "POST" THEN {"own", "none"}
  ELSE IF Q.detail THEN {Touched, "none"}
  ELSE (IF Q.search THEN {"none"} ELSE {"none", "other"})
         \cup (IF \E i \in sent : queue[i].method = "POST" /\ queue[i].res = Q.res
                 THEN {"own"} ELSE {})

\* One client.request: the server may have done what it was asked whatever the
\* answer is.
Sent ==
  /\ tries' = tries + 1
  /\ sends' = sends + 1
  /\ sent' = sent \cup {index}
  /\ wrote' = IF Write(Q.method) /\ Q.detail THEN wrote \cup {<<Q.method, Touched>>} ELSE wrote

\* A response below 500, or any at the last attempt, ends the call.
Respond(a) ==
  /\ pc = "send" /\ tries < Attempts
  /\ Sent
  /\ answer' = a
  /\ shows' \in Shown(a)
  /\ pc' = IF a # "fault" \/ tries' = Attempts THEN "answered" ELSE "send"
  /\ UNCHANGED <<conf, queue, index, round, spent, World, results, omitted, named>>

\* A timeout or a connection error; at the last attempt there is no response, an
\* earlier 5xx included.
Raise ==
  /\ pc = "send" /\ tries < Attempts
  /\ Sent
  /\ answer' = IF tries' = Attempts THEN "none" ELSE answer
  /\ shows' = IF tries' = Attempts THEN "none" ELSE shows
  /\ pc' = IF tries' = Attempts THEN "answered" ELSE "send"
  /\ UNCHANGED <<conf, queue, index, round, spent, World, results, omitted, named>>

----------------------------------------------------------------------------
(* What the stage makes of it. *)

AuthFailure == answer = "auth"

CanRefresh == conf.login /\ Q.category # "AUTH" /\ (Q.authed \/ signedIn)

NoResponse ==
  /\ pc = "answered" /\ answer = "none"
  /\ spent' = spent + tries
  /\ Result("failed")
  /\ UNCHANGED <<conf, queue, World, omitted, History>>

\* Mutant: any request the environment does not allow.
AnyDenied ==
  /\ pc = "answered" /\ round = 1
  /\ answer = "denied"
  /\ spent' = spent + tries
  /\ blocked' = blocked \cup {Q.method}
  /\ Result("environment")
  /\ UNCHANGED <<conf, queue, ctx, signedIn, omitted, History>>

\* A write the environment does not allow: no more of that method.
Denied ==
  /\ pc = "answered" /\ round = 1
  /\ answer = "denied" /\ Write(Q.method)
  /\ spent' = spent + tries
  /\ blocked' = blocked \cup {Q.method}
  /\ Result("environment")
  /\ UNCHANGED <<conf, queue, ctx, signedIn, omitted, History>>

Refreshes == round = 1 /\ AuthFailure /\ CanRefresh

Answered ==
  /\ pc = "answered" /\ answer # "none"
  /\ ~(round = 1 /\ answer = "denied" /\ Write(Q.method))
  /\ spent' = spent + tries
  /\ pc' = IF Refreshes /\ (conf.budget = 0 \/ spent' < conf.budget) THEN "login" ELSE "judge"
  /\ UNCHANGED <<conf, queue, index, Call, World, results, omitted, sends, History>>

\* _refresh_auth_for_request; its own calls are not part of the budget.
LoginAgain ==
  /\ pc = "login"
  /\ \/ /\ signedIn' = TRUE
        /\ pc' = "send"
        /\ round' = 2 /\ tries' = 0 /\ answer' = "none" /\ shows' = "none"
     \/ /\ pc' = "judge"
        /\ UNCHANGED <<Call, signedIn>>
  /\ UNCHANGED <<conf, queue, index, spent, ctx, blocked, results, omitted, sends, History>>

\* Mutant: a later response takes the place of an earlier one.
LatestNames ==
  IF Q.category = "SMOKE" /\ answer \in {"ok", "wrong"} /\ shows # "none"
    THEN [ctx EXCEPT ![Q.res] = shows] ELSE ctx

\* _record_dependency_context_from_response: what is known stays.
Recorded ==
  IF Q.category = "SMOKE" /\ answer \in {"ok", "wrong"} /\ shows # "none" /\ ctx[Q.res] = "none"
    THEN [ctx EXCEPT ![Q.res] = shows] ELSE ctx

\* The variables a case extracts are set anew, whatever the verdict; a response
\* may hold any of them or not.
Extracted(known) ==
  {[v \in Vars |-> IF v \in got THEN "value" ELSE known[v]] : got \in SUBSET Q.gives}

\* The assertions about the body that decide: those that block and that the runner
\* has a check for; the schema of a success is not asked of an expected 401.
Deciding(q) ==
  {a \in q.checks : /\ a.blocking /\ a.kind \in BodyKinds
                    /\ ~(q.category \in Probes /\ answer = "auth" /\ a.kind = "schema")}

\* An answer in the 2xx satisfies what is asserted of its body or refutes it; a
\* rejection may do either.
BodyHolds(q) ==
  IF Deciding(q) = {} THEN {TRUE}
  ELSE IF answer = "ok" THEN {TRUE} ELSE IF answer = "wrong" THEN {FALSE} ELSE BOOLEAN

\* Whether the response has a status that is asserted (_status_matches).  One of several, or
\* any but some, may be that of a rejection; without a blocking assertion about it the body decides.
StatusHolds(q) ==
  LET stated   == {a \in q.checks : a.kind = "status" /\ a.blocking}
      rejected == IF stated = {} THEN {Deciding(q) # {}}
                  ELSE IF \A a \in stated : a.lax THEN BOOLEAN ELSE {FALSE}
  IN  CASE q.category \in Probes            -> {answer = "auth"}
        [] q.category = "PARAM_VALIDATION" -> {answer = "refused"}
        [] OTHER -> IF answer \in {"ok", "wrong"} THEN {\A a \in stated : a.fits} ELSE rejected

\* The assertions and the two ways around them: a validation error in a 2xx envelope
\* passes, an authentication probe that succeeds is a note.
Verdicts ==
  IF Q.category = "PARAM_VALIDATION" /\ answer = "rejects" THEN {"passed"}
  ELSE IF Q.category \in Probes /\ answer \in {"ok", "wrong", "rejects"} THEN {"advisory"}
  ELSE {IF fits /\ holds THEN "passed" ELSE "failed" : fits \in StatusHolds(Q), holds \in BodyHolds(Q)}

Judge ==
  /\ pc = "judge"
  /\ ctx' \in Extracted(Recorded)
  /\ named' = IF Q.method = "POST" /\ Q.category = "SMOKE" /\ shows = "own"
                THEN named \cup {Q.res} ELSE named
  /\ \E verdict \in Verdicts : Result(verdict)
  /\ UNCHANGED <<conf, queue, spent, blocked, signedIn, omitted, sent, wrote>>

Done == pc = "done" /\ UNCHANGED vars

Next ==
  \/ Select
  \/ SkipMarked \/ SkipDependent \/ SkipEnvironment \/ OmitRest \/ Begin
  \/ \E a \in Answers : Respond(a)
  \/ Raise
  \/ NoResponse \/ Denied \/ Answered \/ LoginAgain \/ Judge
  \/ Done

Spec == Init /\ [][Next]_vars

----------------------------------------------------------------------------
(* Properties. *)

Total == results["passed"] + results["failed"] + results["skipped"] + results["blocking"]
           + results["environment"] + results["advisory"]

\* No more HTTP calls are made than the budget allows, those of retries and of
\* the second try after a login included.
BudgetHolds == conf.budget # 0 => spent + (IF pc \in {"send", "answered"} THEN tries ELSE 0) <= conf.budget

\* At the end every candidate has a result or is counted as omitted, be it when
\* the budget selected the requests or when it ran out.
EveryCandidateAccounted ==
  pc = "done" => Total + (Len(Candidates(conf)) - Len(queue)) + omitted = Len(Candidates(conf))

Approval(q) ==
  \/ q.method # "DELETE" /\ (q.res \in NonMutating \/ (q.source \in {"action", "schema"} /\ q.from[1].benign))
  \/ /\ q.source = "action"
     /\ q.from[1].allowed
     /\ Has(q.from[1].constraints, IsolationMarkers)
     /\ \/ Has(q.from[1].constraints, ConfirmMarkers)
        \/ GateConfirmed(Actions(conf))
  \/ /\ q.source = "case"
     /\ q.from[1].benign \/ (q.from[1].marked /\ q.from[1].constraints # {})
     /\ q.method = "DELETE" => q.from[1].marked

\* A write leaves the stage only under write_allowed, and only if the case or action
\* it was made of went through its gate or, unless it is a deletion, its path or its text
\* names a login, a token, a captcha, an export or a download (api_runner.py:490).
WritesAreGated ==
  \A i \in sent :
    Write(queue[i].method) => WriteAllowed(conf.policy) /\ Approval(queue[i])

\* A request made of a generated case is sent only to an endpoint of the
\* description, when there is one and the run was not told otherwise.
ScopeKept ==
  \A i \in sent :
    queue[i].source = "case" /\ conf.generated /\ ~conf.free /\ conf.schema # << >> =>
      \E j \in DOMAIN conf.schema :
        <<conf.schema[j].method, conf.schema[j].res, conf.schema[j].detail>>
          = <<queue[i].method, queue[i].res, queue[i].detail>>

\* Nothing is sent that the policy, the gates or the description rule out.
RequestsAreAllowed == WritesAreGated /\ ScopeKept

\* A request is sent at most once per attempt of each of two tool calls: one
\* login does not lead to another.
SendsBounded == sends <= 2 * (conf.retries + 1)

\* A chain that this stage composed itself addresses the record it created,
\* whenever the creation was answered with an id: no list that follows takes its
\* place.  A read of the plan that precedes the chain does: those resources are left out.
Synthetic == FromActions(queue) /\ ~PlansWrite(Validated(conf.plan, conf.schema, conf.policy))
Planned(r) == \E i \in DOMAIN conf.plan : conf.plan[i].tool = "http" /\ conf.plan[i].res = r
NamedRecordIsUsed == Synthetic => \A r \in named : ~Planned(r) => ctx[r] = "own"

\* When its creation named the record, the deletion at the end of such a chain is
\* sent, whatever happened in between, unless the budget or a 405 stands in the way.
CleanupIsTried ==
  Synthetic /\ pc = "done" =>
    \A i \in 1 .. index - 1 :
      /\ queue[i].method = "DELETE" /\ queue[i].res \in named
      /\ "DELETE" \notin blocked
      => i \in sent

\* An answer with the documented status is counted as the failure of a generated case only
\* over a field that the description, an example or the user names, or over a status that the
\* sanitizer cannot read or does not look at (api_scope.py:571-574): any other status the model
\* guessed is replaced.  If it contradicts what the user's own case asserts of a path, it never
\* counts as a success.
VerdictsAreJust ==
  pc = "judge" /\ Q.source = "case" /\ Q.category = "SMOKE" /\ answer \in {"ok", "wrong"} =>
    /\ conf.generated /\ "failed" \in Verdicts =>
         \/ \E a \in Deciding(Q) : a.names # {}
         \/ \E a \in Q.checks : a.kind = "status" /\ a.blocking /\ ~a.fits /\ ~a.readable
    /\ ~conf.generated /\ answer = "wrong" =>
         \A a \in Q.from[1].asserts :
           a.kind = "path" /\ a.blocking /\ ~a.token => Verdicts = {"failed"}

\* What the stage does to the system under test is bounded: all its calls by the
\* budget, those of one request by the retries.
CallsAreBounded == BudgetHolds /\ SendsBounded

\* The stage's books are right: every candidate is a result or an omission, and
\* no result blames the system under test for what nobody asked of it.
Accounted == EveryCandidateAccounted /\ VerdictsAreJust

\* A chain the stage composed works on its own record and takes it away again.
ChainsCleanUp == NamedRecordIsUsed /\ CleanupIsTried
=============================================================================
