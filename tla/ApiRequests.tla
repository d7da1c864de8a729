---------------------------- MODULE ApiRequests -----------------------------
(***************************************************************************)
(* Which HTTP requests the API stage builds (api_runner.py): from the      *)
(* validated actions of the agent, from the cases, from the endpoints of   *)
(* the API description or from the bare URL, which of them it marks as     *)
(* skipped instead of sending them, and in which order and under which     *)
(* budget they are selected.                                               *)
(*                                                                         *)
(* A path is its resource and whether an id is to be filled in; text that  *)
(* the code searches for markers is the set of its markers.  Bodies,       *)
(* headers and labels are left out, but for the header that authenticates. *)
(***************************************************************************)
EXTENDS ApiCases

CONSTANTS
  Resources,  \* resources of the API under test
  HighRisk,   \* those _crud_resource_risk_score calls high-risk
  NonMutating, \* those whose path names a login, a captcha, an export or a download
  Names,      \* variables the cases extract
  MaxChains   \* CRUD_MAX_SYNTHETIC_RESOURCE_CHAINS

ASSUME ResourceAssumption ==
  /\ HighRisk \subseteq Resources /\ NonMutating \subseteq Resources
  /\ IsFiniteSet(Resources) /\ Resources # {}
  /\ MaxChains \in Nat

Vars == Resources \cup Names
Tools == {"http", "gate", "derive"}
Markers == {"confirm_test_env", "unique_prefix", "cleanup", "require_cleanup"}
Skips == {"no", "read_only", "gate", "crud", "upload", "auth"}
Categories == {"SMOKE", "SKIPPED"} \cup NegativeCategories
Probes == {"AUTH", "SECURITY"}  \* sent without what authenticates, to be rejected

\* What the stage is given: the description of the API, the cases, the plan of the
\* agent, the settings of the run.  benign: the text of an endpoint, case or action
\* names a login, a token, a captcha, an export or a download; of an action that is
\* its reason, or without one what it expects to observe.
Endpoints ==
  [method : Methods, res : Resources, detail : BOOLEAN, auth : BOOLEAN, upload : BOOLEAN,
   list : BOOLEAN, search : BOOLEAN, fields : Nat, schema : {"none", "documented", "required"},
   benign : BOOLEAN]

Cases ==
  [method : Methods, res : Resources, detail : BOOLEAN, needs : SUBSET Vars, gives : SUBSET Vars,
   payload : BOOLEAN, marked : BOOLEAN, constraints : SUBSET Markers, benign : BOOLEAN,
   category : Categories \ {"SKIPPED"}, asserts : SUBSET Assertions, schema : BOOLEAN,
   expects : SUBSET {"success", "rejection"}]

Steps ==
  [tool : Tools \cup {"shell"}, method : Methods, res : Resources, detail : BOOLEAN,
   search : BOOLEAN, constraints : SUBSET Markers, benign : BOOLEAN]

Configurations ==
  [policy : Policies, crud : BOOLEAN, suite : BOOLEAN, coverage : {"none", "all", "focused"},
   schema : Seq(Endpoints), focus : Seq(Endpoints), plan : Seq(Steps), cases : Seq(Cases),
   budget : Nat, retries : Nat, login : BOOLEAN, headers : BOOLEAN, url : BOOLEAN,
   generated : BOOLEAN, free : BOOLEAN]

\* What every builder fills in where it has nothing to say.  from: the action,
\* case or endpoint the request was made of.
Blank == [method |-> "GET", res |-> CHOOSE r \in Resources : TRUE, detail |-> FALSE,
          needs |-> {}, gives |-> {}, skip |-> "no", category |-> "SMOKE",
          authed |-> FALSE, list |-> FALSE, search |-> FALSE, checks |-> {Expected({"success"})}, source |-> "url",
          from |-> << >>]

PolicyMethods(policy) == IF WriteAllowed(policy) THEN Methods ELSE SafeMethods

\* Its documented status, and its schema, which counts against an endpoint only if the
\* user named its fields.
DocumentedChecks(endpoints) ==
  {Expected({"success"})} \cup {SchemaCheck(e.schema = "required") : e \in {d \in endpoints : d.schema # "none"}}

\* An id that no example of the description fills in is a dependency.
PathNeeds(e) == IF e.detail THEN {e.res} ELSE {}

----------------------------------------------------------------------------
(* The gates a write must pass. *)

\* The markers of the constraints an action or case names.
ConfirmMarkers   == {"confirm_test_env", "unique_prefix", "require_cleanup"}
IsolationMarkers == {"unique_prefix", "cleanup", "require_cleanup"}
CleanupMarkers   == {"cleanup", "require_cleanup"}
GuardMarkers     == ConfirmMarkers \cup IsolationMarkers

Has(constraints, markers) == constraints \cap markers # {}

CaseApproved(marked, method, constraints) ==
  /\ marked
  /\ Has(constraints, GuardMarkers)
  /\ method = "DELETE" => Has(constraints, CleanupMarkers)

\* Mutant: only a deletion needs an approval.
OnlyDeletesAsk(method, approved, benign) == method = "DELETE" /\ ~approved

\* What is not approved is sent only if its text says that it mutates nothing.
SafeWriteSkips(method, approved, benign) ==
  Write(method) /\ ~approved /\ (method = "DELETE" \/ ~benign)

GateConfirmed(actions) ==
  \E i \in DOMAIN actions :
    /\ actions[i].tool = "gate"
    /\ actions[i].allowed
    /\ WriteAllowed(actions[i].policy)
    /\ Has(actions[i].constraints, ConfirmMarkers)

ActionApproved(a, confirmed) ==
  /\ Write(a.method)
  /\ a.allowed /\ WriteAllowed(a.policy)
  /\ confirmed \/ Has(a.constraints, ConfirmMarkers)
  /\ a.method = "DELETE" => Has(a.constraints, CleanupMarkers)
  /\ Has(a.constraints, IsolationMarkers)

----------------------------------------------------------------------------
(* The plan of the agent (validate_agent_action_plan). *)

InSchema(step, schema) ==
  \E i \in DOMAIN schema :
    schema[i].method = step.method /\ schema[i].res = step.res /\ schema[i].detail = step.detail

ApiActionAllowed(step, schema, policy) ==
  \/ step.tool = "gate"
  \/ step.tool = "derive" /\ schema # << >>
  \/ /\ step.tool = "http"
     /\ step.method \in PolicyMethods(policy)
     /\ schema # << >> => InSchema(step, schema)

Validated(plan, schema, policy) ==
  [i \in DOMAIN plan |->
     [tool |-> plan[i].tool, method |-> plan[i].method, res |-> plan[i].res,
      detail |-> plan[i].detail, search |-> plan[i].search,
      constraints |-> plan[i].constraints, benign |-> plan[i].benign, policy |-> policy,
      allowed |-> plan[i].tool \in Tools /\ ApiActionAllowed(plan[i], schema, policy)]]

----------------------------------------------------------------------------
(* The chain of requests the stage adds when CRUD was asked for and the    *)
(* model planned no write.                                                 *)

OfResource(schema, r, method) ==
  Picked(schema, {i \in DOMAIN schema : schema[i].res = r /\ schema[i].method = method})

\* The first one with (detail) or without an id in its path, else any.
With(endpoints, detail)   == Picked(endpoints, {i \in DOMAIN endpoints : endpoints[i].detail = detail})
Chosen(endpoints, detail) ==
  IF With(endpoints, detail) # << >> THEN Head(With(endpoints, detail)) ELSE Head(endpoints)

Complete(schema, r) == \A m \in Methods : OfResource(schema, r, m) # << >>

\* A list is searched for the prefix of the record to be created, if the
\* description has a parameter for it.
Step(e, constraints) ==
  [tool |-> "http", method |-> e.method, res |-> e.res, detail |-> e.detail,
   search |-> e.search /\ ~e.detail, constraints |-> constraints, benign |-> FALSE]

GateStep(r) ==
  [tool |-> "gate", method |-> "GET", res |-> r, detail |-> FALSE, search |-> FALSE,
   constraints |-> {"confirm_test_env", "unique_prefix", "require_cleanup"}, benign |-> FALSE]

\* All five or none: create, list, read, change, delete.
Chain(schema, r) ==
  IF With(OfResource(schema, r, "GET"), TRUE) = << >> THEN << >>
  ELSE << GateStep(r),
          Step(Chosen(OfResource(schema, r, "POST"), FALSE), {"confirm_test_env", "unique_prefix"}),
          Step(Chosen(OfResource(schema, r, "GET"), FALSE), {"unique_prefix"}),
          Step(Head(With(OfResource(schema, r, "GET"), TRUE)), {}),
          Step(Chosen(OfResource(schema, r, "PUT"), FALSE), {"confirm_test_env", "unique_prefix"}),
          Step(Chosen(OfResource(schema, r, "DELETE"), TRUE),
               {"confirm_test_env", "unique_prefix", "cleanup", "require_cleanup"}) >>

\* The resources with a chain; the code takes them by their risk score.
Chained(schema) ==
  LET low == SetToSeq(Resources \ HighRisk)
  IN  Picked(low, {i \in DOMAIN low : Complete(schema, low[i]) /\ Chain(schema, low[i]) # << >>})

SyntheticPlan(schema) ==
  LET first == SubSeq(Chained(schema), 1,
                      IF Len(Chained(schema)) < MaxChains THEN Len(Chained(schema)) ELSE MaxChains)
  IN  FlattenSeq([i \in DOMAIN first |-> Chain(schema, first[i])])

PlansWrite(actions) ==
  \E i \in DOMAIN actions :
    actions[i].tool = "http" /\ actions[i].allowed /\ Write(actions[i].method)

Actions(c) ==
  LET own == Validated(c.plan, c.schema, c.policy)
  IN  IF WriteAllowed(c.policy) /\ c.crud /\ ~PlansWrite(own)
        THEN own \o Validated(SyntheticPlan(c.schema), c.schema, c.policy)
        ELSE own

----------------------------------------------------------------------------
(* The builders. *)

ActionRequest(a, c, confirmed) ==
  LET approved == ActionApproved(a, confirmed)
      markers  == a.constraints
      skipped  == SafeWriteSkips(a.method, CaseApproved(approved, a.method, markers),
                                 a.benign \/ a.res \in NonMutating)
  IN  [Blank EXCEPT !.method = a.method, !.res = a.res, !.detail = a.detail, !.search = a.search,
         !.needs = IF skipped THEN {} ELSE PathNeeds(a),
         !.skip = IF skipped THEN "gate" ELSE "no",
         !.category = IF skipped THEN "SKIPPED" ELSE "SMOKE",
         !.authed = c.headers /\ ~skipped,
         !.checks = DocumentedChecks({c.schema[i] : i \in Matching(a, c.schema)}),
         !.source = "action", !.from = <<a>>]

ActionRequests(actions, c) ==
  IF ~WriteAllowed(c.policy) THEN << >>
  ELSE LET http == Picked(actions, {i \in DOMAIN actions : actions[i].tool = "http" /\ actions[i].allowed})
       IN  [i \in DOMAIN http |-> ActionRequest(http[i], c, GateConfirmed(actions))]

\* One request that stands for the chain that could not be made.
CrudBlocked(c) ==
  IF WriteAllowed(c.policy) /\ c.crud
    THEN << [Blank EXCEPT !.method = "POST", !.skip = "crud", !.category = "SKIPPED"] >>
    ELSE << >>

\* Under the read-only policy a write of a case with a payload counts as blocked,
\* one without is only skipped.
CaseSkip(k, c) ==
  IF Write(k.method) /\ ~WriteAllowed(c.policy)
    THEN IF k.payload THEN "gate" ELSE "read_only"
  ELSE IF SafeWriteSkips(k.method, CaseApproved(k.marked, k.method, k.constraints),
                      k.benign \/ k.res \in NonMutating)
    THEN "gate"
  ELSE "no"

CaseChecks(k) ==
  k.asserts \cup (IF k.schema THEN {SchemaCheck(TRUE)} ELSE {})
    \cup (IF \E a \in k.asserts : a.kind = "status" THEN {} ELSE {Expected(k.expects)})

CaseRequest(k, c) ==
  LET skip == CaseSkip(k, c)
  IN  [Blank EXCEPT !.method = k.method, !.res = k.res, !.detail = k.detail,
         !.needs = IF skip = "no" THEN k.needs \cup PathNeeds(k) ELSE {},
         !.gives = IF skip = "no" THEN k.gives ELSE {},
         !.skip = skip,
         !.category = IF skip = "no" THEN k.category ELSE "SKIPPED",
         !.authed = c.headers /\ skip = "no" /\ k.category \notin Probes,
         !.checks = CaseChecks(k),
         !.source = "case", !.from = <<k>>]

CaseRequests(c) == [i \in DOMAIN RunCases(c) |-> CaseRequest(RunCases(c)[i], c)]

SchemaRequest(e, category, skip, authed) ==
  [Blank EXCEPT !.method = e.method, !.res = e.res, !.detail = e.detail,
     !.needs = IF category = "AUTH" \/ skip = "auth" THEN {} ELSE PathNeeds(e),
     !.skip = skip, !.category = category, !.authed = authed, !.list = e.list,
     !.checks = IF category = "SMOKE" THEN DocumentedChecks({e}) ELSE {},
     !.source = "schema", !.from = <<e>>]

SchemaSkip(e, policy) ==
  IF Write(e.method) /\ ~WriteAllowed(policy) THEN "read_only"
  ELSE IF SafeWriteSkips(e.method, FALSE, e.benign \/ e.res \in NonMutating) THEN "gate"
  ELSE IF e.upload THEN "upload"
  ELSE "no"

\* An endpoint that wants authentication is only probed without it when there is
\* none to send.
ProbesOf(e) ==
  (IF Write(e.method) THEN << >> ELSE << SchemaRequest(e, "AUTH", "no", FALSE) >>)
    \o << SchemaRequest(e, "SKIPPED", "auth", FALSE) >>

\* The positive request, then those that leave a field out, send nothing, send
\* no authentication, or send the wrong types.
TestsOf(e, headers) ==
  LET negative == SchemaRequest(e, "PARAM_VALIDATION", "no", headers)
      fields   == IF e.method \in {"POST", "PUT"} THEN e.fields ELSE 0
      broken   == IF e.method \in {"POST", "PUT"} THEN << negative >> ELSE << >>
  IN  << SchemaRequest(e, "SMOKE", "no", headers) >>
        \o [i \in 1 .. fields |-> negative]
        \o broken
        \o (IF e.auth THEN << SchemaRequest(e, "AUTH", "no", FALSE) >> ELSE << >>)
        \o (IF fields > 0 THEN broken ELSE << >>)

RequestsOfEndpoint(e, c) ==
  LET skip == SchemaSkip(e, c.policy)
  IN  IF skip # "no" THEN << SchemaRequest(e, "SKIPPED", skip, FALSE) >>
      ELSE IF e.auth /\ ~c.headers THEN ProbesOf(e)
      ELSE TestsOf(e, c.headers)

SchemaRequests(schema, c) ==
  FlattenSeq([i \in DOMAIN schema |-> RequestsOfEndpoint(schema[i], c)])

\* The writes of the description no request mentions, as skipped ones.
WithWriteSkips(requests, c) ==
  LET missing == Picked(c.schema, {j \in DOMAIN c.schema :
                   /\ Write(c.schema[j].method)
                   /\ \A i \in DOMAIN requests :
                        <<requests[i].method, requests[i].res, requests[i].detail>>
                          # <<c.schema[j].method, c.schema[j].res, c.schema[j].detail>>})
  IN  requests \o [i \in DOMAIN missing |-> SchemaRequest(missing[i], "SKIPPED", "read_only", FALSE)]

UrlRequest(c) == IF c.url THEN << [Blank EXCEPT !.authed = c.headers] >> ELSE << >>

Executable(requests) == \E i \in DOMAIN requests : requests[i].skip = "no"

SafeEndpoints(schema) == Picked(schema, {i \in DOMAIN schema : schema[i].method \in SafeMethods})
First(seq, n) == SubSeq(seq, 1, IF n = 0 \/ Len(seq) < n THEN Len(seq) ELSE n)

----------------------------------------------------------------------------
(* run: which of them are the candidates.  A budget of 0 is none. *)

FromCases(c) ==
  LET own  == IF c.schema # << >> /\ ~WriteAllowed(c.policy)
                THEN WithWriteSkips(CaseRequests(c), c) ELSE CaseRequests(c)
      safe == SchemaRequests(First(SafeEndpoints(c.schema), c.budget), c)
  IN  IF own # << >> /\ (WriteAllowed(c.policy) \/ Executable(own)) THEN own
      ELSE IF c.schema = << >> THEN own
      ELSE IF WriteAllowed(c.policy) THEN SchemaRequests(c.schema, c)
      ELSE IF Executable(safe) THEN safe ELSE own

Built(c) ==
  LET actions == ActionRequests(Actions(c), c)
      blocked == CrudBlocked(c)
  IN  IF c.suite /\ RunCases(c) # << >> THEN CaseRequests(c)
      ELSE IF actions # << >> THEN actions
      ELSE IF blocked # << >> THEN blocked
      ELSE IF c.coverage = "all" THEN SchemaRequests(c.schema, c)
      ELSE IF c.coverage = "focused" THEN SchemaRequests(c.focus, c)
      ELSE IF RunCases(c) # << >> THEN FromCases(c)
      ELSE IF c.schema # << >> THEN SchemaRequests(c.schema, c)
      ELSE UrlRequest(c)

Candidates(c) == IF Built(c) # << >> THEN Built(c) ELSE UrlRequest(c)

FromActions(requests) ==
  requests # << >> /\ (Head(requests).source = "action" \/ Head(requests).skip = "crud")

\* Lists and requests that extract first, then reads, writes, those with a
\* dependency, and the skipped ones.
Priority(q) ==
  IF q.skip # "no" THEN 4
  ELSE IF q.needs # {} THEN 3
  ELSE IF q.gives # {} \/ q.list THEN 0
  ELSE IF q.method \in SafeMethods THEN 1
  ELSE 2

Ordered(requests) ==
  FlattenSeq([p \in 1 .. 5 |-> Picked(requests, {i \in DOMAIN requests : Priority(requests[i]) = p - 1})])

Selected(requests, budget) ==
  LET sent    == Picked(requests, {i \in DOMAIN requests : requests[i].skip = "no"})
      skipped == Picked(requests, {i \in DOMAIN requests : requests[i].skip # "no"})
  IN  IF budget = 0 \/ Len(requests) <= budget THEN requests
      ELSE First(First(sent, budget) \o skipped, budget)

Queue(c) ==
  LET all == Candidates(c)
  IN  Selected(IF FromActions(all) THEN all ELSE Ordered(all), c.budget)
=============================================================================
