------------------------------ MODULE RunStart ------------------------------
(***************************************************************************)
(* The preflight of a run and its creation (preflight_service.py,          *)
(* create_run of runs.py): both authenticate the payload; the preflight    *)
(* leaves what it proved in the process's cache, and a creation that names *)
(* it starts without another proof.  Meanwhile the document, the target,   *)
(* the tokens and the models change.                                       *)
(*                                                                         *)
(* A request's own calls take no time on the clock, whose unit is a good   *)
(* part of the ten minutes TTL stands for.  MaxEvents bounds the changes   *)
(* of the world, MaxTime the clock, MaxRequests the requests; a target may *)
(* answer any request badly.                                               *)
(***************************************************************************)
EXTENDS AuthPreflight, TLC

CONSTANTS Requests,     \* concurrent API requests
          Payloads,     \* what users ask to run
          Docs,         \* versions of the document behind a link; a pasted one is the first
          Page,         \* the page of a run by URL
          Answered,     \* what a login may answer
          TTL, MaxTime, MaxEvents, MaxRequests

ASSUME PayloadsAssumption == Payloads \subseteq Payload
ASSUME DocsAssumption ==
  /\ 1 \in DOMAIN Docs
  /\ \A d \in DOMAIN Docs :
       /\ Docs[d].endpoints \in Seq(Endpoint)
       /\ \A i \in DOMAIN Docs[d].endpoints :
            /\ Docs[d].endpoints[i].path # None
            /\ Docs[d].endpoints[i].required \subseteq Docs[d].endpoints[i].fields
ASSUME BoundsAssumption == TTL \in Nat /\ {MaxTime, MaxEvents, MaxRequests} \subseteq Nat

VARIABLES world,        \* doc, live tokens, account, planner, vision, up
          clock,
          cache,        \* preflight results of this process by id
          issued,       \* ids given so far
          req,          \* the request in each slot
          runs,         \* runs created
          granted,      \* history: read-only requests that succeeded, with what they carried
          sighted,      \* history: the last time a vision model was configured
          events, opened

vars == << world, clock, cache, issued, req, runs, granted, sighted, events, opened >>

Result(ok, strategy, headers) == [ok |-> ok, strategy |-> strategy, headers |-> headers]

Idle == [pc |-> "idle"]

Init ==
  /\ world = [doc |-> 1, live |-> {"mine"}, account |-> TRUE, planner |-> TRUE, vision |-> TRUE, up |-> TRUE]
  /\ clock = 0 /\ cache = << >> /\ issued = 0
  /\ req = [r \in Requests |-> Idle]
  /\ runs = {} /\ granted = {} /\ sighted = 0
  /\ events = 0 /\ opened = 0

----------------------------------------------------------------------------
(* The world. *)

Changed(w) == world' = w /\ events < MaxEvents /\ events' = events + 1

ChangeWorld ==
  /\ \/ \E d \in DOMAIN Docs \ {world.doc} : Changed([world EXCEPT !.doc = d])
     \/ \E t \in world.live : Changed([world EXCEPT !.live = @ \ {t}])
     \/ Changed([world EXCEPT !.account = ~@])
     \/ Changed([world EXCEPT !.planner = ~@])
     \/ Changed([world EXCEPT !.vision = ~@])
     \/ Changed([world EXCEPT !.up = ~@])
  /\ sighted' = IF world'.vision THEN clock ELSE sighted
  /\ UNCHANGED << clock, cache, issued, req, runs, granted, opened >>

Working(r) == req[r].pc # "idle"

Tick ==
  /\ clock < MaxTime /\ clock' = clock + 1
  /\ \A r \in Requests : ~Working(r)
  /\ sighted' = IF world.vision THEN clock + 1 ELSE sighted
  /\ granted' = {g \in granted : clock + 1 - g.at <= TTL \/ \E x \in runs : x.p = g.p}
  /\ UNCHANGED << world, cache, issued, req, runs, events, opened >>

\* The API process starts anew: its requests and its cache are gone, its clients keep their ids.
Restart ==
  /\ events < MaxEvents /\ events' = events + 1
  /\ cache' = << >> /\ req' = [r \in Requests |-> Idle]
  /\ UNCHANGED << world, clock, issued, runs, granted, sighted, opened >>

----------------------------------------------------------------------------
(* A request begins: what the document says of the run. *)

Document(p, served) ==
  CASE p.src = "pasted" -> Docs[1]
    [] p.src = "link" /\ served -> Docs[world.doc]
    [] OTHER -> [endpoints |-> << >>, base |-> "source", captcha |-> None]

Read(p, served) == p.src = "pasted" \/ (p.src = "link" /\ served)

Target(p, served) ==
  CASE p.src = "url" -> "page"
    [] p.src # "url" /\ p.base # None -> p.base
    [] OTHER -> Document(p, served).base

Protected(endpoints) == Cardinality({i \in DOMAIN endpoints : endpoints[i].auth})

Reusable(entry, p) ==
  /\ clock - entry.at <= TTL
  /\ entry.fingerprint = Fingerprint(p)
  /\ entry.ok

Started(p, entry, target) ==
  [p |-> p, strategy |-> entry.strategy, headers |-> entry.headers, target |-> target,
   at |-> clock, sighted |-> sighted]

\* create_run asks for a planner first; the preflight only reports that there is none.
Profile(r, op, p, id, served) ==
  LET target == Target(p, served)
      q == [pc |-> "load", op |-> op, p |-> p, target |-> target,
            required |-> IF Read(p, served) THEN Protected(Document(p, served).endpoints) ELSE -1]
      known == op = "create" /\ id \in DOMAIN cache
  IN  /\ opened < MaxRequests /\ opened' = opened + 1
      /\ req[r].pc = "idle"
      /\ \/ /\ op = "create" /\ ~world.planner
            /\ req' = [req EXCEPT ![r] = Idle]
            /\ UNCHANGED << cache, runs >>
         \/ /\ op = "create" => world.planner
            /\ known /\ Reusable(cache[id], p)
            /\ req' = [req EXCEPT ![r] = Idle]
            /\ runs' = runs \cup {Started(p, cache[id], target)}
            /\ UNCHANGED cache
         \/ /\ op = "create" => world.planner
            /\ ~(known /\ Reusable(cache[id], p))
            /\ req' = [req EXCEPT ![r] = q]
            /\ cache' = IF known /\ clock - cache[id].at > TTL
                        THEN [i \in DOMAIN cache \ {id} |-> cache[i]] ELSE cache
            /\ UNCHANGED runs
      /\ UNCHANGED << world, clock, issued, granted, sighted, events >>

Preflight(r) == \E p \in Payloads, served \in BOOLEAN : Profile(r, "preflight", p, 0, served)
Create(r) ==
  \E p \in Payloads, served \in BOOLEAN, id \in 0 .. issued : Profile(r, "create", p, id, served)

----------------------------------------------------------------------------
(* Authenticating it. *)

Quiet == UNCHANGED << world, clock, cache, issued, runs, granted, sighted, events, opened >>

\* A decision without proof, or the requests to send.
Decided(q, plan) ==
  IF plan.step = "done"
  THEN [pc |-> "finish", op |-> q.op, p |-> q.p, target |-> q.target,
        result |-> Result(plan.ok, plan.strategy, plan.headers)]
  ELSE [pc |-> "try", op |-> q.op, p |-> q.p, target |-> q.target, strategy |-> plan.strategy,
        headers |-> plan.headers, requests |-> plan.requests]

LogIn(q, endpoints, captcha) ==
  [pc |-> IF q.p.captcha = "dynamic" /\ HasCredentials(q.p) THEN "captcha" ELSE "login",
   op |-> q.op, p |-> q.p, target |-> q.target, endpoints |-> endpoints, captcha |-> captcha, text |-> None]

Load(r) ==
  /\ req[r].pc = "load"
  /\ \E served \in BOOLEAN :
       LET q    == req[r]
           p    == q.p
           d    == Document(p, served)
           mode == AuthMode(p)
       IN  req' = [req EXCEPT ![r] =
             CASE p.type = "ui" -> Decided(q, UiPreflight(p, world.vision))
               [] p.type = "api" /\ NothingDeclared(p, q.required) ->
                    Decided(q, Release("no_auth_declared", NoHeaders))
               [] p.type = "api" /\ mode = "none_confirmed" ->
                    Decided(q, NoAuthPreflight(p, d.endpoints, Page))
               [] p.type = "api" /\ mode = "manual" -> Decided(q, ManualPreflight(p, d.endpoints, Page))
               [] p.type = "api" /\ mode = "auto" /\ ~NothingDeclared(p, q.required)
                    /\ ~HasCredentials(p) /\ ~p.enabled ->
                    Decided(q, Refuse("auto_login", {"username", "password"}))
               [] OTHER -> LogIn(q, d.endpoints, d.captcha)]
  /\ Quiet

\* The captcha endpoint tells the code in clear, or it does not.
FetchCaptcha(r) ==
  /\ req[r].pc = "captcha"
  /\ \E text \in {None, req[r].captcha} :
       req' = [req EXCEPT ![r] = [req[r] EXCEPT !.pc = "login", !.text = IF world.up THEN text ELSE None]]
  /\ Quiet

PlanOf(q) ==
  IF HasCredentials(q.p) THEN LoginPlan(q.p, q.endpoints, q.text, world.up)
  ELSE LoginRequest(LoginConfig(q.p, None), q.endpoints, world.up)

RefuseLogin(r) ==
  /\ req[r].pc = "login"
  /\ LET plan == PlanOf(req[r])
     IN  /\ ~plan.ok
         /\ req' = [req EXCEPT ![r] = Decided(req[r], Refuse("auto_login", plan.missing))]
  /\ Quiet

\* A login without full credentials is tried, and refused whatever it answers.
SendLogin(r) ==
  /\ req[r].pc = "login"
  /\ \E answer \in Answered :
       LET q    == req[r]
           plan == PlanOf(q)
           resolution == Resolution(plan.config, answer)
       IN  /\ plan.ok
           /\ answer.status = "ok" => world.account
           /\ world' = IF resolution.ok THEN [world EXCEPT !.live = @ \cup {"got"}] ELSE world
           /\ req' = [req EXCEPT ![r] =
                Decided(q, IF HasCredentials(q.p) THEN LoggedIn(q.p, q.endpoints, resolution, "got")
                           ELSE Refuse("auto_login", {"username", "password"}))]
  /\ UNCHANGED << clock, cache, issued, runs, granted, sighted, events, opened >>

\* Whether the target lets a request with these headers in; it may fail it all the same.
LetsIn(e, headers) ==
  /\ world.up
  /\ e.guarded => \E h \in Sensitive : headers[h] \in world.live

\* The requests go out one after the other; those that succeed are some of those let in.
Validate(r) ==
  /\ req[r].pc = "try"
  /\ LET q == req[r]
         letIn == {i \in DOMAIN q.requests : LetsIn(q.requests[i], q.headers)}
     IN  \E passed \in SUBSET letIn :
           LET ok == Enough(Cardinality(passed), Len(q.requests))
           IN  /\ req' = [req EXCEPT ![r] =
                     [pc |-> "finish", op |-> q.op, p |-> q.p, target |-> q.target,
                      result |-> Result(ok, q.strategy, q.headers)]]
               /\ granted' = IF ~ok THEN granted ELSE granted \cup
                    {[headers |-> q.headers, target |-> q.target, p |-> q.p, at |-> clock,
                      passed |-> Cardinality(passed), asked |-> Len(q.requests)]}
  /\ UNCHANGED << world, clock, cache, issued, runs, sighted, events, opened >>

\* Both keep the result for later; a creation goes on to its run.
Finish(r) ==
  /\ req[r].pc = "finish"
  /\ LET q     == req[r]
         entry == [fingerprint |-> Fingerprint(q.p), at |-> clock, ok |-> q.result.ok,
                   strategy |-> q.result.strategy, headers |-> q.result.headers]
     IN  /\ issued' = issued + 1
         /\ cache' = [i \in DOMAIN cache \cup {issued + 1} |-> IF i = issued + 1 THEN entry ELSE cache[i]]
         /\ runs' = IF q.op = "create" /\ q.result.ok
                    THEN runs \cup {Started(q.p, entry, q.target)} ELSE runs
         /\ req' = [req EXCEPT ![r] = Idle]
  /\ UNCHANGED << world, clock, granted, sighted, events, opened >>

Next ==
  \/ ChangeWorld \/ Tick \/ Restart
  \/ \E r \in Requests :
       \/ Preflight(r) \/ Create(r) \/ Load(r) \/ FetchCaptcha(r) \/ RefuseLogin(r) \/ SendLogin(r)
       \/ Validate(r) \/ Finish(r)

Spec == Init /\ [][Next]_vars

----------------------------------------------------------------------------
(* Properties. *)

\* What headers carry: what a user gave, or what a login acquired.
Carried == {None, "got"} \cup {p.token : p \in Payloads} \cup {p.env : p \in Payloads}

\* Requests, cache and runs are well formed (cache_auth_preflight, prepare_run_auth).
TypeOK ==
  /\ clock \in 0 .. MaxTime /\ issued \in 0 .. MaxRequests
  /\ DOMAIN cache \subseteq 1 .. issued
  /\ \A i \in DOMAIN cache : cache[i].at <= clock /\ cache[i].headers \in [HeaderNames -> Carried]
  /\ \A r \in Requests : req[r].pc = "try" => Len(req[r].requests) \in 1 .. 3
  /\ \A x \in runs : x.p \in Payloads /\ x.strategy # None

Proofs(x) == {g \in granted : g.headers = x.headers /\ x.at - g.at <= TTL}

\* An API run, started at once or from a preflight, carries headers with which the target let it
\* in within the TTL, by two different requests where there were two, unless the document it was
\* started from declared no protection and the user gave nothing (auth_preflight_service.py:563, 195).
RunsAreProven ==
  \A x \in runs : x.p.type = "api" =>
    IF x.strategy = "no_auth_declared"
    THEN x.headers = NoHeaders /\ x.p.token = None /\ ~HasCredentials(x.p)
    ELSE \E g \in Proofs(x) : g.passed >= IF g.asked >= 2 THEN 2 ELSE 1

\* The proof was the payload's own, and at the run's target unless the user named none and the linked
\* document now says another (runs.py:3786 recomputes the target, the headers are the cached ones).
TargetsAreProven ==
  \A x \in runs : x.p.type = "api" /\ x.strategy # "no_auth_declared" =>
    \E g \in Proofs(x) : g.p = x.p /\ (g.target = x.target \/ (x.p.base = None /\ x.p.src = "link"))

\* A run that logged in carries the acquired credential and nothing of the one the user also gave,
\* also when the login answers with a cookie (auth_preflight_service.py:397).
OneCredential ==
  \A x \in runs : x.p.type = "api" /\ x.strategy = "auto_login" =>
    {x.headers[h] : h \in Sensitive} \ {None} = {"got"}

\* With a dynamic captcha no login that counts goes out with a captcha typed earlier: it carries
\* what the captcha endpoint told this request, or none.  Only a body of the user's own may hold
\* another, once the endpoint answered (:763, api_auth.py:921).  Without full credentials an enabled
\* login is sent as it is, before any captcha is asked for, and refused (:699).
CaptchaIsFetched ==
  \A r \in Requests :
    LET q == req[r]
        plan == PlanOf(q)
    IN  q.pc = "login" /\ q.p.captcha = "dynamic" /\ HasCredentials(q.p) /\ plan.ok =>
          \A f \in CodeNames : \/ plan.body[f] \in {None, q.text}
                              \/ (q.p.body # NoBody /\ q.text # None)

\* The login never is an endpoint for another purpose that lacks a field while the document has a
\* plain one for which everything is there (api_auth.py:278; the user named no endpoint and wrote no
\* body).  Points are counted per field: one that requires three fields more may outweigh it.
PlainLoginWins ==
  \A r \in Requests : req[r].pc = "login" /\ req[r].p.login = None /\ req[r].p.body = NoBody =>
    LET endpoints == req[r].endpoints
        config    == LoginConfig(req[r].p, req[r].text)
        chosen    == LoginEndpoint(endpoints, config)
        plain(e) == /\ ~e.read /\ e.simple /\ e.last = "login" /\ "login" \in e.words
                    /\ e.hits = {} /\ {"username", "password"} \subseteq e.fields
                    /\ Lacking(e, config) = {}
                    /\ Cardinality(chosen.required) <= Cardinality(e.required) + 2
    IN  (\E i \in DOMAIN endpoints : plain(endpoints[i])) =>
          chosen.hits = {} \/ Lacking(chosen, config) = {}

\* Following the advice helps: when a login is refused for credentials, giving them all completes the
\* body of the same endpoint (api_auth.py:907; no body of the user's own, no login named).
GuidanceWorks ==
  \A r \in Requests : req[r].pc = "login" =>
    LET p == req[r].p
        config == LoginConfig(p, req[r].text)
        e == LoginEndpoint(req[r].endpoints, config)
        asked == MissingInputs(MissingFields(LoginBody(config, e), e))
        given == [config EXCEPT !.creds = [k \in Kinds |-> IF k \in asked THEN "new" ELSE @[k]]]
    IN  p.body = NoBody /\ asked \subseteq Kinds => MissingFields(LoginBody(given, e), e) = {}

\* A UI run with a dynamic captcha starts only if a vision model was there no longer than the TTL ago,
\* and one that is to log in has an account (auth_preflight_service.py:416, 458).
UiReady ==
  \A x \in runs : x.p.type = "ui" =>
    /\ x.p.captcha = "dynamic" => x.at - x.sighted <= TTL
    /\ AuthMode(x.p) = "auto" => HasCredentials(x.p)

\* A run is started only with what a preflight proved, for that payload and
\* target, no longer than the TTL ago, whatever changed or restarted since.
RunsStartProven == RunsAreProven /\ TargetsAreProven /\ OneCredential /\ UiReady

\* The automatic login picks the right endpoint, asks for what it lacks and sends
\* no stale captcha.
LoginsAreRight == PlainLoginWins /\ GuidanceWorks /\ CaptchaIsFetched
=============================================================================
