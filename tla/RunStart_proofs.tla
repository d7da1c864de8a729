-------------------------- MODULE RunStart_proofs --------------------------
(***************************************************************************)
(* A run is started only with what a preflight proved, and a login that is *)
(* tried on the way is the right one: RunsStartProven, LoginsAreRight and  *)
(* TypeOK for every set of requests and payloads, all documents, answers   *)
(* and TTLs.                                                               *)
(*                                                                         *)
(* The invariant follows a proof from the request that made it through the *)
(* cache to the run.  While a request is in progress the clock stands      *)
(* still, so what it proved is as old as the clock; a cached result is     *)
(* backed for as long as it may be reused; a run keeps its proof.          *)
(* The choice of the login is one of points: the second part bounds them.  *)
(* The third is about types: it counts the requests that are open.         *)
(***************************************************************************)
EXTENDS RunStart, FiniteSetTheorems, WellFoundedInduction, TLAPS

\* The one credential of a run that logged in.
Single(headers) == {headers[h] : h \in Sensitive} \ {None} = {"got"}

\* Where the run of a payload goes, unless a linked document says so.
Home(p) == IF p.src = "url" THEN "page" ELSE IF p.base # None THEN p.base ELSE Docs[1].base
Aimed(p, target) == (p.base = None /\ p.src = "link") \/ target = Home(p)

\* g is a proof of the headers for the payload p.
Proves(g, p, headers) ==
  /\ g.p = p /\ g.headers = headers /\ Aimed(p, g.target)
  /\ g.passed >= IF g.asked >= 2 THEN 2 ELSE 1

\* What a positive result found at a time says of the payload; grants and seen
\* stand for granted and sighted.
Backed(grants, seen, p, strategy, headers, at) ==
  /\ p.type = "api" =>
       IF strategy = "no_auth_declared"
       THEN headers = NoHeaders /\ p.token = None /\ ~HasCredentials(p)
       ELSE \E g \in grants : Proves(g, p, headers) /\ g.at = at
  /\ p.type = "api" /\ strategy = "auto_login" => Single(headers)
  /\ p.type = "ui" =>
       /\ p.captcha = "dynamic" => at <= seen
       /\ AuthMode(p) = "auto" => HasCredentials(p)

GoodRequest(q, grants, seen, now) ==
  /\ q.pc \in {"idle", "load", "captcha", "login", "try", "finish"}
  /\ q.pc # "idle" => q.p \in Payloads /\ Aimed(q.p, q.target)
  /\ q.pc = "captcha" => "pc" \in DOMAIN q
  /\ q.pc \in {"captcha", "login"} => q.p.type = "api" /\ AuthMode(q.p) = "auto"
  /\ q.pc = "try" =>
       /\ q.p.type = "api" /\ q.strategy # "no_auth_declared"
       /\ q.strategy = "auto_login" => Single(q.headers)
  /\ q.pc = "finish" /\ q.result.ok =>
       Backed(grants, seen, q.p, q.result.strategy, q.result.headers, now)

GoodEntry(e, grants, seen, now) ==
  /\ e.at \in Nat /\ e.at <= now
  /\ e.ok /\ now - e.at <= TTL =>
       e.fingerprint \in Payloads /\ Backed(grants, seen, e.fingerprint, e.strategy, e.headers, e.at)

GoodRun(x, grants) ==
  /\ x.p \in Payloads /\ Aimed(x.p, x.target)
  /\ x.p.type = "api" =>
       IF x.strategy = "no_auth_declared"
       THEN x.headers = NoHeaders /\ x.p.token = None /\ ~HasCredentials(x.p)
       ELSE \E g \in grants : Proves(g, x.p, x.headers) /\ x.at - g.at <= TTL
  /\ x.p.type = "api" /\ x.strategy = "auto_login" => Single(x.headers)
  /\ x.p.type = "ui" =>
       /\ x.p.captcha = "dynamic" => x.at - x.sighted <= TTL
       /\ AuthMode(x.p) = "auto" => HasCredentials(x.p)

\* A vision model that is configured was seen just now.
ClockInv ==
  /\ clock \in Nat /\ sighted \in Nat /\ sighted <= clock
  /\ "vision" \in DOMAIN world
  /\ world.vision => sighted = clock

IInv ==
  /\ ClockInv
  /\ DOMAIN req = Requests
  /\ \A r \in Requests : GoodRequest(req[r], granted, sighted, clock)
  /\ \A i \in DOMAIN cache : GoodEntry(cache[i], granted, sighted, clock)
  /\ \A x \in runs : GoodRun(x, granted)

-----------------------------------------------------------------------------
(* What is used of a payload.                                              *)
LEMMA PayloadIs ==
  ASSUME NEW p \in Payloads
  PROVE  /\ p.type \in {"api", "ui"} /\ p.src \in {"url", "link", "pasted"}
         /\ p.mode \in Modes /\ p.header \in Sensitive
         /\ AuthMode(p) \in Modes
<1>1. p \in Payload
  BY PayloadsAssumption
<1> QED
  BY <1>1 DEF Payload, AuthMode, Modes

(* Whatever the document, only that of a link moves the target.            *)
LEMMA TargetIsAimed ==
  ASSUME NEW p \in Payloads, NEW served \in BOOLEAN
  PROVE  Aimed(p, Target(p, served))
<1>1. p.src \in {"url", "link", "pasted"}
  BY PayloadIs
<1>2. CASE p.src = "url"
  BY <1>2 DEF Aimed, Target, Home
<1>3. CASE p.src # "url" /\ p.base # None
  BY <1>3 DEF Aimed, Target, Home
<1>4. CASE p.src = "link" /\ p.base = None
  BY <1>4 DEF Aimed
<1>5. CASE p.src = "pasted" /\ p.base = None
  <2>1. Document(p, served) = Docs[1]
    BY <1>5 DEF Document
  <2>2. Target(p, served) = Docs[1].base
    BY <1>5, <2>1 DEF Target
  <2> QED
    BY <1>5, <2>2 DEF Aimed, Home
<1> QED
  BY <1>1, <1>2, <1>3, <1>4, <1>5

(* What was proved stays proved as long as its proof is kept.              *)
LEMMA BackedStays ==
  ASSUME NEW grants, NEW more, NEW seen \in Nat, NEW later \in Nat, NEW at \in Nat,
         NEW p, NEW strategy, NEW headers,
         seen <= later,
         \A g \in grants : g.at = at => g \in more,
         Backed(grants, seen, p, strategy, headers, at)
  PROVE  Backed(more, later, p, strategy, headers, at)
<1>1. p.captcha = "dynamic" /\ at <= seen => at <= later
  OBVIOUS
<1>2. \A g \in grants : Proves(g, p, headers) /\ g.at = at => g \in more
  OBVIOUS
<1> QED
  BY <1>1, <1>2 DEF Backed

LEMMA RequestStays ==
  ASSUME NEW grants, NEW more, NEW seen \in Nat, NEW later \in Nat, NEW now \in Nat, NEW q,
         seen <= later, grants \subseteq more,
         GoodRequest(q, grants, seen, now)
  PROVE  GoodRequest(q, more, later, now)
<1>1. ASSUME q.pc = "finish", q.result.ok
      PROVE  Backed(more, later, q.p, q.result.strategy, q.result.headers, now)
  <2>1. Backed(grants, seen, q.p, q.result.strategy, q.result.headers, now)
    BY <1>1 DEF GoodRequest
  <2> QED
    BY <2>1, BackedStays
<1> QED
  BY <1>1 DEF GoodRequest

LEMMA EntryStays ==
  ASSUME NEW grants, NEW more, NEW seen \in Nat, NEW later \in Nat, NEW now \in Nat, NEW e,
         seen <= later, grants \subseteq more,
         GoodEntry(e, grants, seen, now)
  PROVE  GoodEntry(e, more, later, now)
<1>1. e.at \in Nat /\ e.at <= now
  BY DEF GoodEntry
<1>2. ASSUME e.ok, now - e.at <= TTL
      PROVE  Backed(more, later, e.fingerprint, e.strategy, e.headers, e.at)
  <2>1. Backed(grants, seen, e.fingerprint, e.strategy, e.headers, e.at)
    BY <1>2 DEF GoodEntry
  <2> QED
    BY <1>1, <2>1, BackedStays
<1> QED
  BY <1>2 DEF GoodEntry

LEMMA RunStays ==
  ASSUME NEW grants, NEW more, NEW x,
         \A g \in grants : g.p = x.p => g \in more,
         GoodRun(x, grants)
  PROVE  GoodRun(x, more)
  BY DEF GoodRun, Proves

(* A run that is started at once has what its entry has.                   *)
LEMMA StartedIsGood ==
  ASSUME ClockInv, NEW p \in Payloads, NEW e, NEW target, NEW grants,
         Aimed(p, target), e.at \in Nat, e.at <= clock, clock - e.at <= TTL,
         Backed(grants, sighted, p, e.strategy, e.headers, e.at)
  PROVE  GoodRun(Started(p, e, target), grants)
<1> DEFINE x == Started(p, e, target)
<1>1. /\ x.p = p /\ x.strategy = e.strategy /\ x.headers = e.headers /\ x.target = target
      /\ x.at = clock /\ x.sighted = sighted
  BY DEF Started
<1> HIDE DEF x
<1>2. p.type = "ui" /\ p.captcha = "dynamic" => clock - sighted <= TTL
  <2>1. p.type = "ui" /\ p.captcha = "dynamic" => e.at <= sighted
    BY DEF Backed
  <2> QED
    BY <2>1, BoundsAssumption DEF ClockInv
<1>3. GoodRun(x, grants)
  BY <1>1, <1>2 DEF GoodRun, Backed
<1> QED
  BY <1>3 DEF x


-----------------------------------------------------------------------------
(* The decisions of AuthPreflight.                                         *)

\* What a decision about p must be for the request to go on well.
Sound(plan, p, grants, seen, now) ==
  \/ plan.step = "done" /\ (plan.ok => Backed(grants, seen, p, plan.strategy, plan.headers, now))
  \/ /\ plan.step = "prove"
     /\ p.type = "api" /\ plan.strategy # "no_auth_declared"
     /\ plan.strategy = "auto_login" => Single(plan.headers)

LEMMA DecidedIsGood ==
  ASSUME NEW grants, NEW seen, NEW now, NEW q, NEW plan,
         q.p \in Payloads, Aimed(q.p, q.target),
         Sound(plan, q.p, grants, seen, now)
  PROVE  GoodRequest(Decided(q, plan), grants, seen, now)
<1> DEFINE n == Decided(q, plan)
<1>1. CASE plan.step = "done"
  <2>1. /\ n.pc = "finish" /\ n.p = q.p /\ n.target = q.target /\ n.result.ok = plan.ok
        /\ n.result.strategy = plan.strategy /\ n.result.headers = plan.headers
    BY <1>1 DEF Decided, Result
  <2> HIDE DEF n
  <2>2. plan.ok => Backed(grants, seen, q.p, plan.strategy, plan.headers, now)
    BY <1>1 DEF Sound
  <2>3. GoodRequest(n, grants, seen, now)
    BY <2>1, <2>2 DEF GoodRequest
  <2> QED
    BY <2>3 DEF n
<1>2. CASE plan.step # "done"
  <2>1. /\ n.pc = "try" /\ n.p = q.p /\ n.target = q.target
        /\ n.strategy = plan.strategy /\ n.headers = plan.headers
    BY <1>2 DEF Decided
  <2> HIDE DEF n
  <2>2. GoodRequest(n, grants, seen, now)
    BY <1>2, <2>1 DEF GoodRequest, Sound
  <2> QED
    BY <2>2 DEF n
<1> QED
  BY <1>1, <1>2

LEMMA RefusalIsSound ==
  ASSUME NEW grants, NEW seen, NEW now, NEW p, NEW strategy, NEW missing
  PROVE  Sound(Refuse(strategy, missing), p, grants, seen, now)
  BY DEF Sound, Refuse

LEMMA ProofIsSound ==
  ASSUME NEW grants, NEW seen, NEW now, NEW p, NEW strategy, NEW headers, NEW requests,
         p.type = "api", strategy # "no_auth_declared",
         strategy = "auto_login" => Single(headers)
  PROVE  Sound(Prove(strategy, headers, requests), p, grants, seen, now)
  BY DEF Sound, Prove

(* A browser run needs the vision model of now for a changing captcha.     *)
LEMMA UiIsSound ==
  ASSUME NEW grants, NEW seen \in Nat, NEW now \in Nat, NEW p \in Payloads, NEW vision,
         p.type = "ui", vision => seen = now
  PROVE  Sound(UiPreflight(p, vision), p, grants, seen, now)
<1>1. CASE p.captcha = "dynamic" /\ ~vision
  <2>1. UiPreflight(p, vision) = Refuse("ui", {"vision_model"})
    BY <1>1 DEF UiPreflight
  <2> QED
    BY <2>1, RefusalIsSound
<1>2. CASE /\ p.captcha = "dynamic" => vision
           /\ AuthMode(p) = "manual" /\ ~HasAuth(GivenHeaders(p))
  <2>1. UiPreflight(p, vision) = Refuse("ui", {"token_or_header"})
    BY <1>2 DEF UiPreflight
  <2> QED
    BY <2>1, RefusalIsSound
<1>3. CASE /\ p.captcha = "dynamic" => vision
           /\ AuthMode(p) = "auto" /\ ~HasCredentials(p)
  <2>1. UiPreflight(p, vision) = Refuse("ui", {"username", "password"})
    BY <1>3 DEF UiPreflight
  <2> QED
    BY <2>1, RefusalIsSound
<1>4. CASE /\ p.captcha = "dynamic" => vision
           /\ ~(AuthMode(p) = "manual" /\ ~HasAuth(GivenHeaders(p)))
           /\ ~(AuthMode(p) = "auto" /\ ~HasCredentials(p))
  <2>1. UiPreflight(p, vision) = Release("ui", GivenHeaders(p))
    BY <1>4 DEF UiPreflight
  <2>2. p.captcha = "dynamic" => now <= seen
    BY <1>4
  <2>3. Backed(grants, seen, p, "ui", GivenHeaders(p), now)
    BY <1>4, <2>2 DEF Backed
  <2> QED
    BY <2>1, <2>3 DEF Sound, Release
<1> QED
  BY <1>1, <1>2, <1>3, <1>4

(* Nothing is declared and nothing was given.                              *)
LEMMA UndeclaredIsSound ==
  ASSUME NEW grants, NEW seen, NEW now, NEW p \in Payloads, NEW required,
         p.type = "api", NothingDeclared(p, required)
  PROVE  Sound(Release("no_auth_declared", NoHeaders), p, grants, seen, now)
<1>1. ~HasCredentials(p) /\ ~HasAuth(GivenHeaders(p))
  BY DEF NothingDeclared
<1>2. GivenHeaders(p)["Authorization"] = p.token
  BY <1>1 DEF GivenHeaders, NoHeaders, HeaderNames
<1>3. p.token = None
  BY <1>1, <1>2 DEF HasAuth, Sensitive
<1>4. Backed(grants, seen, p, "no_auth_declared", NoHeaders, now)
  BY <1>1, <1>3 DEF Backed
<1> QED
  BY <1>4 DEF Sound, Release

LEMMA NoAuthIsSound ==
  ASSUME NEW grants, NEW seen, NEW now, NEW p, NEW endpoints, p.type = "api"
  PROVE  Sound(NoAuthPreflight(p, endpoints, Page), p, grants, seen, now)
<1> DEFINE requests == FirstOf(Candidates(endpoints, TRUE),
                               FirstOf(Candidates(endpoints, FALSE), Direct(p, Page)))
<1>1. \/ NoAuthPreflight(p, endpoints, Page) = Refuse("none_confirmed", {"read_only_endpoint"})
      \/ NoAuthPreflight(p, endpoints, Page) = Prove("none_confirmed", NoHeaders, requests)
  BY DEF NoAuthPreflight
<1> HIDE DEF requests
<1> QED
  BY <1>1, RefusalIsSound, ProofIsSound

LEMMA ManualIsSound ==
  ASSUME NEW grants, NEW seen, NEW now, NEW p, NEW endpoints, p.type = "api"
  PROVE  Sound(ManualPreflight(p, endpoints, Page), p, grants, seen, now)
<1> DEFINE requests == FirstOf(Candidates(endpoints, TRUE), Direct(p, Page))
<1>1. \/ ManualPreflight(p, endpoints, Page) = Refuse("manual_header", {"token_or_header"})
      \/ ManualPreflight(p, endpoints, Page) = Refuse("manual_header", {"protected_read_only_endpoint"})
      \/ ManualPreflight(p, endpoints, Page) = Prove("manual_header", GivenHeaders(p), requests)
  BY DEF ManualPreflight
<1> HIDE DEF requests
<1> QED
  BY <1>1, RefusalIsSound, ProofIsSound

(* A login replaces what the user gave: the one credential is its own.     *)
LEMMA LoginIsSound ==
  ASSUME NEW grants, NEW seen, NEW now, NEW p \in Payloads, NEW endpoints, NEW text, NEW answer,
         p.type = "api", AuthMode(p) = "auto", HasCredentials(p)
  PROVE  Sound(LoggedIn(p, endpoints, Resolution(LoginConfig(p, text), answer), "got"),
               p, grants, seen, now)
<1> DEFINE resolution == Resolution(LoginConfig(p, text), answer)
           headers    == [GivenHeaders(p) EXCEPT ![resolution.header] = "got"]
<1>1. LoginConfig(p, text).header = p.header
  BY DEF LoginConfig
<1>2. p.header \in Sensitive
  BY PayloadIs
<1>3. resolution.ok => resolution.header \in Sensitive
  BY <1>1, <1>2 DEF Resolution, Failed, Sensitive
<1>4. \/ LoggedIn(p, endpoints, resolution, "got") = Refuse("auto_login", {"login_body"})
      \/ LoggedIn(p, endpoints, resolution, "got") = Refuse("auto_login", {"protected_read_only_endpoint"})
      \/ /\ resolution.ok
         /\ LoggedIn(p, endpoints, resolution, "got")
              = Prove("auto_login", headers, Candidates(endpoints, TRUE))
  BY DEF LoggedIn
<1> HIDE DEF resolution
<1>5. ASSUME resolution.header \in Sensitive PROVE Single(headers)
  <2>1. DOMAIN GivenHeaders(p) = HeaderNames /\ \A h \in Sensitive : GivenHeaders(p)[h] = None
    BY DEF GivenHeaders, WithoutAuth, HeaderNames, Sensitive
  <2>2. \A h \in Sensitive : headers[h] = IF h = resolution.header THEN "got" ELSE None
    BY <2>1 DEF HeaderNames, Sensitive
  <2>3. "got" # None
    BY DEF None
  <2> HIDE DEF headers
  <2> QED
    BY <1>5, <2>2, <2>3 DEF Single
<1>6. Sound(LoggedIn(p, endpoints, resolution, "got"), p, grants, seen, now)
  BY <1>3, <1>4, <1>5, RefusalIsSound, ProofIsSound
<1> QED
  BY <1>6 DEF resolution

-----------------------------------------------------------------------------
(* The steps.                                                              *)
LEMMA InitHolds ==
  ASSUME Init
  PROVE  IInv
<1>1. ClockInv
  BY DEF Init, ClockInv
<1>2. DOMAIN req = Requests /\ \A r \in Requests : req[r].pc = "idle"
  BY DEF Init, Idle
<1>3. \A r \in Requests : GoodRequest(req[r], granted, sighted, clock)
  BY <1>2 DEF GoodRequest
<1>4. DOMAIN cache = {} /\ runs = {}
  BY DEF Init
<1> QED
  BY <1>1, <1>2, <1>3, <1>4 DEF IInv

(* The changes of the world keep what was granted and the clock.           *)
LEMMA WorldStep ==
  ASSUME IInv, ChangeWorld
  PROVE  IInv'
<1>1. "vision" \in DOMAIN world'
  BY DEF IInv, ClockInv, ChangeWorld, Changed
<1>2. /\ clock' = clock /\ cache' = cache /\ req' = req /\ runs' = runs /\ granted' = granted
      /\ sighted' = IF world'.vision THEN clock ELSE sighted
  BY DEF ChangeWorld
<1>3. /\ clock \in Nat /\ sighted \in Nat /\ sighted <= clock
      /\ sighted' \in Nat /\ sighted <= sighted' /\ sighted' <= clock
  BY <1>2 DEF IInv, ClockInv
<1>4. ClockInv'
  BY <1>1, <1>2, <1>3 DEF ClockInv
<1>5. \A r \in Requests : GoodRequest(req[r], granted, sighted', clock)
  BY <1>3, RequestStays DEF IInv
<1>6. \A i \in DOMAIN cache : GoodEntry(cache[i], granted, sighted', clock)
  BY <1>3, EntryStays DEF IInv
<1>7. DOMAIN req = Requests /\ \A x \in runs : GoodRun(x, granted)
  BY DEF IInv
<1> QED
  BY <1>2, <1>4, <1>5, <1>6, <1>7 DEF IInv

(* The clock moves while no request is open; the proofs that are forgotten *)
(* are older than the TTL and of no run.                                   *)
LEMMA TickStep ==
  ASSUME IInv, Tick
  PROVE  IInv'
<1>1. /\ clock' = clock + 1 /\ world' = world /\ cache' = cache /\ req' = req /\ runs' = runs
      /\ sighted' = IF world.vision THEN clock + 1 ELSE sighted
      /\ granted' = {g \in granted : clock + 1 - g.at <= TTL \/ \E x \in runs : x.p = g.p}
  BY DEF Tick
<1>2. /\ clock \in Nat /\ sighted \in Nat /\ sighted <= clock
      /\ sighted' \in Nat /\ sighted <= sighted' /\ sighted' <= clock + 1
  BY <1>1 DEF IInv, ClockInv
<1>3. ClockInv'
  BY <1>1, <1>2 DEF IInv, ClockInv
<1>4. \A r \in Requests : GoodRequest(req[r], granted', sighted', clock')
  <2>1. \A r \in Requests : req[r].pc = "idle"
    BY DEF Tick, Working
  <2> QED
    BY <2>1 DEF GoodRequest
<1>5. ASSUME NEW i \in DOMAIN cache
      PROVE  GoodEntry(cache[i], granted', sighted', clock')
  <2> DEFINE e == cache[i]
  <2>1. GoodEntry(e, granted, sighted, clock)
    BY DEF IInv
  <2> HIDE DEF e
  <2>2. e.at \in Nat /\ e.at <= clock
    BY <2>1 DEF GoodEntry
  <2>3. ASSUME e.ok, clock + 1 - e.at <= TTL
        PROVE  /\ e.fingerprint \in Payloads
               /\ Backed(granted', sighted', e.fingerprint, e.strategy, e.headers, e.at)
    <3>1. clock - e.at <= TTL
      BY <1>2, <2>2, <2>3, BoundsAssumption
    <3>2. /\ e.fingerprint \in Payloads
          /\ Backed(granted, sighted, e.fingerprint, e.strategy, e.headers, e.at)
      BY <2>1, <2>3, <3>1 DEF GoodEntry
    <3>3. \A g \in granted : g.at = e.at => g \in granted'
      BY <1>1, <2>3
    <3> QED
      BY <1>2, <2>2, <3>2, <3>3, BackedStays
  <2>4. GoodEntry(e, granted', sighted', clock')
    BY <1>1, <1>2, <2>2, <2>3 DEF GoodEntry
  <2> QED
    BY <2>4 DEF e
<1>6. ASSUME NEW x \in runs
      PROVE  GoodRun(x, granted')
  <2>1. \A g \in granted : g.p = x.p => g \in granted'
    BY <1>1
  <2> QED
    BY <2>1, RunStays DEF IInv
<1>7. DOMAIN req = Requests
  BY DEF IInv
<1> QED
  BY <1>1, <1>3, <1>4, <1>5, <1>6, <1>7 DEF IInv

(* A process that starts anew has nothing to be wrong about.               *)
LEMMA RestartStep ==
  ASSUME IInv, Restart
  PROVE  IInv'
<1>1. /\ cache' = << >> /\ req' = [r \in Requests |-> Idle] /\ world' = world /\ clock' = clock
      /\ runs' = runs /\ granted' = granted /\ sighted' = sighted
  BY DEF Restart
<1>2. \A r \in Requests : GoodRequest(req'[r], granted', sighted', clock')
  BY <1>1 DEF GoodRequest, Idle
<1>3. DOMAIN req' = Requests /\ DOMAIN cache' = {}
  BY <1>1
<1>4. ClockInv'
  BY <1>1 DEF IInv, ClockInv
<1> QED
  BY <1>1, <1>2, <1>3, <1>4 DEF IInv

(* A step of one request that leaves the clock, what was granted only      *)
(* growing, the cache and the runs as good as they were.                   *)
LEMMA RequestStep ==
  ASSUME IInv, NEW r \in Requests, NEW q,
         req' = [req EXCEPT ![r] = q],
         GoodRequest(q, granted', sighted, clock),
         clock' = clock, sighted' = sighted, granted \subseteq granted',
         "vision" \in DOMAIN world', world'.vision = world.vision,
         \A i \in DOMAIN cache' : GoodEntry(cache'[i], granted', sighted, clock),
         \A x \in runs' : GoodRun(x, granted')
  PROVE  IInv'
<1>1. clock \in Nat /\ sighted \in Nat /\ DOMAIN req = Requests
  BY DEF IInv, ClockInv
<1>2. ClockInv'
  BY DEF IInv, ClockInv
<1>3. \A x \in Requests : req'[x] = IF x = r THEN q ELSE req[x]
  BY <1>1
<1>4. \A x \in Requests : GoodRequest(req[x], granted', sighted, clock)
  BY <1>1, RequestStays DEF IInv
<1>5. \A x \in Requests : GoodRequest(req'[x], granted', sighted', clock')
  BY <1>3, <1>4
<1>6. DOMAIN req' = Requests
  BY <1>1
<1> QED
  BY <1>2, <1>5, <1>6 DEF IInv

(* The step of a request that touches only itself, or the tokens.          *)
LEMMA QuietStep ==
  ASSUME IInv, NEW r \in Requests, NEW q,
         req' = [req EXCEPT ![r] = q],
         GoodRequest(q, granted, sighted, clock),
         UNCHANGED << clock, cache, runs, granted, sighted >>,
         "vision" \in DOMAIN world', world'.vision = world.vision
  PROVE  IInv'
<1>1. \A i \in DOMAIN cache' : GoodEntry(cache'[i], granted', sighted, clock)
  BY DEF IInv
<1>2. \A x \in runs' : GoodRun(x, granted')
  BY DEF IInv
<1> QED
  BY <1>1, <1>2, RequestStep

(* A request begins, or a creation takes a result that may be reused.      *)
LEMMA ProfileStep ==
  ASSUME IInv, NEW r \in Requests, NEW op, NEW p \in Payloads, NEW id, NEW served \in BOOLEAN,
         Profile(r, op, p, id, served)
  PROVE  IInv'
<1> DEFINE target == Target(p, served)
<1>1. Aimed(p, target)
  BY TargetIsAimed
<1>2. /\ world' = world /\ clock' = clock /\ granted' = granted /\ sighted' = sighted
  BY DEF Profile
<1>3. "vision" \in DOMAIN world' /\ world'.vision = world.vision
  BY <1>2 DEF IInv, ClockInv
<1>4. GoodRequest(Idle, granted, sighted, clock)
  BY DEF GoodRequest, Idle
<1>5. CASE req' = [req EXCEPT ![r] = Idle] /\ UNCHANGED << cache, runs >>
  BY <1>2, <1>3, <1>4, <1>5, QuietStep
<1>6. CASE /\ id \in DOMAIN cache /\ Reusable(cache[id], p)
           /\ req' = [req EXCEPT ![r] = Idle]
           /\ runs' = runs \cup {Started(p, cache[id], target)}
           /\ UNCHANGED cache
  <2> DEFINE e == cache[id]
  <2>1. GoodEntry(e, granted, sighted, clock)
    BY <1>6 DEF IInv
  <2>2. e.ok /\ clock - e.at <= TTL /\ e.fingerprint = p
    BY <1>6 DEF Reusable, Fingerprint
  <2> HIDE DEF e
  <2>3. e.at \in Nat /\ e.at <= clock /\ Backed(granted, sighted, p, e.strategy, e.headers, e.at)
    BY <2>1, <2>2 DEF GoodEntry
  <2>4. GoodRun(Started(p, e, target), granted)
    BY <1>1, <2>2, <2>3, StartedIsGood DEF IInv
  <2>5. \A x \in runs' : GoodRun(x, granted')
    BY <1>2, <1>6, <2>4 DEF IInv, e
  <2>6. \A i \in DOMAIN cache' : GoodEntry(cache'[i], granted', sighted, clock)
    BY <1>2, <1>6 DEF IInv
  <2> QED
    BY <1>2, <1>3, <1>4, <1>6, <2>5, <2>6, RequestStep
<1>7. CASE /\ req' = [req EXCEPT ![r] =
                [pc |-> "load", op |-> op, p |-> p, target |-> target,
                 required |-> IF Read(p, served) THEN Protected(Document(p, served).endpoints) ELSE -1]]
           /\ cache' = IF op = "create" /\ id \in DOMAIN cache /\ clock - cache[id].at > TTL
                       THEN [i \in DOMAIN cache \ {id} |-> cache[i]] ELSE cache
           /\ UNCHANGED runs
  <2> DEFINE q == [pc |-> "load", op |-> op, p |-> p, target |-> target,
                   required |-> IF Read(p, served) THEN Protected(Document(p, served).endpoints) ELSE -1]
  <2>1. q.pc = "load" /\ q.p = p /\ q.target = target
    OBVIOUS
  <2>2. req' = [req EXCEPT ![r] = q]
    BY <1>7
  <2> HIDE DEF q, target
  <2>3. GoodRequest(q, granted', sighted, clock)
    BY <1>1, <2>1 DEF GoodRequest
  <2>4. \A i \in DOMAIN cache' : i \in DOMAIN cache /\ cache'[i] = cache[i]
    BY <1>7
  <2>5. \A i \in DOMAIN cache' : GoodEntry(cache'[i], granted', sighted, clock)
    BY <1>2, <2>4 DEF IInv
  <2>6. \A x \in runs' : GoodRun(x, granted')
    BY <1>2, <1>7 DEF IInv
  <2> QED
    BY <1>2, <1>3, <2>2, <2>3, <2>5, <2>6, RequestStep
<1> HIDE DEF target
<1> QED
  BY <1>5, <1>6, <1>7 DEF Profile, target

(* The steps that leave everything but the request alone.                  *)
LEMMA LoadStep ==
  ASSUME IInv, NEW r \in Requests, Load(r)
  PROVE  IInv'
<1> DEFINE q == req[r]
           p == q.p
<1>1. q.pc = "load" /\ p \in Payloads /\ Aimed(p, q.target)
  BY DEF Load, IInv, GoodRequest
<1>2. PICK served \in BOOLEAN :
        LET d == Document(p, served)
        IN  req' = [req EXCEPT ![r] =
             CASE p.type = "ui" -> Decided(q, UiPreflight(p, world.vision))
               [] p.type = "api" /\ NothingDeclared(p, q.required) ->
                    Decided(q, Release("no_auth_declared", NoHeaders))
               [] p.type = "api" /\ AuthMode(p) = "none_confirmed" ->
                    Decided(q, NoAuthPreflight(p, d.endpoints, Page))
               [] p.type = "api" /\ AuthMode(p) = "manual" -> Decided(q, ManualPreflight(p, d.endpoints, Page))
               [] p.type = "api" /\ AuthMode(p) = "auto" /\ ~NothingDeclared(p, q.required)
                    /\ ~HasCredentials(p) /\ ~p.enabled ->
                    Decided(q, Refuse("auto_login", {"username", "password"}))
               [] OTHER -> LogIn(q, d.endpoints, d.captcha)]
  BY DEF Load
<1> DEFINE d == Document(p, served)
<1>3. p.type \in {"api", "ui"} /\ AuthMode(p) \in {"auto", "manual", "none_confirmed"}
  BY <1>1, PayloadIs DEF Modes
<1>4. /\ clock \in Nat /\ sighted \in Nat /\ "vision" \in DOMAIN world
      /\ world.vision => sighted = clock
  BY DEF IInv, ClockInv
<1>5. UNCHANGED << world, clock, cache, runs, granted, sighted >>
  BY DEF Load, Quiet
<1>6. ASSUME NEW plan, Sound(plan, p, granted, sighted, clock), req' = [req EXCEPT ![r] = Decided(q, plan)]
      PROVE  IInv'
  <2>1. GoodRequest(Decided(q, plan), granted, sighted, clock)
    BY <1>1, <1>6, DecidedIsGood
  <2> QED
    BY <1>4, <1>5, <1>6, <2>1, QuietStep
<1>7. ASSUME p.type = "api", AuthMode(p) = "auto",
             req' = [req EXCEPT ![r] = LogIn(q, d.endpoints, d.captcha)]
      PROVE  IInv'
  <2> DEFINE n == LogIn(q, d.endpoints, d.captcha)
  <2>1. /\ n.pc \in {"captcha", "login"} /\ n.p = p /\ n.target = q.target
        /\ "pc" \in DOMAIN n
    BY DEF LogIn
  <2>2. req' = [req EXCEPT ![r] = n]
    BY <1>7
  <2> HIDE DEF n, d
  <2>3. GoodRequest(n, granted, sighted, clock)
    BY <1>1, <1>7, <2>1 DEF GoodRequest
  <2> QED
    BY <1>4, <1>5, <2>2, <2>3, QuietStep
<1> DEFINE ui       == UiPreflight(p, world.vision)
           nothing  == Release("no_auth_declared", NoHeaders)
           noAuth   == NoAuthPreflight(p, d.endpoints, Page)
           manual   == ManualPreflight(p, d.endpoints, Page)
           refusal  == Refuse("auto_login", {"username", "password"})
<1>8. p.type = "ui" => Sound(ui, p, granted, sighted, clock)
  BY <1>1, <1>4, UiIsSound
<1>9. p.type = "api" /\ NothingDeclared(p, q.required) => Sound(nothing, p, granted, sighted, clock)
  BY <1>1, UndeclaredIsSound
<1>10. p.type = "api" => /\ Sound(noAuth, p, granted, sighted, clock)
                         /\ Sound(manual, p, granted, sighted, clock)
  BY NoAuthIsSound, ManualIsSound
<1>11. Sound(refusal, p, granted, sighted, clock)
  BY RefusalIsSound
<1> DEFINE n == CASE p.type = "ui" -> Decided(q, ui)
                  [] p.type = "api" /\ NothingDeclared(p, q.required) -> Decided(q, nothing)
                  [] p.type = "api" /\ AuthMode(p) = "none_confirmed" -> Decided(q, noAuth)
                  [] p.type = "api" /\ AuthMode(p) = "manual" -> Decided(q, manual)
                  [] p.type = "api" /\ AuthMode(p) = "auto" /\ ~NothingDeclared(p, q.required)
                       /\ ~HasCredentials(p) /\ ~p.enabled -> Decided(q, refusal)
                  [] OTHER -> LogIn(q, d.endpoints, d.captcha)
<1>12. req' = [req EXCEPT ![r] = n]
  BY <1>2
<1> HIDE DEF ui, nothing, noAuth, manual, refusal, d
<1>13. \/ p.type = "ui" /\ n = Decided(q, ui)
       \/ p.type = "api" /\ NothingDeclared(p, q.required) /\ n = Decided(q, nothing)
       \/ p.type = "api" /\ n \in {Decided(q, noAuth), Decided(q, manual)}
       \/ n = Decided(q, refusal)
       \/ p.type = "api" /\ AuthMode(p) = "auto" /\ n = LogIn(q, d.endpoints, d.captcha)
  BY <1>3
<1> HIDE DEF n
<1> QED
  BY <1>6, <1>7, <1>8, <1>9, <1>10, <1>11, <1>12, <1>13

LEMMA CaptchaStep ==
  ASSUME IInv, NEW r \in Requests, FetchCaptcha(r)
  PROVE  IInv'
<1> DEFINE q == req[r]
<1>1. PICK told \in {None, q.captcha} :
        req' = [req EXCEPT ![r] = [q EXCEPT !.pc = "login", !.text = IF world.up THEN told ELSE None]]
  BY DEF FetchCaptcha
<1> DEFINE text == IF world.up THEN told ELSE None
<1>2. req' = [req EXCEPT ![r] = [q EXCEPT !.pc = "login", !.text = text]]
  BY <1>1
<1> HIDE DEF text
<1>3. q.pc = "captcha" /\ GoodRequest(q, granted, sighted, clock)
  BY DEF FetchCaptcha, IInv
<1>4. "pc" \in DOMAIN q
  BY <1>3 DEF GoodRequest
<1> DEFINE n == [q EXCEPT !.pc = "login", !.text = text]
<1>5. n.pc = "login" /\ n.p = q.p /\ n.target = q.target
  BY <1>4
<1>6. req' = [req EXCEPT ![r] = n]
  BY <1>2
<1> HIDE DEF n
<1>7. GoodRequest(n, granted, sighted, clock)
  BY <1>3, <1>5 DEF GoodRequest
<1>8. /\ UNCHANGED << world, clock, cache, runs, granted, sighted >>
      /\ "vision" \in DOMAIN world
  BY DEF FetchCaptcha, Quiet, IInv, ClockInv
<1> QED
  BY <1>6, <1>7, <1>8, QuietStep

LEMMA RefuseStep ==
  ASSUME IInv, NEW r \in Requests, RefuseLogin(r)
  PROVE  IInv'
<1> DEFINE q == req[r]
           plan == Refuse("auto_login", PlanOf(q).missing)
<1>1. q.p \in Payloads /\ Aimed(q.p, q.target)
  BY DEF RefuseLogin, IInv, GoodRequest
<1>2. req' = [req EXCEPT ![r] = Decided(q, plan)]
  BY DEF RefuseLogin
<1>3. Sound(plan, q.p, granted, sighted, clock)
  BY RefusalIsSound
<1> HIDE DEF plan, q
<1>4. GoodRequest(Decided(q, plan), granted, sighted, clock)
  BY <1>1, <1>3, DecidedIsGood
<1>5. /\ UNCHANGED << world, clock, cache, runs, granted, sighted >>
      /\ "vision" \in DOMAIN world
  BY DEF RefuseLogin, Quiet, IInv, ClockInv
<1> QED
  BY <1>2, <1>4, <1>5, QuietStep

(* Whatever a login answers; only full credentials get further.            *)
LEMMA LoginStep ==
  ASSUME IInv, NEW r \in Requests, SendLogin(r)
  PROVE  IInv'
<1> DEFINE q == req[r]
<1>1. /\ q.pc = "login" /\ q.p \in Payloads /\ Aimed(q.p, q.target)
      /\ q.p.type = "api" /\ AuthMode(q.p) = "auto"
  BY DEF SendLogin, IInv, GoodRequest
<1>2. PICK answer \in Answered :
        LET resolution == Resolution(PlanOf(q).config, answer)
        IN  /\ PlanOf(q).ok
            /\ world' = IF resolution.ok THEN [world EXCEPT !.live = @ \cup {"got"}] ELSE world
            /\ req' = [req EXCEPT ![r] =
                 Decided(q, IF HasCredentials(q.p) THEN LoggedIn(q.p, q.endpoints, resolution, "got")
                            ELSE Refuse("auto_login", {"username", "password"}))]
  BY DEF SendLogin
<1> DEFINE resolution == Resolution(PlanOf(q).config, answer)
           plan == IF HasCredentials(q.p) THEN LoggedIn(q.p, q.endpoints, resolution, "got")
                   ELSE Refuse("auto_login", {"username", "password"})
<1>3. req' = [req EXCEPT ![r] = Decided(q, plan)]
  BY <1>2
<1>4. Sound(plan, q.p, granted, sighted, clock)
  <2>1. CASE HasCredentials(q.p)
    <3>1. LoginPlan(q.p, q.endpoints, q.text, world.up).ok
      BY <1>2, <2>1 DEF PlanOf
    <3>2. PlanOf(q).config = LoginConfig(q.p, q.text)
      BY <2>1, <3>1 DEF PlanOf, LoginPlan, LoginRequest, RequestTo, Unsent
    <3>3. Sound(LoggedIn(q.p, q.endpoints, Resolution(LoginConfig(q.p, q.text), answer), "got"),
                q.p, granted, sighted, clock)
      BY <1>1, <2>1, LoginIsSound
    <3> QED
      BY <2>1, <3>2, <3>3
  <2>2. CASE ~HasCredentials(q.p)
    BY <2>2, RefusalIsSound
  <2> QED
    BY <2>1, <2>2
<1>5. "vision" \in DOMAIN world' /\ world'.vision = world.vision
  BY <1>2 DEF IInv, ClockInv
<1> HIDE DEF plan, q
<1>6. GoodRequest(Decided(q, plan), granted, sighted, clock)
  BY <1>1, <1>4, DecidedIsGood
<1>7. UNCHANGED << clock, cache, runs, granted, sighted >>
  BY DEF SendLogin
<1> QED
  BY <1>3, <1>5, <1>6, <1>7, QuietStep

(* What the target let in is granted now; a proof is enough with two       *)
(* requests, or with the only one.                                         *)
LEMMA ValidateStep ==
  ASSUME IInv, NEW r \in Requests, Validate(r)
  PROVE  IInv'
<1> DEFINE q == req[r]
<1>1. PICK passed :
        LET ok == Enough(Cardinality(passed), Len(q.requests))
        IN  /\ req' = [req EXCEPT ![r] =
                 [pc |-> "finish", op |-> q.op, p |-> q.p, target |-> q.target,
                  result |-> Result(ok, q.strategy, q.headers)]]
            /\ granted' = IF ~ok THEN granted ELSE granted \cup
                {[headers |-> q.headers, target |-> q.target, p |-> q.p, at |-> clock,
                  passed |-> Cardinality(passed), asked |-> Len(q.requests)]}
  BY DEF Validate
<1> DEFINE ok == Enough(Cardinality(passed), Len(q.requests))
           g  == [headers |-> q.headers, target |-> q.target, p |-> q.p, at |-> clock,
                  passed |-> Cardinality(passed), asked |-> Len(q.requests)]
           n  == [pc |-> "finish", op |-> q.op, p |-> q.p, target |-> q.target,
                  result |-> Result(ok, q.strategy, q.headers)]
<1>2. /\ q.pc = "try" /\ q.p \in Payloads /\ Aimed(q.p, q.target) /\ q.p.type = "api"
      /\ q.strategy # "no_auth_declared" /\ (q.strategy = "auto_login" => Single(q.headers))
  BY DEF Validate, IInv, GoodRequest
<1>3. /\ clock' = clock /\ sighted' = sighted /\ world' = world /\ cache' = cache /\ runs' = runs
      /\ clock \in Nat /\ sighted \in Nat /\ "vision" \in DOMAIN world
  BY DEF Validate, IInv, ClockInv
<1>4. granted' = IF ok THEN granted \cup {g} ELSE granted
  BY <1>1
<1>5. req' = [req EXCEPT ![r] = n]
  BY <1>1
<1>6. ASSUME ok PROVE Proves(g, q.p, q.headers) /\ g.at = clock
  <2>1. g.passed >= IF g.asked >= 2 THEN 2 ELSE 1
    BY <1>6 DEF Enough
  <2> QED
    BY <1>2, <2>1 DEF Proves
<1>7. /\ n.pc = "finish" /\ n.p = q.p /\ n.target = q.target
      /\ n.result.ok = ok /\ n.result.strategy = q.strategy /\ n.result.headers = q.headers
  BY DEF Result
<1> HIDE DEF ok, g, n, q
<1>8. ok => Backed(granted', sighted, q.p, q.strategy, q.headers, clock)
  BY <1>2, <1>4, <1>6 DEF Backed
<1>9. GoodRequest(n, granted', sighted, clock)
  BY <1>2, <1>7, <1>8 DEF GoodRequest
<1>10. granted \subseteq granted'
  BY <1>4
<1>11. \A i \in DOMAIN cache' : GoodEntry(cache'[i], granted', sighted, clock)
  BY <1>3, <1>10, EntryStays DEF IInv
<1>12. \A x \in runs' : GoodRun(x, granted')
  BY <1>3, <1>10, RunStays DEF IInv
<1> QED
  BY <1>3, <1>5, <1>9, <1>10, <1>11, <1>12, RequestStep

(* The result is kept with the time at which it was found.                 *)
LEMMA FinishStep ==
  ASSUME IInv, NEW r \in Requests, Finish(r)
  PROVE  IInv'
<1> DEFINE q     == req[r]
           entry == [fingerprint |-> Fingerprint(q.p), at |-> clock, ok |-> q.result.ok,
                     strategy |-> q.result.strategy, headers |-> q.result.headers]
<1>1. /\ cache' = [i \in DOMAIN cache \cup {issued + 1} |-> IF i = issued + 1 THEN entry ELSE cache[i]]
      /\ runs' = IF q.op = "create" /\ q.result.ok
                 THEN runs \cup {Started(q.p, entry, q.target)} ELSE runs
      /\ req' = [req EXCEPT ![r] = Idle]
  BY DEF Finish
<1>2. /\ q.p \in Payloads /\ Aimed(q.p, q.target)
      /\ q.result.ok => Backed(granted, sighted, q.p, q.result.strategy, q.result.headers, clock)
  BY DEF Finish, IInv, GoodRequest
<1>3. /\ clock' = clock /\ sighted' = sighted /\ world' = world /\ granted' = granted
      /\ clock \in Nat /\ sighted \in Nat /\ "vision" \in DOMAIN world
  BY DEF Finish, IInv, ClockInv
<1>4. /\ entry.fingerprint = q.p /\ entry.at = clock /\ entry.ok = q.result.ok
      /\ entry.strategy = q.result.strategy /\ entry.headers = q.result.headers
  BY DEF Fingerprint
<1> HIDE DEF entry, q
<1>5. GoodEntry(entry, granted, sighted, clock)
  BY <1>2, <1>3, <1>4 DEF GoodEntry
<1>6. q.result.ok => GoodRun(Started(q.p, entry, q.target), granted)
  <2>1. clock - entry.at <= TTL
    BY <1>3, <1>4, BoundsAssumption
  <2> QED
    BY <1>2, <1>3, <1>4, <2>1, StartedIsGood DEF IInv
<1>7. \A i \in DOMAIN cache' : GoodEntry(cache'[i], granted', sighted, clock)
  BY <1>1, <1>3, <1>5 DEF IInv
<1>8. \A x \in runs' : GoodRun(x, granted')
  BY <1>1, <1>3, <1>6 DEF IInv
<1>9. GoodRequest(Idle, granted', sighted, clock)
  BY DEF GoodRequest, Idle
<1> QED
  BY <1>1, <1>3, <1>7, <1>8, <1>9, RequestStep

(* Every step of the specification.                                        *)
LEMMA StepHolds ==
  ASSUME IInv, [Next]_vars
  PROVE  IInv'
<1>1. ASSUME NEW r \in Requests, Preflight(r)
      PROVE  IInv'
  BY <1>1, ProfileStep DEF Preflight
<1>2. ASSUME NEW r \in Requests, Create(r)
      PROVE  IInv'
  BY <1>2, ProfileStep DEF Create
<1>3. CASE UNCHANGED vars
  BY <1>3 DEF IInv, ClockInv, vars
<1> QED
  BY <1>1, <1>2, <1>3, WorldStep, TickStep, RestartStep, LoadStep, CaptchaStep, RefuseStep,
     LoginStep, ValidateStep, FinishStep DEF Next

(* What the invariant says of a run is what the property asks of it.       *)
LEMMA InvariantProves ==
  ASSUME IInv
  PROVE  RunsStartProven
<1> SUFFICES ASSUME NEW x \in runs
             PROVE  /\ x.p.type = "api" =>
                         IF x.strategy = "no_auth_declared"
                         THEN x.headers = NoHeaders /\ x.p.token = None /\ ~HasCredentials(x.p)
                         ELSE \E g \in Proofs(x) : g.passed >= IF g.asked >= 2 THEN 2 ELSE 1
                    /\ x.p.type = "api" /\ x.strategy # "no_auth_declared" =>
                         \E g \in Proofs(x) : /\ g.p = x.p
                                              /\ g.target = x.target \/ (x.p.base = None /\ x.p.src = "link")
                    /\ x.p.type = "api" /\ x.strategy = "auto_login" =>
                         {x.headers[h] : h \in Sensitive} \ {None} = {"got"}
                    /\ x.p.type = "ui" =>
                         /\ x.p.captcha = "dynamic" => x.at - x.sighted <= TTL
                         /\ AuthMode(x.p) = "auto" => HasCredentials(x.p)
  BY DEF RunsStartProven, RunsAreProven, TargetsAreProven, OneCredential, UiReady
<1>1. GoodRun(x, granted)
  BY DEF IInv
<1>2. ASSUME x.p.type = "api", x.strategy # "no_auth_declared"
      PROVE  \E g \in Proofs(x) :
               /\ g.passed >= IF g.asked >= 2 THEN 2 ELSE 1
               /\ g.p = x.p /\ (g.target = x.target \/ (x.p.base = None /\ x.p.src = "link"))
  <2>1. PICK g \in granted : Proves(g, x.p, x.headers) /\ x.at - g.at <= TTL
    BY <1>1, <1>2 DEF GoodRun
  <2>2. g \in Proofs(x)
    BY <2>1 DEF Proofs, Proves
  <2>3. g.target = x.target \/ (x.p.base = None /\ x.p.src = "link")
    BY <1>1, <2>1 DEF GoodRun, Proves, Aimed
  <2> QED
    BY <2>1, <2>2, <2>3 DEF Proves
<1> QED
  BY <1>1, <1>2 DEF GoodRun, Single

\* A run is started only with what a preflight proved for its payload and target no longer than
\* the TTL ago, for every set of payloads, documents and answers and every interleaving of the
\* requests with the world, the clock and restarts (runs.py:3786, auth_preflight_service.py:563).
THEOREM RunsProven == Spec => []RunsStartProven
<1>1. Init => IInv
  BY InitHolds
<1>2. IInv /\ [Next]_vars => IInv'
  BY StepHolds
<1>3. IInv => RunsStartProven
  BY InvariantProves
<1> QED
  BY <1>1, <1>2, <1>3, PTL DEF Spec

-----------------------------------------------------------------------------
(* The logins.  What the document of a request holds.                      *)

Listed(endpoints) ==
  /\ endpoints \in Seq(Endpoint)
  /\ \A i \in DOMAIN endpoints :
       endpoints[i].path # None /\ endpoints[i].required \subseteq endpoints[i].fields

DocInv ==
  /\ DOMAIN req = Requests
  /\ "doc" \in DOMAIN world /\ world.doc \in DOMAIN Docs
  /\ \A r \in Requests : req[r].pc \in {"captcha", "login"} => Listed(req[r].endpoints)

LEMMA DocumentIsListed ==
  ASSUME NEW p, NEW served, world.doc \in DOMAIN Docs
  PROVE  Listed(Document(p, served).endpoints)
<1>1. \A d \in DOMAIN Docs : Listed(Docs[d].endpoints)
  BY DocsAssumption DEF Listed
<1>2. Listed(<< >>)
  BY DEF Listed
<1> QED
  BY <1>1, <1>2, DocsAssumption DEF Document

LEMMA DocStep ==
  ASSUME DocInv, NEW r \in Requests, NEW n, req' = [req EXCEPT ![r] = n],
         "doc" \in DOMAIN world' /\ world'.doc = world.doc,
         n.pc \in {"captcha", "login"} => Listed(n.endpoints)
  PROVE  DocInv'
  BY DEF DocInv

LEMMA DecidedDone ==
  ASSUME NEW q, NEW plan
  PROVE  Decided(q, plan).pc \in {"finish", "try"}
  BY DEF Decided

LEMMA DocNext ==
  ASSUME DocInv, [Next]_vars
  PROVE  DocInv'
<1>1. CASE ChangeWorld
  <2>1. UNCHANGED req
    BY <1>1 DEF ChangeWorld
  <2>2. "doc" \in DOMAIN world' /\ world'.doc \in DOMAIN Docs
    BY <1>1 DEF ChangeWorld, Changed, DocInv
  <2> QED
    BY <2>1, <2>2 DEF DocInv
<1>2. CASE Tick \/ UNCHANGED vars
  BY <1>2 DEF Tick, vars, DocInv
<1>3. CASE Restart
  BY <1>3 DEF Restart, DocInv, Idle
<1>4. ASSUME NEW r \in Requests, NEW op, NEW p, NEW id, NEW served, Profile(r, op, p, id, served)
      PROVE  DocInv'
  <2>1. PICK n : req' = [req EXCEPT ![r] = n] /\ n.pc \in {"idle", "load"}
    BY <1>4 DEF Profile, Idle
  <2>2. UNCHANGED world
    BY <1>4 DEF Profile
  <2> QED
    BY <2>1, <2>2, DocStep DEF DocInv
<1>5. ASSUME NEW r \in Requests, Preflight(r) \/ Create(r)
      PROVE  DocInv'
  BY <1>4, <1>5 DEF Preflight, Create
<1>6. ASSUME NEW r \in Requests, Load(r)
      PROVE  DocInv'
  <2>1. PICK served, n :
          /\ req' = [req EXCEPT ![r] = n]
          /\ \/ \E plan : n = Decided(req[r], plan)
             \/ n = LogIn(req[r], Document(req[r].p, served).endpoints, Document(req[r].p, served).captcha)
    BY <1>6 DEF Load
  <2>2. UNCHANGED world
    BY <1>6 DEF Load, Quiet
  <2>3. n.pc \in {"captcha", "login"} => Listed(n.endpoints)
    <3>1. CASE \E plan : n = Decided(req[r], plan)
      BY <3>1, DecidedDone
    <3>2. CASE n = LogIn(req[r], Document(req[r].p, served).endpoints, Document(req[r].p, served).captcha)
      <4>1. n.endpoints = Document(req[r].p, served).endpoints
        BY <3>2 DEF LogIn
      <4> QED
        BY <4>1, DocumentIsListed DEF DocInv
    <3> QED
      BY <2>1, <3>1, <3>2
  <2> QED
    BY <2>1, <2>2, <2>3, DocStep DEF DocInv
<1>7. ASSUME NEW r \in Requests, FetchCaptcha(r)
      PROVE  DocInv'
  <2>1. PICK told \in {None, req[r].captcha} :
          req' = [req EXCEPT ![r] =
                      [req[r] EXCEPT !.pc = "login", !.text = IF world.up THEN told ELSE None]]
    BY <1>7 DEF FetchCaptcha
  <2> DEFINE n == [req[r] EXCEPT !.pc = "login", !.text = IF world.up THEN told ELSE None]
  <2>2. n.endpoints = req[r].endpoints /\ req[r].pc = "captcha" /\ UNCHANGED world
    BY <1>7 DEF FetchCaptcha, Quiet
  <2>3. req' = [req EXCEPT ![r] = n]
    BY <2>1
  <2> HIDE DEF n
  <2> QED
    BY <2>2, <2>3, DocStep DEF DocInv
<1>8. ASSUME NEW r \in Requests, RefuseLogin(r)
      PROVE  DocInv'
  <2>1. PICK plan : req' = [req EXCEPT ![r] = Decided(req[r], plan)]
    BY <1>8 DEF RefuseLogin
  <2>2. UNCHANGED world
    BY <1>8 DEF RefuseLogin, Quiet
  <2> QED
    BY <2>1, <2>2, DecidedDone, DocStep DEF DocInv
<1>9. ASSUME NEW r \in Requests, SendLogin(r)
      PROVE  DocInv'
  <2>1. PICK plan : req' = [req EXCEPT ![r] = Decided(req[r], plan)]
    BY <1>9 DEF SendLogin
  <2>2. "doc" \in DOMAIN world' /\ world'.doc = world.doc
    BY <1>9 DEF SendLogin, DocInv
  <2> QED
    BY <2>1, <2>2, DecidedDone, DocStep
<1>10. ASSUME NEW r \in Requests, Validate(r)
       PROVE  DocInv'
  <2>1. PICK result : req' = [req EXCEPT ![r] =
          [pc |-> "finish", op |-> req[r].op, p |-> req[r].p, target |-> req[r].target, result |-> result]]
    BY <1>10 DEF Validate
  <2>2. UNCHANGED world
    BY <1>10 DEF Validate
  <2> QED
    BY <2>1, <2>2, DocStep DEF DocInv
<1>11. ASSUME NEW r \in Requests, Finish(r)
       PROVE  DocInv'
  BY <1>11, DocStep DEF Finish, Idle, DocInv
<1> QED
  BY <1>1, <1>2, <1>3, <1>5, <1>6, <1>7, <1>8, <1>9, <1>10, <1>11 DEF Next
-----------------------------------------------------------------------------
(* The captcha a login carries.                                            *)

LEMMA BodyCarries ==
  ASSUME NEW config, NEW e, config.body = NoBody, NEW f \in CodeNames,
         config.creds.captcha # None
  PROVE  LoginBody(config, e)[f] \in {None, config.creds.captcha}
<1>1. f \in {"captcha", "smsCode", "tenantCode"} /\ f \in Fields
  BY DEF CodeNames, Fields, Kinds
<1>2. Credential(f, config.creds) = config.creds.captcha
  BY DEF Credential
<1> DEFINE mapped == [g \in Fields |-> IF g \in e.fields THEN Credential(g, config.creds) ELSE None]
           plain  == [g \in Fields |-> IF g \in Kinds \ {"csrf"} THEN config.creds[g] ELSE None]
<1>3. mapped[f] \in {None, config.creds.captcha}
  BY <1>1, <1>2
<1>4. plain[f] \in {None, config.creds.captcha}
  BY <1>1 DEF Kinds
<1>5. LoginBody(config, e) = IF mapped # NoBody THEN mapped ELSE plain
  BY DEF LoginBody
<1> HIDE DEF mapped, plain
<1> QED
  BY <1>3, <1>4, <1>5

(* Without an answer of the captcha endpoint no login that needs one is sent. *)
LEMMA PlanCarries ==
  ASSUME NEW q, q.p \in Payloads, q.p.captcha = "dynamic", HasCredentials(q.p), PlanOf(q).ok,
         NEW f \in CodeNames
  PROVE  \/ PlanOf(q).body[f] \in {None, q.text}
         \/ (q.p.body # NoBody /\ q.text # None)
<1> DEFINE config == LoginConfig(q.p, q.text)
           e      == LoginEndpoint(q.endpoints, config)
           body   == LoginBody(config, e)
<1>1. PlanOf(q) = LoginPlan(q.p, q.endpoints, q.text, world.up)
  BY DEF PlanOf
<1>2. /\ PlanOf(q) = RequestTo(e, config, world.up)
      /\ ~(q.text = None /\ CaptchaRequired(config, e))
  BY <1>1 DEF LoginPlan, LoginRequest, Unsent
<1>3. PlanOf(q).body = body
  BY <1>2 DEF RequestTo, Unsent
<1>4. CASE q.text = None
  <2>1. f \in Fields /\ InputKey(f) = "captcha"
    BY DEF CodeNames, Fields, Kinds, InputKey
  <2>2. body[f] = None
    BY <1>2, <1>4, <2>1 DEF CaptchaRequired
  <2> QED
    BY <1>3, <2>2
<1>5. CASE q.text # None /\ q.p.body = NoBody
  <2>1. q.p.creds \in [Kinds -> STRING]
    BY PayloadsAssumption DEF Payload
  <2>2. config.body = NoBody /\ config.creds.captcha = q.text
    BY <1>5, <2>1 DEF LoginConfig, Kinds
  <2>3. body[f] \in {None, q.text}
    BY <1>5, <2>2, BodyCarries
  <2> QED
    BY <1>3, <2>3
<1> QED
  BY <1>4, <1>5

LEMMA CaptchasAreFetched ==
  ASSUME IInv
  PROVE  CaptchaIsFetched
<1> SUFFICES ASSUME NEW r \in Requests, req[r].pc = "login", req[r].p.captcha = "dynamic",
                    HasCredentials(req[r].p), PlanOf(req[r]).ok, NEW f \in CodeNames
             PROVE  \/ PlanOf(req[r]).body[f] \in {None, req[r].text}
                    \/ (req[r].p.body # NoBody /\ req[r].text # None)
  BY DEF CaptchaIsFetched
<1>1. req[r].p \in Payloads
  BY DEF IInv, GoodRequest
<1> QED
  BY <1>1, PlanCarries

-----------------------------------------------------------------------------
(* The advice given for a refused login.                                   *)

LEMMA MoreIsSupplied ==
  ASSUME NEW creds, NEW given, \A k \in Kinds : creds[k] # None => given[k] # None,
         NEW f \in Fields, Credential(f, creds) # None
  PROVE  Credential(f, given) # None
<1>1. CASE f \in CodeNames /\ creds.captcha # None
  <2>1. given["captcha"] # None
    BY <1>1 DEF Kinds
  <2> QED
    BY <1>1, <2>1 DEF Credential
<1>2. CASE Kind(f) # None /\ (f \notin CodeNames \/ creds.captcha = None)
  <2>1. Kind(f) \in Kinds
    BY <1>2 DEF Kind, Kinds
  <2>2. creds[Kind(f)] # None
    BY <1>2 DEF Credential
  <2>3. given[Kind(f)] # None
    BY <2>1, <2>2
  <2> QED
    BY <1>2, <2>3 DEF Credential
<1> QED
  BY <1>1, <1>2 DEF Credential

LEMMA GuidanceHelps ==
  ASSUME NEW config, NEW given, NEW e, e.required \subseteq e.fields, e.fields \subseteq Fields,
         config.body = NoBody, given.body = NoBody,
         MissingInputs(MissingFields(LoginBody(config, e), e)) \subseteq Kinds,
         given.creds = [k \in Kinds |->
           IF k \in MissingInputs(MissingFields(LoginBody(config, e), e)) THEN "new" ELSE config.creds[k]]
  PROVE  MissingFields(LoginBody(given, e), e) = {}
<1> DEFINE asked == MissingInputs(MissingFields(LoginBody(config, e), e))
<1> SUFFICES ASSUME NEW f \in e.required, LoginBody(given, e)[f] = None
             PROVE  FALSE
  BY DEF MissingFields
<1>1. f \in e.fields /\ f \in Fields
  OBVIOUS
<1>2. "new" # None
  BY DEF None
<1>3. \A k \in Kinds : config.creds[k] # None => given.creds[k] # None
  BY <1>2
<1>4. \A k \in asked : k \in Kinds /\ given.creds[k] = "new"
  OBVIOUS
<1> DEFINE mapped(c) == [g \in Fields |-> IF g \in e.fields THEN Credential(g, c) ELSE None]
           plain(c)  == [g \in Fields |-> IF g \in Kinds \ {"csrf"} THEN c[g] ELSE None]
<1>5. /\ LoginBody(config, e) = IF mapped(config.creds) # NoBody THEN mapped(config.creds) ELSE plain(config.creds)
      /\ LoginBody(given, e) = IF mapped(given.creds) # NoBody THEN mapped(given.creds) ELSE plain(given.creds)
  BY DEF LoginBody
<1>6. /\ mapped(config.creds)[f] = Credential(f, config.creds)
      /\ mapped(given.creds)[f] = Credential(f, given.creds)
  BY <1>1
<1>7. Credential(f, config.creds) = None => plain(config.creds)[f] = None
  <2>1. CASE f \in {"username", "password", "tenant"}
    <3>1. Kind(f) = f /\ f # None /\ f \notin CodeNames
      BY <2>1 DEF Kind, Kinds, CodeNames, None
    <3>2. Credential(f, config.creds) = config.creds[f]
      BY <3>1 DEF Credential
    <3> QED
      BY <1>1, <2>1, <3>2
  <2>2. CASE f = "captcha"
    <3>1. Kind(f) = "captcha" /\ f # None /\ f \in CodeNames
      BY <2>2 DEF Kind, Kinds, CodeNames, None
    <3>2. Credential(f, config.creds) = config.creds["captcha"]
      BY <2>2, <3>1 DEF Credential
    <3> QED
      BY <1>1, <2>2, <3>2
  <2>3. CASE f \notin Kinds \ {"csrf"}
    BY <1>1, <2>3
  <2> QED
    BY <2>1, <2>2, <2>3 DEF Kinds
<1> HIDE DEF mapped, plain, asked
<1>8. Credential(f, given.creds) # None
  <2>1. CASE Credential(f, config.creds) # None
    BY <1>1, <1>3, <2>1, MoreIsSupplied
  <2>2. CASE Credential(f, config.creds) = None
    <3>1. LoginBody(config, e)[f] = None
      BY <1>5, <1>6, <1>7, <2>2
    <3>2. InputKey(f) \in asked
      BY <3>1 DEF asked, MissingInputs, MissingFields
    <3>3. InputKey(f) \in Kinds /\ given.creds[InputKey(f)] = "new"
      BY <1>4, <3>2
    <3> QED
      <4>1. CASE f \in {"username", "password", "csrf"}
        <5>1. InputKey(f) = f /\ Kind(f) = f /\ f # None /\ f \notin CodeNames
          BY <4>1 DEF InputKey, Kind, Kinds, CodeNames, None
        <5> QED
          BY <1>2, <3>3, <5>1 DEF Credential
      <4>2. CASE f \in CodeNames
        <5>1. InputKey(f) = "captcha"
          BY <4>2 DEF InputKey, CodeNames
        <5>2. given.creds.captcha # None
          BY <1>2, <3>3, <5>1
        <5> QED
          BY <4>2, <5>2 DEF Credential
      <4>3. f \in {"username", "password", "csrf"} \/ f \in CodeNames
        BY <3>3 DEF InputKey, Kinds
      <4> QED
        BY <4>1, <4>2, <4>3
  <2> QED
    BY <2>1, <2>2
<1>9. mapped(given.creds) # NoBody
  BY <1>1, <1>6, <1>8 DEF NoBody
<1> QED
  BY <1>5, <1>6, <1>8, <1>9
-----------------------------------------------------------------------------
(* The endpoint that is chosen.                                            *)

(* A set of numbers has a least one.                                       *)
LEMMA Least ==
  ASSUME NEW T, T \subseteq Nat, T # {}
  PROVE  \E x \in T : \A y \in T : x <= y
<1>1. IsWellFoundedOn(OpToRel(<, Nat), Nat)
  BY NatLessThanWellFounded, Zenon
<1>2. \A i, j \in Nat : i < j => << i, j >> \in OpToRel(<, Nat)
  BY Zenon DEF OpToRel
<1>3. \E x \in T : \A y \in T : ~(<< y, x >> \in OpToRel(<, Nat))
  BY <1>1, WFMin, Zenon
<1>4. PICK x \in T : \A y \in T : ~(y < x)
  BY <1>2, <1>3, Zenon
<1>5. ASSUME NEW y \in T
      PROVE  x <= y
  BY <1>4
<1> QED
  BY <1>5

LEMMA FirstIsOne ==
  ASSUME NEW S, S \subseteq Nat, S # {}
  PROVE  First(S) \in S
<1>1. \E i \in S : \A j \in S : i <= j
  BY Least
<1> QED
  BY <1>1 DEF First

\* How many points stand between the candidate and the best, lacking fields and
\* markers against it breaking ties.
Distance(e, config) ==
  100 * (1000 - Score(e, config)) + 10 * Cardinality(Lacking(e, config)) + Cardinality(e.hits)

LEMMA SizeOfFields ==
  /\ IsFiniteSet(Fields) /\ Cardinality(Fields) = 8
  /\ IsFiniteSet(Specialized) /\ Cardinality(Specialized) = 6
<1>1. Fields = (((((((({} \cup {"username"}) \cup {"password"}) \cup {"captcha"}) \cup {"tenant"})
                 \cup {"csrf"}) \cup {"smsCode"}) \cup {"tenantCode"}) \cup {"remark"})
  BY DEF Fields, Kinds
<1>2. Specialized = (((((({} \cup {"refresh"}) \cup {"logout"}) \cup {"register"}) \cup {"captcha"})
                      \cup {"sms"}) \cup {"oauth"})
  BY DEF Specialized, NonLogin
<1>3. IsFiniteSet({}) /\ Cardinality({}) = 0
  BY FS_EmptySet
<1> DEFINE f1 == {} \cup {"username"}
           f2 == f1 \cup {"password"}
           f3 == f2 \cup {"captcha"}
           f4 == f3 \cup {"tenant"}
           f5 == f4 \cup {"csrf"}
           f6 == f5 \cup {"smsCode"}
           f7 == f6 \cup {"tenantCode"}
           f8 == f7 \cup {"remark"}
           h1 == {} \cup {"refresh"}
           h2 == h1 \cup {"logout"}
           h3 == h2 \cup {"register"}
           h4 == h3 \cup {"captcha"}
           h5 == h4 \cup {"sms"}
           h6 == h5 \cup {"oauth"}
<1>4. IsFiniteSet(f4) /\ Cardinality(f4) = 4
  <2>1. IsFiniteSet(f1) /\ Cardinality(f1) = 1
    BY <1>3, FS_AddElement
  <2>2. IsFiniteSet(f2) /\ Cardinality(f2) = 2
    BY <2>1, FS_AddElement
  <2>3. IsFiniteSet(f3) /\ Cardinality(f3) = 3
    BY <2>2, FS_AddElement
  <2> QED
    BY <2>3, FS_AddElement
<1>5. IsFiniteSet(f8) /\ Cardinality(f8) = 8
  <2>1. IsFiniteSet(f5) /\ Cardinality(f5) = 5
    BY <1>4, FS_AddElement
  <2>2. IsFiniteSet(f6) /\ Cardinality(f6) = 6
    BY <2>1, FS_AddElement
  <2>3. IsFiniteSet(f7) /\ Cardinality(f7) = 7
    BY <2>2, FS_AddElement
  <2> QED
    BY <2>3, FS_AddElement
<1>6. IsFiniteSet(h6) /\ Cardinality(h6) = 6
  <2>1. IsFiniteSet(h1) /\ Cardinality(h1) = 1
    BY <1>3, FS_AddElement
  <2>2. IsFiniteSet(h2) /\ Cardinality(h2) = 2
    BY <2>1, FS_AddElement
  <2>3. IsFiniteSet(h3) /\ Cardinality(h3) = 3
    BY <2>2, FS_AddElement
  <2>4. IsFiniteSet(h4) /\ Cardinality(h4) = 4
    BY <2>3, FS_AddElement
  <2>5. IsFiniteSet(h5) /\ Cardinality(h5) = 5
    BY <2>4, FS_AddElement
  <2> QED
    BY <2>5, FS_AddElement
<1> QED
  BY <1>1, <1>2, <1>5, <1>6

SpecialLacking(e, config) == {f \in Lacking(e, config) : SpecialCode(f)}

LEMMA EndpointSizes ==
  ASSUME NEW e \in Endpoint, NEW config
  PROVE  /\ IsFiniteSet(e.required) /\ Cardinality(e.required) \in 0 .. 8
         /\ IsFiniteSet(Lacking(e, config)) /\ Cardinality(Lacking(e, config)) \in 0 .. 8
         /\ Cardinality(Lacking(e, config)) <= Cardinality(e.required)
         /\ IsFiniteSet(e.hits) /\ Cardinality(e.hits) \in 0 .. 6
         /\ Cardinality(e.hits \cap NonLogin) \in Nat
         /\ Cardinality(SpecialLacking(e, config)) \in Nat
<1>1. e.required \subseteq Fields /\ e.hits \subseteq Specialized /\ Lacking(e, config) \subseteq e.required
  BY DEF Endpoint, Lacking
<1>2. IsFiniteSet(e.required) /\ Cardinality(e.required) \in 0 .. 8
  BY <1>1, SizeOfFields, FS_Subset, FS_CardinalityType
<1>3. IsFiniteSet(e.hits) /\ Cardinality(e.hits) \in 0 .. 6
  BY <1>1, SizeOfFields, FS_Subset, FS_CardinalityType
<1>4. /\ IsFiniteSet(Lacking(e, config)) /\ Cardinality(Lacking(e, config)) \in Nat
      /\ Cardinality(Lacking(e, config)) <= Cardinality(e.required)
  BY <1>1, <1>2, FS_Subset, FS_CardinalityType
<1>5. Cardinality(e.hits \cap NonLogin) \in Nat
  <2>1. IsFiniteSet(e.hits \cap NonLogin)
    BY <1>3, FS_Subset
  <2> QED
    BY <2>1, FS_CardinalityType
<1>6. Cardinality(SpecialLacking(e, config)) \in Nat
  <2>1. IsFiniteSet(SpecialLacking(e, config))
    BY <1>4, FS_Subset DEF SpecialLacking
  <2> QED
    BY <2>1, FS_CardinalityType
<1> QED
  BY <1>2, <1>3, <1>4, <1>5, <1>6

LEMMA PointsOfPath ==
  ASSUME NEW e \in Endpoint
  PROVE  /\ PathPoints(e) \in 0 .. 211
         /\ e.simple /\ e.last = "login" /\ "login" \in e.words => PathPoints(e) >= 160
<1>1. e.last = "login" => e.last # "token"
  OBVIOUS
<1> QED
  BY <1>1 DEF PathPoints, Points

LEMMA PointsOfFields ==
  ASSUME NEW e
  PROVE  /\ FieldPoints(e) \in 0 .. 90
         /\ {"username", "password"} \subseteq e.fields => FieldPoints(e) = 90
<1>1. Kind("username") = "username" /\ Kind("password") = "password"
  BY DEF Kind, Kinds
<1> QED
  BY <1>1 DEF FieldPoints, Points

(* Without a body of the user's own the required fields count by what is lacking. *)
LEMMA PointsOfRequired ==
  ASSUME NEW e \in Endpoint, NEW config, config.body = NoBody
  PROVE  LET n == Cardinality(Lacking(e, config))
             m == Cardinality(e.required)
             s == Cardinality(SpecialLacking(e, config))
         IN  RequiredPoints(e, config) = 30 * (m - n) - 45 * n - 70 * s
<1>1. {f \in e.required : config.body[f] # None} = {}
  BY DEF NoBody, Endpoint
<1>2. Cardinality({}) = 0 /\ (Cardinality(e.required) = 0 => e.required = {})
  BY EndpointSizes, FS_EmptySet
<1> DEFINE n == Cardinality(Lacking(e, config))
           m == Cardinality(e.required)
           s == Cardinality(SpecialLacking(e, config))
<1>3. RequiredPoints(e, config) =
        (IF e.required # {} /\ 0 = m THEN 120 ELSE 35 * 0) + 30 * (m - n) - 45 * n - 70 * s
  BY <1>1, <1>2 DEF RequiredPoints, SpecialLacking
<1>4. m \in Nat /\ n \in Nat /\ s \in Nat
  <2>1. m \in 0 .. 8 /\ n \in 0 .. 8 /\ s \in Nat
    BY EndpointSizes
  <2> QED
    BY <2>1
<1> HIDE DEF m, n, s
<1>5. ~(e.required # {} /\ 0 = m)
  BY <1>2 DEF m
<1>6. RequiredPoints(e, config) = 30 * (m - n) - 45 * n - 70 * s
  BY <1>3, <1>4, <1>5
<1> QED
  BY <1>6 DEF m, n, s

LEMMA PointsAgainst ==
  ASSUME NEW e \in Endpoint, NEW config
  PROVE  /\ SpecialPoints(e, config) \in Int /\ SpecialPoints(e, config) <= 0
         /\ e.hits # {} /\ Lacking(e, config) # {} => SpecialPoints(e, config) <= -55
         /\ e.hits = {} /\ e.last = "login" => SpecialPoints(e, config) = 0
<1> DEFINE fits == e.required # {} /\ Lacking(e, config) = {}
           h == Cardinality(e.hits)
           k == Cardinality(e.hits \cap NonLogin)
           p == Points(e.last \in NonLogin, 80)
<1>1. SpecialPoints(e, config) = -(IF fits THEN 10 ELSE 55) * h - 120 * k - p
  BY DEF SpecialPoints
<1>2. h \in Nat /\ k \in Nat /\ p \in {0, 80}
  <2>1. IsFiniteSet(e.hits) /\ h \in 0 .. 6 /\ k \in Nat
    BY EndpointSizes
  <2>2. p \in {0, 80}
    BY DEF Points
  <2> QED
    BY <2>1, <2>2
<1>3. e.hits # {} => h >= 1
  <2>1. IsFiniteSet(e.hits) /\ h \in 0 .. 6
    BY EndpointSizes
  <2>2. h = 0 => e.hits = {}
    BY <2>1, FS_EmptySet
  <2> QED
    BY <2>1, <2>2
<1>4. e.hits = {} => h = 0 /\ k = 0
  <2>1. e.hits = {} => e.hits \cap NonLogin = {}
    OBVIOUS
  <2> QED
    BY <2>1, FS_EmptySet
<1>5. e.last = "login" => p = 0
  BY DEF Points, NonLogin
<1>6. Lacking(e, config) # {} => ~fits
  OBVIOUS
<1> HIDE DEF h, k, p, fits
<1>7. CASE fits
  BY <1>1, <1>2, <1>3, <1>4, <1>5, <1>6, <1>7
<1>8. CASE ~fits
  BY <1>1, <1>2, <1>3, <1>4, <1>5, <1>6, <1>8
<1> QED
  BY <1>7, <1>8

\* A plain login.
Plain(e) == /\ e.simple /\ e.last = "login" /\ "login" \in e.words
            /\ e.hits = {} /\ {"username", "password"} \subseteq e.fields

(* Scores without a body of the user's own.                                *)
LEMMA ScoreBounds ==
  ASSUME NEW e \in Endpoint, NEW config, config.body = NoBody
  PROVE  /\ Score(e, config) \in Int /\ Score(e, config) <= 1000
         /\ e.hits # {} /\ Lacking(e, config) # {}
              => Score(e, config) <= 171 + 30 * Cardinality(e.required)
         /\ Plain(e) /\ Lacking(e, config) = {}
              => Score(e, config) >= 250 + 30 * Cardinality(e.required)
<1> DEFINE n == Cardinality(Lacking(e, config))
           m == Cardinality(e.required)
           s == Cardinality(SpecialLacking(e, config))
           a == PathPoints(e)
           b == FieldPoints(e)
           c == RequiredPoints(e, config)
           d == SpecialPoints(e, config)
<1>1. Score(e, config) = a + b + c + d
  BY DEF Score
<1>2. m \in 0 .. 8 /\ n \in 0 .. 8 /\ n <= m /\ s \in Nat
  BY EndpointSizes
<1>3. Lacking(e, config) # {} => n >= 1
  <2>1. IsFiniteSet(Lacking(e, config))
    BY EndpointSizes
  <2>2. n = 0 => Lacking(e, config) = {}
    BY <2>1, FS_EmptySet
  <2> QED
    BY <1>2, <2>2
<1>4. Lacking(e, config) = {} => n = 0 /\ s = 0
  <2>1. Lacking(e, config) = {} => SpecialLacking(e, config) = {}
    BY DEF SpecialLacking
  <2> QED
    BY <2>1, FS_EmptySet
<1>5. c = 30 * (m - n) - 45 * n - 70 * s
  BY PointsOfRequired
<1>6. a \in 0 .. 211 /\ b \in 0 .. 90 /\ d \in Int /\ d <= 0
  BY PointsOfPath, PointsOfFields, PointsAgainst
<1>7. e.hits # {} /\ Lacking(e, config) # {} => d <= -55
  BY PointsAgainst
<1>8. Plain(e) => a >= 160 /\ b = 90 /\ d = 0
  <2>1. e.simple /\ e.last = "login" /\ "login" \in e.words => a >= 160
    BY PointsOfPath
  <2>2. {"username", "password"} \subseteq e.fields => b = 90
    BY PointsOfFields
  <2>3. e.last = "login" /\ e.hits = {} => d = 0
    BY PointsAgainst
  <2> QED
    BY <2>1, <2>2, <2>3 DEF Plain
<1> HIDE DEF a, b, c, d, m, n, s
<1>9. c <= 30 * m /\ (n >= 1 => c <= 30 * m - 75) /\ (n = 0 /\ s = 0 => c = 30 * m) /\ c \in Int
  BY <1>2, <1>5
<1>10. Score(e, config) \in Int /\ Score(e, config) <= 1000
  BY <1>1, <1>2, <1>6, <1>9
<1>11. e.hits # {} /\ Lacking(e, config) # {} => Score(e, config) <= 171 + 30 * m
  <2>1. SUFFICES ASSUME d <= -55, c <= 30 * m - 75
                 PROVE  a + b + c + d <= 171 + 30 * m
    BY <1>1, <1>3, <1>7, <1>9
  <2> QED
    BY <1>2, <1>6, <1>9, <2>1
<1>12. Plain(e) /\ Lacking(e, config) = {} => Score(e, config) >= 250 + 30 * m
  <2>1. SUFFICES ASSUME a >= 160, b = 90, d = 0, c = 30 * m
                 PROVE  a + b + c + d >= 250 + 30 * m
    BY <1>1, <1>4, <1>8, <1>9
  <2> QED
    BY <1>2, <1>6, <2>1
<1> QED
  BY <1>10, <1>11, <1>12 DEF m

(* Whoever beats a candidate is nearer to the top.                         *)
LEMMA BeatingIsNearer ==
  ASSUME NEW x \in Endpoint, NEW y \in Endpoint, NEW config, config.body = NoBody, Beats(x, y, config)
  PROVE  Distance(x, config) < Distance(y, config)
<1> DEFINE sx == Score(x, config)
           sy == Score(y, config)
           nx == Cardinality(Lacking(x, config))
           ny == Cardinality(Lacking(y, config))
           hx == Cardinality(x.hits)
           hy == Cardinality(y.hits)
<1>1. sx \in Int /\ sy \in Int /\ nx \in 0 .. 8 /\ ny \in 0 .. 8 /\ hx \in 0 .. 6 /\ hy \in 0 .. 6
  <2>1. sx \in Int /\ sy \in Int
    BY ScoreBounds
  <2> QED
    BY <2>1, EndpointSizes
<1>2. Before(<< -sx, nx, hx >>, << -sy, ny, hy >>)
  BY DEF Beats, Rank
<1>3. /\ Distance(x, config) = 100 * (1000 - sx) + 10 * nx + hx
      /\ Distance(y, config) = 100 * (1000 - sy) + 10 * ny + hy
  BY DEF Distance
<1> HIDE DEF sx, sy, nx, ny, hx, hy
<1>4. \/ -sx < -sy
      \/ -sx = -sy /\ nx < ny
      \/ -sx = -sy /\ nx = ny /\ hx < hy
  <2>0. DOMAIN << -sx, nx, hx >> = 1 .. 3
    OBVIOUS
  <2>1. PICK k \in 1 .. 3 : /\ << -sx, nx, hx >>[k] < << -sy, ny, hy >>[k]
                            /\ \A j \in 1 .. k - 1 : << -sx, nx, hx >>[j] = << -sy, ny, hy >>[j]
    BY <1>2, <2>0 DEF Before
  <2>2. CASE k = 1
    BY <2>1, <2>2
  <2>3. CASE k = 2
    <3>1. 1 \in 1 .. k - 1
      BY <2>3
    <3> QED
      BY <2>1, <2>3, <3>1
  <2>4. CASE k = 3
    <3>1. 1 \in 1 .. k - 1 /\ 2 \in 1 .. k - 1
      BY <2>4
    <3> QED
      BY <2>1, <2>4, <3>1
  <2> QED
    BY <2>2, <2>3, <2>4
<1> QED
  BY <1>1, <1>3, <1>4

LEMMA DistanceIsNatural ==
  ASSUME NEW e \in Endpoint, NEW config, config.body = NoBody
  PROVE  Distance(e, config) \in Nat
<1> DEFINE s == Score(e, config)
           n == Cardinality(Lacking(e, config))
           h == Cardinality(e.hits)
<1>1. s \in Int /\ s <= 1000
  BY ScoreBounds
<1>2. n \in 0 .. 8 /\ h \in 0 .. 6
  BY EndpointSizes
<1>3. Distance(e, config) = 100 * (1000 - s) + 10 * n + h
  BY DEF Distance
<1> HIDE DEF s, n, h
<1> QED
  BY <1>1, <1>2, <1>3

(* Of some candidates one is beaten by none.                               *)
LEMMA OneIsUnbeaten ==
  ASSUME NEW endpoints \in Seq(Endpoint), NEW config, config.body = NoBody,
         NEW C, C \subseteq DOMAIN endpoints, C # {}
  PROVE  \E i \in C : \A j \in C : ~Beats(endpoints[j], endpoints[i], config)
<1> DEFINE T == {Distance(endpoints[i], config) : i \in C}
<1>1. \A i \in C : endpoints[i] \in Endpoint
  OBVIOUS
<1>2. T \subseteq Nat /\ T # {}
  BY <1>1, DistanceIsNatural
<1>3. PICK x \in T : \A y \in T : x <= y
  BY <1>2, Least
<1>4. PICK i \in C : x = Distance(endpoints[i], config)
  BY <1>3
<1>5. ASSUME NEW j \in C, Beats(endpoints[j], endpoints[i], config)
      PROVE  FALSE
  <2>1. Distance(endpoints[j], config) < Distance(endpoints[i], config)
    BY <1>1, <1>5, BeatingIsNearer
  <2>2. Distance(endpoints[i], config) <= Distance(endpoints[j], config)
    BY <1>3, <1>4
  <2>3. Distance(endpoints[i], config) \in Nat /\ Distance(endpoints[j], config) \in Nat
    BY <1>1, DistanceIsNatural
  <2> QED
    BY <2>1, <2>2, <2>3
<1> QED
  BY <1>5

(* The inferred login is a candidate that none beats, if there is one.     *)
LEMMA InferredIsUnbeaten ==
  ASSUME NEW endpoints \in Seq(Endpoint), NEW config, config.body = NoBody
  PROVE  LET candidates == {i \in DOMAIN endpoints : ~endpoints[i].read /\ endpoints[i].words # {}}
             c == Inferred(endpoints, config)
         IN  IF candidates = {} THEN c = 0
             ELSE c \in candidates /\ \A j \in candidates : ~Beats(endpoints[j], endpoints[c], config)
<1> DEFINE candidates == {i \in DOMAIN endpoints : ~endpoints[i].read /\ endpoints[i].words # {}}
           best == {i \in candidates : \A j \in candidates : ~Beats(endpoints[j], endpoints[i], config)}
<1>1. Inferred(endpoints, config) = IF candidates = {} THEN 0 ELSE First(best)
  BY DEF Inferred
<1>2. candidates \subseteq DOMAIN endpoints /\ best \subseteq candidates
  OBVIOUS
<1>3. candidates \subseteq Nat
  BY <1>2
<1>4. ASSUME candidates # {}
      PROVE  First(best) \in best
  <2>1. \E i \in candidates : \A j \in candidates : ~Beats(endpoints[j], endpoints[i], config)
    <3> HIDE DEF candidates
    <3> QED
      BY <1>2, <1>4, OneIsUnbeaten
  <2>2. best # {} /\ best \subseteq Nat
    BY <1>2, <1>3, <2>1
  <2> HIDE DEF best
  <2> QED
    BY <2>2, FirstIsOne
<1> QED
  BY <1>1, <1>4

(* The login is listed, or nothing is known of it.                         *)
LEMMA ChosenIsListed ==
  ASSUME NEW endpoints, Listed(endpoints), NEW config, config.body = NoBody
  PROVE  LET e == LoginEndpoint(endpoints, config)
         IN  e.required \subseteq e.fields /\ e.fields \subseteq Fields
<1>1. endpoints \in Seq(Endpoint)
  BY DEF Listed
<1>2. \A i \in DOMAIN endpoints :
        endpoints[i].required \subseteq endpoints[i].fields /\ endpoints[i].fields \subseteq Fields
  <2>1. \A x \in Endpoint : x.fields \subseteq Fields
    BY DEF Endpoint
  <2>2. \A i \in DOMAIN endpoints : endpoints[i] \in Endpoint
    BY <1>1
  <2> QED
    BY <2>1, <2>2 DEF Listed
<1>3. \A path : Unlisted(path).required = {} /\ Unlisted(path).fields = {}
  BY DEF Unlisted
<1> DEFINE named == {i \in DOMAIN endpoints : endpoints[i].path = config.login}
           e == LoginEndpoint(endpoints, config)
<1>4. CASE named # {}
  <2>1. named \subseteq Nat
    BY <1>1
  <2>2. First(named) \in named
    BY <1>4, <2>1, FirstIsOne
  <2>3. e = endpoints[First(named)]
    BY <1>4 DEF LoginEndpoint
  <2> QED
    BY <1>2, <2>2, <2>3
<1>5. CASE named = {} /\ config.login # None
  <2>1. e = Unlisted(config.login)
    BY <1>5 DEF LoginEndpoint
  <2> QED
    BY <1>3, <2>1
<1>6. CASE named = {} /\ config.login = None
  <2>1. e = At(endpoints, Inferred(endpoints, config))
    BY <1>6 DEF LoginEndpoint
  <2>2. Inferred(endpoints, config) \in DOMAIN endpoints \/ Inferred(endpoints, config) = 0
    BY <1>1, InferredIsUnbeaten
  <2>3. e \in {Unlisted(None)} \cup {endpoints[i] : i \in DOMAIN endpoints}
    BY <2>1, <2>2 DEF At
  <2> QED
    BY <1>2, <1>3, <2>3
<1> QED
  BY <1>4, <1>5, <1>6

(* The advice of a refusal, followed, completes the body.                  *)
LEMMA AdviceHelps ==
  ASSUME IInv, DocInv
  PROVE  GuidanceWorks
<1> SUFFICES ASSUME NEW r \in Requests, req[r].pc = "login"
             PROVE  LET p == req[r].p
                        config == LoginConfig(p, req[r].text)
                        e == LoginEndpoint(req[r].endpoints, config)
                        asked == MissingInputs(MissingFields(LoginBody(config, e), e))
                        given == [config EXCEPT !.creds =
                                    [k \in Kinds |-> IF k \in asked THEN "new" ELSE @[k]]]
                    IN  p.body = NoBody /\ asked \subseteq Kinds
                          => MissingFields(LoginBody(given, e), e) = {}
  BY DEF GuidanceWorks
<1> DEFINE p == req[r].p
           config == LoginConfig(p, req[r].text)
           e == LoginEndpoint(req[r].endpoints, config)
           asked == MissingInputs(MissingFields(LoginBody(config, e), e))
           news == [k \in Kinds |-> IF k \in asked THEN "new" ELSE config.creds[k]]
           given == [config EXCEPT !.creds = news]
<1>1. Listed(req[r].endpoints)
  BY DEF DocInv
<1>2. config.body = p.body /\ DOMAIN config = {"creds", "body", "login", "byPath", "header"}
  BY DEF LoginConfig
<1>3. given.creds = news /\ given.body = config.body
  <2> HIDE DEF config, news
  <2> QED
    BY <1>2
<1>4. ASSUME p.body = NoBody, asked \subseteq Kinds
      PROVE  MissingFields(LoginBody(given, e), e) = {}
  <2>1. e.required \subseteq e.fields /\ e.fields \subseteq Fields
    BY <1>1, <1>2, <1>4, ChosenIsListed
  <2> HIDE DEF config, e, given
  <2> QED
    BY <1>2, <1>3, <1>4, <2>1, GuidanceHelps
<1> QED
  BY <1>4

(* Beaten by no plain login, the chosen one is no special one that lacks a field. *)
LEMMA PlainIsChosen ==
  ASSUME DocInv
  PROVE  PlainLoginWins
<1> SUFFICES ASSUME NEW r \in Requests, req[r].pc = "login",
                    req[r].p.login = None, req[r].p.body = NoBody
             PROVE  LET endpoints == req[r].endpoints
                        config    == LoginConfig(req[r].p, req[r].text)
                        chosen    == LoginEndpoint(endpoints, config)
                    IN  (\E i \in DOMAIN endpoints :
                           /\ ~endpoints[i].read /\ Plain(endpoints[i])
                           /\ Lacking(endpoints[i], config) = {}
                           /\ Cardinality(chosen.required) <= Cardinality(endpoints[i].required) + 2)
                          => chosen.hits = {} \/ Lacking(chosen, config) = {}
  BY DEF PlainLoginWins, Plain
<1> DEFINE endpoints == req[r].endpoints
           config    == LoginConfig(req[r].p, req[r].text)
           chosen    == LoginEndpoint(endpoints, config)
           candidates == {i \in DOMAIN endpoints : ~endpoints[i].read /\ endpoints[i].words # {}}
           c == Inferred(endpoints, config)
<1>1. Listed(endpoints) /\ endpoints \in Seq(Endpoint)
  BY DEF DocInv, Listed
<1>2. config.body = NoBody /\ config.login = None
  BY DEF LoginConfig
<1>3. SUFFICES ASSUME NEW i \in DOMAIN endpoints, ~endpoints[i].read, Plain(endpoints[i]),
                      Lacking(endpoints[i], config) = {},
                      Cardinality(chosen.required) <= Cardinality(endpoints[i].required) + 2,
                      chosen.hits # {}, Lacking(chosen, config) # {}
               PROVE  FALSE
  OBVIOUS
<1> HIDE DEF config
<1>4. i \in candidates
  BY <1>3 DEF Plain
<1>5. c \in candidates /\ ~Beats(endpoints[i], endpoints[c], config)
  BY <1>1, <1>2, <1>4, InferredIsUnbeaten
<1>6. chosen = endpoints[c]
  <2>1. {j \in DOMAIN endpoints : endpoints[j].path = config.login} = {}
    BY <1>1, <1>2 DEF Listed
  <2>2. c \in Nat /\ c # 0
    BY <1>1, <1>5
  <2> QED
    BY <1>2, <2>1, <2>2 DEF LoginEndpoint, At
<1> DEFINE sx == Score(endpoints[i], config)
           sy == Score(chosen, config)
           mx == Cardinality(endpoints[i].required)
           my == Cardinality(chosen.required)
<1>7. endpoints[i] \in Endpoint /\ chosen \in Endpoint
  BY <1>1, <1>5, <1>6
<1>8. sx \in Int /\ sy \in Int /\ sx >= 250 + 30 * mx /\ sy <= 171 + 30 * my
  BY <1>2, <1>3, <1>7, ScoreBounds
<1>9. mx \in 0 .. 8 /\ my \in 0 .. 8 /\ my <= mx + 2
  BY <1>3, <1>7, EndpointSizes
<1>10. Beats(endpoints[i], chosen, config)
  <2> DEFINE x == Rank(endpoints[i], config)
             y == Rank(chosen, config)
  <2>1. DOMAIN x = 1 .. 3 /\ x[1] = -sx /\ y[1] = -sy
    BY DEF Rank
  <2> HIDE DEF sx, sy, mx, my, x, y
  <2>2. x[1] < y[1]
    BY <1>8, <1>9, <2>1
  <2>3. Before(x, y)
    BY <2>1, <2>2 DEF Before
  <2> QED
    BY <2>3 DEF Beats, x, y
<1> QED
  BY <1>5, <1>6, <1>10

-----------------------------------------------------------------------------
(* The automatic login picks a plain endpoint it has everything for before a special one it lacks *)
(* a field for, its advice completes the body, and it sends no captcha typed earlier: for every   *)
(* set of payloads and documents (api_auth.py:278, 907; auth_preflight_service.py:763).           *)
THEOREM LoginsRight == Spec => []LoginsAreRight
<1>1. Init => IInv /\ DocInv
  <2>1. Init => DocInv
    BY DocsAssumption DEF Init, DocInv, Idle
  <2> QED
    BY <2>1, InitHolds
<1>2. IInv /\ DocInv /\ [Next]_vars => (IInv /\ DocInv)'
  BY StepHolds, DocNext
<1>3. IInv /\ DocInv => LoginsAreRight
  BY PlainIsChosen, AdviceHelps, CaptchasAreFetched DEF LoginsAreRight
<1> QED
  BY <1>1, <1>2, <1>3, PTL DEF Spec
-----------------------------------------------------------------------------
(* The types.  The third invariant: the headers of a decision are headers, *)
(* its requests are one to three, and for each result that was stored one  *)
(* request was opened that is over.                                        *)

Headers == [HeaderNames -> Carried]

\* A decision of AuthPreflight.
PlanTyped(plan) ==
  /\ plan.headers \in Headers /\ plan.strategy # None
  /\ plan.step # "done" => Len(plan.requests) \in 1 .. 3

RequestTyped(q) ==
  /\ q.pc = "try" => /\ q.headers \in Headers /\ q.strategy # None
                     /\ Len(q.requests) \in 1 .. 3
  /\ q.pc = "finish" => q.result.headers \in Headers /\ q.result.strategy # None

Open == {r \in Requests : req[r].pc # "idle"}

TInv ==
  /\ clock \in 0 .. MaxTime /\ opened \in 0 .. MaxRequests
  /\ IsFiniteSet(Open) /\ issued \in Nat /\ issued + Cardinality(Open) <= opened
  /\ \A i \in DOMAIN cache :
       /\ i \in 1 .. issued
       /\ cache[i].headers \in Headers /\ cache[i].strategy # None
  /\ \A r \in Requests : RequestTyped(req[r])
  /\ \A x \in runs : x.strategy # None

(* At most three requests are made of the endpoints of a document.         *)
LEMMA CandidatesAre ==
  ASSUME NEW endpoints \in Seq(Endpoint), NEW protected
  PROVE  /\ Len(Candidates(endpoints, protected)) \in 0 .. 3
         /\ Candidates(endpoints, protected) # << >> => Len(Candidates(endpoints, protected)) # 0
<1> DEFINE I == {i \in DOMAIN endpoints : endpoints[i].read /\ (protected => endpoints[i].auth)}
           n == Cardinality(I)
           picked == Picked(endpoints, I)
<1>1. n \in Nat
  <2>1. I \subseteq 1 .. Len(endpoints) /\ Len(endpoints) \in Nat
    OBVIOUS
  <2>2. IsFiniteSet(1 .. Len(endpoints))
    BY <2>1, FS_Interval
  <2> HIDE DEF I
  <2> QED
    BY <2>1, <2>2, FS_Subset, FS_CardinalityType
<1> DEFINE at == [k \in 1 .. n |-> CHOOSE i \in I : Cardinality({j \in I : j <= i}) = k]
           any == {endpoints[at[k]] : k \in 1 .. n}
<1>2. picked = [k \in 1 .. n |-> endpoints[at[k]]]
  BY DEF Picked
<1> HIDE DEF at, n, I
<1>3. picked \in Seq(any) /\ Len(picked) = n
  <2> HIDE DEF picked
  <2>1. picked \in [1 .. n -> any]
    BY <1>2
  <2>2. DOMAIN picked = 1 .. n
    BY <1>2
  <2> HIDE DEF any
  <2>3. picked \in Seq(any)
    BY <1>1, <2>1
  <2>4. Len(picked) = n
    BY <1>1, <2>2, <2>3
  <2> QED
    BY <2>3, <2>4
<1> USE DEF I
<1>4. Candidates(endpoints, protected) = UpTo(3, picked)
  BY DEF Candidates
<1> HIDE DEF picked, I, any
<1>5. UpTo(3, picked) \in Seq(any) /\ Len(UpTo(3, picked)) \in 0 .. 3
  BY <1>1, <1>3 DEF UpTo
<1>6. UpTo(3, picked) # << >> => Len(UpTo(3, picked)) # 0
  BY <1>5
<1> QED
  BY <1>4, <1>5, <1>6

LEMMA GivenAreHeaders ==
  ASSUME NEW p \in Payloads
  PROVE  GivenHeaders(p) \in Headers /\ NoHeaders \in Headers
<1>1. p.token \in Carried /\ p.env \in Carried
  BY DEF Carried
<1>2. None \in Carried
  BY DEF Carried
<1>3. NoHeaders \in Headers
  BY <1>2 DEF NoHeaders, Headers
<1> DEFINE all == [NoHeaders EXCEPT !["Authorization"] = p.token, !["X-Env"] = p.env]
<1>4. all \in Headers
  BY <1>1, <1>3 DEF Headers
<1>5. GivenHeaders(p) = all \/ GivenHeaders(p) = WithoutAuth(all)
  BY DEF GivenHeaders
<1> HIDE DEF all
<1>6. WithoutAuth(all) \in Headers
  BY <1>2, <1>4 DEF WithoutAuth, Headers
<1> QED
  BY <1>3, <1>4, <1>5, <1>6

LEMMA RefusalIsTyped ==
  ASSUME NEW strategy, NEW missing, strategy # None
  PROVE  PlanTyped(Refuse(strategy, missing))
<1>1. NoHeaders \in Headers
  BY DEF NoHeaders, Headers, Carried
<1> QED
  BY <1>1 DEF PlanTyped, Refuse

LEMMA PlansAreTyped ==
  ASSUME NEW p \in Payloads, NEW endpoints \in Seq(Endpoint), NEW vision, NEW resolution
  PROVE  /\ PlanTyped(UiPreflight(p, vision))
         /\ PlanTyped(Release("no_auth_declared", NoHeaders))
         /\ PlanTyped(NoAuthPreflight(p, endpoints, Page))
         /\ PlanTyped(ManualPreflight(p, endpoints, Page))
         /\ PlanTyped(LoggedIn(p, endpoints, resolution, "got"))
<1>1. GivenHeaders(p) \in Headers /\ NoHeaders \in Headers
  BY GivenAreHeaders
<1>2. \A strategy, missing : strategy # None => PlanTyped(Refuse(strategy, missing))
  BY RefusalIsTyped
<1>3. \A strategy, headers : strategy # None /\ headers \in Headers => PlanTyped(Release(strategy, headers))
  BY DEF Release, PlanTyped
<1>4. \A strategy, headers, requests :
        strategy # None /\ headers \in Headers /\ Len(requests) \in 1 .. 3 =>
          PlanTyped(Prove(strategy, headers, requests))
  BY DEF Prove, PlanTyped
<1>5. /\ "ui" # None /\ "no_auth_declared" # None /\ "none_confirmed" # None
      /\ "manual_header" # None /\ "auto_login" # None
  BY DEF None
<1>6. Len(Direct(p, Page)) \in 0 .. 1 /\ (Direct(p, Page) # << >> => Len(Direct(p, Page)) # 0)
  BY DEF Direct
<1> DEFINE some(s) == s = << >> \/ Len(s) \in 1 .. 3
<1>7. some(Candidates(endpoints, TRUE)) /\ some(Candidates(endpoints, FALSE)) /\ some(Direct(p, Page))
  <2>1. \A protected : LET s == Candidates(endpoints, protected)
                       IN  Len(s) \in 0 .. 3 /\ (s # << >> => Len(s) # 0)
    BY CandidatesAre
  <2>2. some(Direct(p, Page))
    BY <1>6
  <2>3. \A protected : some(Candidates(endpoints, protected))
    BY <2>1
  <2> QED
    BY <2>2, <2>3
<1>8. \A s, t : some(s) /\ some(t) => some(FirstOf(s, t))
  BY DEF FirstOf
<1>9. PlanTyped(UiPreflight(p, vision))
  BY <1>1, <1>2, <1>3, <1>5 DEF UiPreflight
<1>10. PlanTyped(NoAuthPreflight(p, endpoints, Page))
  <2> DEFINE requests == FirstOf(Candidates(endpoints, TRUE),
                                 FirstOf(Candidates(endpoints, FALSE), Direct(p, Page)))
  <2>1. some(requests)
    BY <1>7, <1>8
  <2>2. NoAuthPreflight(p, endpoints, Page)
          = IF requests = << >> THEN Refuse("none_confirmed", {"read_only_endpoint"})
            ELSE Prove("none_confirmed", NoHeaders, requests)
    BY DEF NoAuthPreflight
  <2> HIDE DEF requests
  <2> QED
    BY <1>1, <1>2, <1>4, <1>5, <2>1, <2>2
<1>11. PlanTyped(ManualPreflight(p, endpoints, Page))
  <2> DEFINE requests == FirstOf(Candidates(endpoints, TRUE), Direct(p, Page))
  <2>1. some(requests)
    BY <1>7, <1>8
  <2>2. \/ \E missing : ManualPreflight(p, endpoints, Page) = Refuse("manual_header", missing)
        \/ /\ requests # << >>
           /\ ManualPreflight(p, endpoints, Page) = Prove("manual_header", GivenHeaders(p), requests)
    BY DEF ManualPreflight
  <2> HIDE DEF requests
  <2> QED
    BY <1>1, <1>2, <1>4, <1>5, <2>1, <2>2
<1>12. PlanTyped(LoggedIn(p, endpoints, resolution, "got"))
  <2> DEFINE headers == [GivenHeaders(p) EXCEPT ![resolution.header] = "got"]
             requests == Candidates(endpoints, TRUE)
  <2>1. headers \in Headers
    BY <1>1 DEF Headers, Carried
  <2>2. \/ \E missing : LoggedIn(p, endpoints, resolution, "got") = Refuse("auto_login", missing)
        \/ /\ requests # << >>
           /\ LoggedIn(p, endpoints, resolution, "got") = Prove("auto_login", headers, requests)
    BY DEF LoggedIn
  <2>3. some(requests)
    BY <1>7
  <2> HIDE DEF requests, headers
  <2> QED
    BY <1>2, <1>4, <1>5, <2>1, <2>2, <2>3
<1> QED
  BY <1>1, <1>3, <1>5, <1>9, <1>10, <1>11, <1>12

LEMMA DecidedIsTyped ==
  ASSUME NEW q, NEW plan, PlanTyped(plan)
  PROVE  RequestTyped(Decided(q, plan))
<1>1. CASE plan.step = "done"
  BY <1>1 DEF PlanTyped, RequestTyped, Decided, Result
<1>2. CASE plan.step # "done"
  BY <1>2 DEF PlanTyped, RequestTyped, Decided
<1> QED
  BY <1>1, <1>2

\* A request moves on: those that are open are counted.
LEMMA OpenAre ==
  ASSUME IInv, TInv, NEW r \in Requests, NEW n, req' = [req EXCEPT ![r] = n]
  PROVE  /\ IsFiniteSet(Open') /\ Cardinality(Open) \in Nat /\ Cardinality(Open') \in Nat
         /\ Cardinality(Open') <= Cardinality(Open) + 1
         /\ req[r].pc # "idle" \/ n.pc = "idle" => Cardinality(Open') <= Cardinality(Open)
         /\ req[r].pc # "idle" /\ n.pc = "idle" => Cardinality(Open') + 1 = Cardinality(Open)
<1>1. \A x \in Requests : req'[x] = IF x = r THEN n ELSE req[x]
  BY DEF IInv
<1>2. /\ n.pc = "idle" => Open' = Open \ {r}
      /\ n.pc # "idle" => Open' = Open \cup {r}
      /\ r \in Open <=> req[r].pc # "idle"
  BY <1>1 DEF Open
<1>3. IsFiniteSet(Open)
  BY DEF TInv
<1> DEFINE more == Open \cup {r}
           less == Open \ {r}
           size == Cardinality(Open)
<1>4. IsFiniteSet(more) /\ Cardinality(more) = IF r \in Open THEN size ELSE size + 1
  BY <1>3, FS_AddElement, Zenon
<1>5. IsFiniteSet(less) /\ Cardinality(less) = IF r \in Open THEN size - 1 ELSE size
  BY <1>3, FS_RemoveElement, Zenon
<1>6. size \in Nat /\ Cardinality(more) \in Nat /\ Cardinality(less) \in Nat
  BY <1>3, <1>4, <1>5, FS_CardinalityType
<1>7. Open' = IF n.pc = "idle" THEN less ELSE more
  BY <1>2
<1> HIDE DEF more, less, size, Open
<1>8. IsFiniteSet(Open') /\ Cardinality(Open') = Cardinality(IF n.pc = "idle" THEN less ELSE more)
  BY <1>4, <1>5, <1>7
<1>9. Cardinality(Open') = IF n.pc = "idle" THEN Cardinality(less) ELSE Cardinality(more)
  BY <1>8
<1>10. /\ size \in Nat /\ Cardinality(Open') \in Nat /\ Cardinality(Open') <= size + 1
       /\ req[r].pc # "idle" \/ n.pc = "idle" => Cardinality(Open') <= size
       /\ req[r].pc # "idle" /\ n.pc = "idle" => Cardinality(Open') + 1 = size
  BY <1>2, <1>4, <1>5, <1>6, <1>9
<1> QED
  BY <1>8, <1>10 DEF size

LEMMA MoveTyped ==
  ASSUME IInv, TInv, NEW r \in Requests, NEW n, req' = [req EXCEPT ![r] = n], RequestTyped(n)
  PROVE  \A x \in Requests : RequestTyped(req'[x])
<1>1. \A x \in Requests : req'[x] = IF x = r THEN n ELSE req[x]
  BY DEF IInv
<1> QED
  BY <1>1 DEF TInv

\* The step of a request that is open and stores nothing.
LEMMA OwnStep ==
  ASSUME IInv, TInv, NEW r \in Requests, NEW n, req' = [req EXCEPT ![r] = n],
         req[r].pc # "idle", RequestTyped(n), UNCHANGED << clock, cache, issued, runs, opened >>
  PROVE  TInv'
<1>1. /\ IsFiniteSet(Open') /\ Cardinality(Open) \in Nat /\ Cardinality(Open') \in Nat
      /\ Cardinality(Open') <= Cardinality(Open)
  BY OpenAre
<1>2. \A x \in Requests : RequestTyped(req'[x])
  BY MoveTyped
<1>3. issued \in Nat /\ opened \in Nat /\ issued + Cardinality(Open) <= opened
  BY DEF TInv
<1>4. issued + Cardinality(Open') <= opened
  BY <1>1, <1>3
<1> QED
  BY <1>1, <1>2, <1>4 DEF TInv, Headers

LEMMA ProfileTyped ==
  ASSUME IInv, TInv, NEW r \in Requests, NEW op, NEW p \in Payloads, NEW id, NEW served \in BOOLEAN,
         Profile(r, op, p, id, served)
  PROVE  TInv'
<1>1. /\ opened < MaxRequests /\ opened' = opened + 1 /\ req[r].pc = "idle"
      /\ clock' = clock /\ issued' = issued
  BY DEF Profile
<1>2. PICK n : req' = [req EXCEPT ![r] = n] /\ n.pc \in {"idle", "load"}
  BY DEF Profile, Idle
<1>3. /\ IsFiniteSet(Open') /\ Cardinality(Open) \in Nat /\ Cardinality(Open') \in Nat
      /\ Cardinality(Open') <= Cardinality(Open) + 1
  BY <1>2, OpenAre
<1>4. \A x \in Requests : RequestTyped(req'[x])
  <2>1. RequestTyped(n)
    BY <1>2 DEF RequestTyped
  <2> QED
    BY <1>2, <2>1, MoveTyped
<1>5. issued' + Cardinality(Open') <= opened' /\ opened' \in 0 .. MaxRequests
  <2>1. issued \in Nat /\ opened \in Nat /\ MaxRequests \in Nat /\ issued + Cardinality(Open) <= opened
    BY BoundsAssumption DEF TInv
  <2> QED
    BY <1>1, <1>3, <2>1
<1>6. \A i \in DOMAIN cache' : i \in DOMAIN cache /\ cache'[i] = cache[i]
  BY DEF Profile
<1>7. \A x \in runs' : x \in runs \/ \E target : id \in DOMAIN cache /\ x = Started(p, cache[id], target)
  BY DEF Profile
<1>8. \A x \in runs' : x.strategy # None
  <2>1. \A x \in runs : x.strategy # None
    BY DEF TInv
  <2>2. id \in DOMAIN cache => \A target : Started(p, cache[id], target).strategy # None
    BY DEF Started, TInv
  <2> QED
    BY <1>7, <2>1, <2>2
<1> QED
  BY <1>1, <1>3, <1>4, <1>5, <1>6, <1>8 DEF TInv, Headers

LEMMA LoadTyped ==
  ASSUME IInv, DocInv, TInv, NEW r \in Requests, Load(r)
  PROVE  TInv'
<1> DEFINE q == req[r]
           p == q.p
<1>1. q.pc = "load" /\ p \in Payloads /\ UNCHANGED << clock, cache, issued, runs, opened >>
  BY DEF Load, Quiet, IInv, GoodRequest
<1>2. PICK served, n :
        /\ req' = [req EXCEPT ![r] = n]
        /\ LET d == Document(p, served)
           IN  \/ n = Decided(q, UiPreflight(p, world.vision))
               \/ n = Decided(q, Release("no_auth_declared", NoHeaders))
               \/ n = Decided(q, NoAuthPreflight(p, d.endpoints, Page))
               \/ n = Decided(q, ManualPreflight(p, d.endpoints, Page))
               \/ n = Decided(q, Refuse("auto_login", {"username", "password"}))
               \/ n = LogIn(q, d.endpoints, d.captcha)
  BY DEF Load
<1> DEFINE endpoints == Document(p, served).endpoints
<1>3. endpoints \in Seq(Endpoint)
  BY DocumentIsListed DEF DocInv, Listed
<1>4. PlanTyped(Refuse("auto_login", {"username", "password"}))
  BY RefusalIsTyped DEF None
<1>5. \A captcha : RequestTyped(LogIn(q, endpoints, captcha))
  BY DEF LogIn, RequestTyped
<1>6. RequestTyped(n)
  <2>1. \A plan : PlanTyped(plan) => RequestTyped(Decided(q, plan))
    BY DecidedIsTyped
  <2>2. /\ PlanTyped(UiPreflight(p, world.vision))
        /\ PlanTyped(Release("no_auth_declared", NoHeaders))
        /\ PlanTyped(NoAuthPreflight(p, endpoints, Page))
        /\ PlanTyped(ManualPreflight(p, endpoints, Page))
    BY <1>1, <1>3, PlansAreTyped
  <2> QED
    BY <1>2, <1>4, <1>5, <2>1, <2>2
<1> QED
  BY <1>1, <1>2, <1>6, OwnStep

LEMMA LoginTyped ==
  ASSUME IInv, DocInv, TInv, NEW r \in Requests, FetchCaptcha(r) \/ RefuseLogin(r) \/ SendLogin(r)
  PROVE  TInv'
<1> DEFINE q == req[r]
<1>1. /\ q.pc \in {"captcha", "login"} /\ q.p \in Payloads /\ q.endpoints \in Seq(Endpoint)
      /\ UNCHANGED << clock, cache, issued, runs, opened >>
  BY DEF FetchCaptcha, RefuseLogin, SendLogin, Quiet, IInv, GoodRequest, DocInv, Listed
<1>2. \A missing : PlanTyped(Refuse("auto_login", missing))
  BY RefusalIsTyped DEF None
<1>3. \A plan : PlanTyped(plan) => RequestTyped(Decided(q, plan))
  BY DecidedIsTyped
<1>4. CASE FetchCaptcha(r)
  <2>1. PICK told \in {None, req[r].captcha} :
          req' = [req EXCEPT ![r] =
                      [req[r] EXCEPT !.pc = "login", !.text = IF world.up THEN told ELSE None]]
    BY <1>4 DEF FetchCaptcha
  <2> DEFINE n == [req[r] EXCEPT !.pc = "login", !.text = IF world.up THEN told ELSE None]
  <2>2. n.pc = "login"
    BY <1>4 DEF FetchCaptcha, IInv, GoodRequest
  <2>3. req' = [req EXCEPT ![r] = n]
    BY <2>1
  <2> HIDE DEF n
  <2>4. RequestTyped(n)
    BY <2>2 DEF RequestTyped
  <2> QED
    BY <1>1, <2>3, <2>4, OwnStep
<1>5. CASE RefuseLogin(r)
  <2>1. PICK missing : req' = [req EXCEPT ![r] = Decided(req[r], Refuse("auto_login", missing))]
    BY <1>5 DEF RefuseLogin
  <2> QED
    BY <1>1, <1>2, <1>3, <2>1, OwnStep
<1>6. CASE SendLogin(r)
  <2>1. PICK resolution :
          req' = [req EXCEPT ![r] =
            Decided(req[r], IF HasCredentials(q.p) THEN LoggedIn(q.p, q.endpoints, resolution, "got")
                            ELSE Refuse("auto_login", {"username", "password"}))]
    BY <1>6 DEF SendLogin
  <2>2. PlanTyped(LoggedIn(q.p, q.endpoints, resolution, "got"))
    BY <1>1, PlansAreTyped
  <2> QED
    BY <1>1, <1>2, <1>3, <2>1, <2>2, OwnStep
<1> QED
  BY <1>4, <1>5, <1>6

LEMMA ValidateTyped ==
  ASSUME IInv, TInv, NEW r \in Requests, Validate(r)
  PROVE  TInv'
<1> DEFINE q == req[r]
<1>1. PICK ok : req' = [req EXCEPT ![r] =
        [pc |-> "finish", op |-> q.op, p |-> q.p, target |-> q.target,
         result |-> Result(ok, q.strategy, q.headers)]]
  BY DEF Validate
<1> DEFINE n == [pc |-> "finish", op |-> q.op, p |-> q.p, target |-> q.target,
                 result |-> Result(ok, q.strategy, q.headers)]
<1>2. q.pc = "try" /\ RequestTyped(q) /\ UNCHANGED << clock, cache, issued, runs, opened >>
  BY DEF Validate, TInv
<1>3. n.pc = "finish" /\ n.result.headers = q.headers /\ n.result.strategy = q.strategy
  BY DEF Result
<1>4. req' = [req EXCEPT ![r] = n]
  BY <1>1
<1> HIDE DEF n
<1>5. RequestTyped(n)
  BY <1>2, <1>3 DEF RequestTyped
<1> QED
  BY <1>2, <1>4, <1>5, OwnStep

(* One request is over for each result that is stored.                     *)
LEMMA FinishTyped ==
  ASSUME IInv, TInv, NEW r \in Requests, Finish(r)
  PROVE  TInv'
<1> DEFINE q     == req[r]
           entry == [fingerprint |-> Fingerprint(q.p), at |-> clock, ok |-> q.result.ok,
                     strategy |-> q.result.strategy, headers |-> q.result.headers]
<1>1. /\ q.pc = "finish" /\ clock' = clock /\ opened' = opened /\ issued' = issued + 1
      /\ cache' = [i \in DOMAIN cache \cup {issued + 1} |-> IF i = issued + 1 THEN entry ELSE cache[i]]
      /\ runs' = IF q.op = "create" /\ q.result.ok
                 THEN runs \cup {Started(q.p, entry, q.target)} ELSE runs
      /\ req' = [req EXCEPT ![r] = Idle]
  BY DEF Finish
<1>2. Idle.pc = "idle" /\ RequestTyped(Idle)
  BY DEF Idle, RequestTyped
<1>3. RequestTyped(q)
  BY DEF TInv
<1>4. entry.headers \in Headers /\ entry.strategy # None
  BY <1>1, <1>3 DEF RequestTyped
<1> HIDE DEF entry
<1>5. /\ IsFiniteSet(Open') /\ Cardinality(Open) \in Nat /\ Cardinality(Open') \in Nat
      /\ Cardinality(Open') + 1 = Cardinality(Open)
  BY <1>1, <1>2, OpenAre
<1>6. \A x \in Requests : RequestTyped(req'[x])
  BY <1>1, <1>2, MoveTyped
<1>7. issued \in Nat /\ opened \in Nat /\ issued + Cardinality(Open) <= opened
  BY DEF TInv
<1>8. issued' \in Nat /\ issued' + Cardinality(Open') <= opened'
  BY <1>1, <1>5, <1>7
<1>9. ASSUME NEW i \in DOMAIN cache'
      PROVE  i \in 1 .. issued' /\ cache'[i].headers \in Headers /\ cache'[i].strategy # None
  <2>1. CASE i = issued + 1
    BY <1>1, <1>4, <1>7, <2>1
  <2>2. CASE i # issued + 1
    <3>1. i \in DOMAIN cache /\ cache'[i] = cache[i]
      BY <1>1, <2>2
    <3>2. i \in 1 .. issued /\ cache[i].headers \in Headers /\ cache[i].strategy # None
      BY <3>1 DEF TInv
    <3> QED
      BY <1>1, <1>7, <3>1, <3>2
  <2> QED
    BY <2>1, <2>2
<1>10. \A x \in runs' : x.strategy # None
  BY <1>1, <1>4 DEF Started, TInv
<1> QED
  BY <1>1, <1>5, <1>6, <1>8, <1>9, <1>10 DEF TInv, Headers

LEMMA StepTyped ==
  ASSUME IInv, DocInv, TInv, [Next]_vars
  PROVE  TInv'
<1>1. CASE ChangeWorld \/ UNCHANGED vars
  BY <1>1 DEF ChangeWorld, vars, TInv, Open, Headers
<1>2. CASE Tick
  <2>1. /\ clock < MaxTime /\ clock' = clock + 1
        /\ UNCHANGED << cache, issued, req, runs, opened >>
    BY <1>2 DEF Tick
  <2>2. clock' \in 0 .. MaxTime
    BY <2>1, BoundsAssumption DEF TInv
  <2> QED
    BY <2>1, <2>2 DEF TInv, Open, Headers
<1>3. CASE Restart
  <2>1. /\ DOMAIN cache' = {} /\ \A r \in Requests : req'[r] = Idle
        /\ UNCHANGED << clock, issued, runs, opened >>
    BY <1>3 DEF Restart
  <2>2. Open' = {} /\ Cardinality({}) = 0 /\ IsFiniteSet({})
    BY <2>1, FS_EmptySet DEF Open, Idle
  <2>3. RequestTyped(Idle)
    BY DEF RequestTyped, Idle
  <2>4. issued' + Cardinality(Open') <= opened'
    <3>1. issued \in Nat /\ opened \in Nat /\ Cardinality(Open) \in Nat /\ issued + Cardinality(Open) <= opened
      BY FS_CardinalityType DEF TInv
    <3> QED
      BY <2>1, <2>2, <3>1
  <2>5. IsFiniteSet(Open')
    BY <2>2
  <2> QED
    BY <2>1, <2>3, <2>4, <2>5 DEF TInv, Headers
<1>4. ASSUME NEW r \in Requests, Preflight(r) \/ Create(r)
      PROVE  TInv'
  BY <1>4, ProfileTyped DEF Preflight, Create
<1> QED
  BY <1>1, <1>2, <1>3, <1>4, LoadTyped, LoginTyped, ValidateTyped, FinishTyped DEF Next

\* Requests, cache and runs are well formed, whatever fails and restarts: a stored result was given
\* its number by a request that is over, carries only headers the user gave or a login acquired, and
\* a proof takes one to three requests (prepare_run_auth, cache_auth_preflight, run_auth_preflight).
THEOREM TypeCorrect == Spec => []TypeOK
<1>1. Init => IInv /\ DocInv /\ TInv
  <2>1. Init => DocInv
    BY DocsAssumption DEF Init, DocInv, Idle
  <2>2. ASSUME Init PROVE TInv
    <3>1. /\ clock = 0 /\ opened = 0 /\ issued = 0 /\ DOMAIN cache = {} /\ runs = {}
          /\ \A r \in Requests : req[r] = Idle
      BY <2>2 DEF Init
    <3>2. Open = {} /\ Cardinality({}) = 0 /\ IsFiniteSet({})
      BY <3>1, FS_EmptySet DEF Open, Idle
    <3>3. RequestTyped(Idle)
      BY DEF RequestTyped, Idle
    <3>4. clock \in 0 .. MaxTime /\ opened \in 0 .. MaxRequests
      BY <3>1, BoundsAssumption
    <3>5. IsFiniteSet(Open) /\ issued \in Nat /\ issued + Cardinality(Open) <= opened
      BY <3>1, <3>2
    <3> QED
      BY <3>1, <3>3, <3>4, <3>5 DEF TInv
  <2> QED
    BY <2>1, <2>2, InitHolds
<1>2. IInv /\ DocInv /\ TInv /\ [Next]_vars => (IInv /\ DocInv /\ TInv)'
  BY StepHolds, DocNext, StepTyped
<1>3. IInv /\ TInv => TypeOK
  <2> SUFFICES ASSUME IInv, TInv PROVE TypeOK
    OBVIOUS
  <2>1. issued \in 0 .. MaxRequests
    <3>1. /\ issued \in Nat /\ Cardinality(Open) \in Nat /\ issued + Cardinality(Open) <= opened
          /\ opened \in 0 .. MaxRequests /\ MaxRequests \in Nat
      BY FS_CardinalityType, BoundsAssumption DEF TInv
    <3> QED
      BY <3>1
  <2>2. \A i \in DOMAIN cache : cache[i].at <= clock /\ cache[i].headers \in [HeaderNames -> Carried]
    BY DEF IInv, GoodEntry, TInv, Headers
  <2>3. \A x \in runs : x.p \in Payloads /\ x.strategy # None
    BY DEF IInv, GoodRun, TInv
  <2> QED
    BY <2>1, <2>2, <2>3 DEF TypeOK, TInv, RequestTyped
<1> QED
  BY <1>1, <1>2, <1>3, PTL DEF Spec
=============================================================================
