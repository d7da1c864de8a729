--------------------------- MODULE AuthPreflight ---------------------------
(***************************************************************************)
(* What a payload and a target make of the authentication of a run         *)
(* (auth_preflight_service.py): the mode, the headers to be proven, the    *)
(* read-only requests that prove them, and the decision.                   *)
(*                                                                         *)
(* Headers are a function from names to values.  A token and the sensitive *)
(* headers a user gives are one value; a document is the endpoints with    *)
(* the base URL it names and what its captcha endpoint answers.            *)
(***************************************************************************)
EXTENDS LoginForm, Selections

Modes        == {"auto", "manual", "none_confirmed"}
CaptchaModes == {"none", "static", "dynamic"}

HeaderNames == {"Authorization", "Cookie", "X-Env"}
Sensitive   == {"Authorization", "Cookie"}
NoHeaders   == [h \in HeaderNames |-> None]

HasAuth(headers) == \E h \in Sensitive : headers[h] # None

\* input_type "url" has no document at all, "pasted" comes with its own.
Payload == [type : {"api", "ui"}, src : {"url", "link", "pasted"}, base : STRING,
            mode : Modes, captcha : CaptchaModes, token : STRING, env : STRING, enabled : BOOLEAN,
            creds : [Kinds -> STRING], body : [Fields -> STRING], login : STRING,
            byPath : BOOLEAN, header : Sensitive]

----------------------------------------------------------------------------
(* The payload, normalized. *)

HasCredentials(p) == (p.creds.username # None /\ p.creds.password # None) \/ p.body # NoBody

AuthMode(p) ==
  CASE p.mode = "manual" /\ HasCredentials(p) -> "auto"
    [] p.mode = "auto" /\ p.token # None /\ ~p.enabled /\ ~HasCredentials(p) -> "manual"
    [] OTHER -> p.mode

WithoutAuth(headers) == [h \in HeaderNames |-> IF h \in Sensitive THEN None ELSE headers[h]]

GivenHeaders(p) ==
  LET all == [NoHeaders EXCEPT !["Authorization"] = p.token, !["X-Env"] = p.env]
  IN  IF AuthMode(p) = "auto" /\ HasCredentials(p) THEN WithoutAuth(all) ELSE all

\* Mutant: the base URL is no part of what was proven.
FingerprintOfSource(p) == [p EXCEPT !.base = None]
Fingerprint(p) == p

----------------------------------------------------------------------------
(* The requests that prove the headers. *)

UpTo(n, s) == IF Len(s) <= n THEN s ELSE SubSeq(s, 1, n)

Candidates(endpoints, protected) ==
  UpTo(3, Picked(endpoints, {i \in DOMAIN endpoints :
                               endpoints[i].read /\ (protected => endpoints[i].auth)}))

\* The page itself, of which nothing is declared.
Direct(p, page) == IF p.src = "url" THEN << page >> ELSE << >>

FirstOf(s, t) == IF s # << >> THEN s ELSE t

Enough(successes, n) == successes >= (IF n >= 2 THEN 2 ELSE 1)

----------------------------------------------------------------------------
(* What is to be proven before the run may start: a refusal or a release    *)
(* without proof, or headers and the requests to try them on.               *)

Refuse(strategy, missing) ==
  [step |-> "done", ok |-> FALSE, strategy |-> strategy, missing |-> missing, headers |-> NoHeaders]
Release(strategy, headers) ==
  [step |-> "done", ok |-> TRUE, strategy |-> strategy, missing |-> {}, headers |-> headers]
Prove(strategy, headers, requests) ==
  [step |-> "prove", strategy |-> strategy, headers |-> headers, requests |-> requests]

UiPreflight(p, vision) ==
  CASE p.captcha = "dynamic" /\ ~vision -> Refuse("ui", {"vision_model"})
    [] (p.captcha = "dynamic" => vision) /\ AuthMode(p) = "manual" /\ ~HasAuth(GivenHeaders(p)) ->
         Refuse("ui", {"token_or_header"})
    [] (p.captcha = "dynamic" => vision) /\ AuthMode(p) = "auto" /\ ~HasCredentials(p) ->
         Refuse("ui", {"username", "password"})
    [] OTHER -> Release("ui", GivenHeaders(p))

\* required: how many endpoints the profile found protected; -1 if it found no document.
NothingDeclared(p, required) ==
  /\ AuthMode(p) = "auto" /\ required = 0
  /\ ~p.enabled /\ ~HasCredentials(p) /\ ~HasAuth(GivenHeaders(p))

NoAuthPreflight(p, endpoints, page) ==
  LET requests == FirstOf(Candidates(endpoints, TRUE),
                          FirstOf(Candidates(endpoints, FALSE), Direct(p, page)))
  IN  IF requests = << >> THEN Refuse("none_confirmed", {"read_only_endpoint"})
      ELSE Prove("none_confirmed", NoHeaders, requests)

\* Mutant: without a protected endpoint nothing is asked.
ManualUnchecked(p, endpoints, page) ==
  IF HasAuth(GivenHeaders(p)) THEN Prove("manual_header", GivenHeaders(p), Candidates(endpoints, TRUE))
  ELSE Refuse("manual_header", {"token_or_header"})
ManualPreflight(p, endpoints, page) ==
  LET requests == FirstOf(Candidates(endpoints, TRUE), Direct(p, page))
  IN  CASE ~HasAuth(GivenHeaders(p)) -> Refuse("manual_header", {"token_or_header"})
        [] HasAuth(GivenHeaders(p)) /\ requests = << >> ->
             Refuse("manual_header", {"protected_read_only_endpoint"})
        [] OTHER -> Prove("manual_header", GivenHeaders(p), requests)

\* The configuration a login is tried with; text: what the captcha endpoint told in clear.
LoginConfig(p, text) ==
  [creds |-> IF text = None THEN p.creds ELSE [p.creds EXCEPT !.captcha = text],
   body |-> p.body, login |-> p.login, byPath |-> p.byPath, header |-> p.header]

\* A login that is not even tried: [ok |-> FALSE, missing], or the request to send.
Unsent(missing) == [ok |-> FALSE, missing |-> missing]

RequestTo(e, config, reachable) ==
  LET body == LoginBody(config, e)
  IN  CASE e.path = None \/ ~reachable -> Unsent({"login_url"})
        [] e.path # None /\ reachable /\ MissingFields(body, e) # {} ->
             Unsent(MissingInputs(MissingFields(body, e)))
        [] OTHER -> [ok |-> TRUE, endpoint |-> e, body |-> body, config |-> config]

LoginRequest(config, endpoints, reachable) ==
  RequestTo(LoginEndpoint(endpoints, config), config, reachable)

LoginPlan(p, endpoints, text, reachable) ==
  LET config == LoginConfig(p, text)
  IN  IF \/ p.captcha = "static" /\ p.creds.captcha = None
         \/ /\ p.captcha = "dynamic" /\ text = None
            /\ CaptchaRequired(config, LoginEndpoint(endpoints, config))
      THEN Unsent({"captcha"}) ELSE LoginRequest(config, endpoints, reachable)

\* After the login: the acquired header joins the given ones.
LoggedIn(p, endpoints, resolution, value) ==
  LET requests == Candidates(endpoints, TRUE)
      headers  == [GivenHeaders(p) EXCEPT ![resolution.header] = value]
  IN  CASE ~resolution.ok -> Refuse("auto_login", {"login_body"})
        [] resolution.ok /\ requests = << >> -> Refuse("auto_login", {"protected_read_only_endpoint"})
        [] OTHER -> Prove("auto_login", headers, requests)
=============================================================================
