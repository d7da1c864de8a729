----------------------------- MODULE LoginForm -----------------------------
(***************************************************************************)
(* Acquiring a token (api_auth.py): which endpoint of a document is the    *)
(* login, what its body is made of, which answers count as a login and     *)
(* which header the token becomes.                                         *)
(*                                                                         *)
(* A field is one name of each class the markers tell apart; an endpoint   *)
(* is the record of what the scoring looks at.  Headers and content types  *)
(* of the login request, nesting of tokens and wording are left out.       *)
(***************************************************************************)
EXTENDS Integers, Sequences, FiniteSets

None == "none"

Kinds  == {"username", "password", "captcha", "tenant", "csrf"}
Fields == Kinds \cup {"smsCode", "tenantCode", "remark"}

\* Markers in path, summary and tags.
NonLogin    == {"refresh", "logout", "register", "captcha"}
Specialized == NonLogin \cup {"sms", "oauth"}
LoginWords  == {"login", "signin", "token", "auth", "session"}

\* A read endpoint has no words; a path that is a plain login is "simple".
\* guarded: what the server does, whatever the document declares.
Endpoint == [path : STRING, read : BOOLEAN, auth : BOOLEAN, guarded : BOOLEAN, simple : BOOLEAN,
             last : {"login", "token", "other"} \cup NonLogin, words : SUBSET LoginWords,
             hits : SUBSET Specialized, fields : SUBSET Fields, required : SUBSET Fields]

----------------------------------------------------------------------------
(* Fields and credentials; no value is the value None. *)

NoBody == [f \in Fields |-> None]

Kind(f) == CASE f \in Kinds -> f [] f = "tenantCode" -> "tenant" [] OTHER -> None

SpecialCode(f) == f = "smsCode"

\* Whatever has a code in its name takes the captcha, if there is one.
CodeNames == {"captcha", "smsCode", "tenantCode"}

Credential(f, creds) ==
  CASE f \in CodeNames /\ creds.captcha # None -> creds.captcha
    [] Kind(f) # None /\ (f \notin CodeNames \/ creds.captcha = None) -> creds[Kind(f)]
    [] OTHER -> None

\* What the user is asked for when a field is missing.
InputKey(f) ==
  CASE f \in {"username", "password", "csrf"} -> f
    [] f \in CodeNames -> "captcha"
    [] OTHER -> "login_body"

Supplied(f, config) ==
  \/ config.body[f] # None
  \/ ~SpecialCode(f) /\ Kind(f) # None /\ config.creds[Kind(f)] # None

----------------------------------------------------------------------------
(* The login endpoint. *)

Points(b, n) == IF b THEN n ELSE 0

PathPoints(e) ==
  Points(e.simple, 45) + Points(e.last = "login", 80) + Points(e.last = "token", 30)
  + Points("login" \in e.words, 35) + Points("signin" \in e.words, 25)
  + Points("token" \in e.words, 10) + Points("auth" \in e.words, 8) + Points("session" \in e.words, 8)

FieldPoints(e) ==
  LET has(k) == \E f \in e.fields : Kind(f) = k
  IN  CASE has("username") /\ has("password") -> 90
        [] has("password") /\ ~has("username") -> 30
        [] OTHER -> Points(has("username"), 20)

Lacking(e, config) == {f \in e.required : ~Supplied(f, config)}

RequiredPoints(e, config) ==
  LET inBody  == Cardinality({f \in e.required : config.body[f] # None})
      lacking == Lacking(e, config)
      n == Cardinality(lacking)
  IN  (IF e.required # {} /\ inBody = Cardinality(e.required) THEN 120 ELSE 35 * inBody)
      + 30 * (Cardinality(e.required) - n) - 45 * n
      - 70 * Cardinality({f \in lacking : SpecialCode(f)})

SpecialPoints(e, config) ==
  LET fits == e.required # {} /\ Lacking(e, config) = {}
  IN  -(IF fits THEN 10 ELSE 55) * Cardinality(e.hits)
      - 120 * Cardinality(e.hits \cap NonLogin) - Points(e.last \in NonLogin, 80)

\* Mutant: what is lacking costs nothing.
ScoreOfNames(e, config) == PathPoints(e) + FieldPoints(e) + 35 * Cardinality(e.required)
Score(e, config) ==
  PathPoints(e) + FieldPoints(e) + RequiredPoints(e, config) + SpecialPoints(e, config)

\* Candidates are ordered by score, then by what is lacking, then by what is found against them.
Rank(e, config) ==
  << -Score(e, config), Cardinality(Lacking(e, config)), Cardinality(e.hits) >>

Before(x, y) == \E k \in DOMAIN x : x[k] < y[k] /\ \A j \in 1 .. k - 1 : x[j] = y[j]

Beats(x, y, config) == Before(Rank(x, config), Rank(y, config))

First(indices) == CHOOSE i \in indices : \A j \in indices : i <= j

\* Index of the inferred login in the document, the first of the best, 0 if there is none.
Inferred(endpoints, config) ==
  LET candidates == {i \in DOMAIN endpoints : ~endpoints[i].read /\ endpoints[i].words # {}}
      best == {i \in candidates : \A j \in candidates : ~Beats(endpoints[j], endpoints[i], config)}
  IN  IF candidates = {} THEN 0 ELSE First(best)

\* A configured URL need not be in the document: then nothing is known of its fields.
Unlisted(path) == [path |-> path, read |-> FALSE, auth |-> FALSE, guarded |-> FALSE, simple |-> FALSE,
                   last |-> "other", words |-> {}, hits |-> {}, fields |-> {}, required |-> {}]

At(endpoints, i) == IF i = 0 THEN Unlisted(None) ELSE endpoints[i]

LoginEndpoint(endpoints, config) ==
  LET named == {i \in DOMAIN endpoints : endpoints[i].path = config.login}
  IN  CASE named # {} -> endpoints[First(named)]
        [] named = {} /\ config.login # None -> Unlisted(config.login)
        [] OTHER -> At(endpoints, Inferred(endpoints, config))

----------------------------------------------------------------------------
(* The request's body. *)

\* A placeholder of the body is the name of the credential it stands for.
Replaced(v, creds) == IF v \in Kinds /\ creds[v] # None THEN creds[v] ELSE v

LoginBody(config, e) ==
  IF config.body # NoBody THEN [f \in Fields |-> Replaced(config.body[f], config.creds)]
  ELSE LET mapped == [f \in Fields |-> IF f \in e.fields THEN Credential(f, config.creds) ELSE None]
           plain  == [f \in Fields |-> IF f \in Kinds \ {"csrf"} THEN config.creds[f] ELSE None]
       IN  IF mapped # NoBody THEN mapped ELSE plain

MissingFields(body, e) == {f \in e.required : body[f] = None}

MissingInputs(fields) == {InputKey(f) : f \in fields}

CaptchaRequired(config, e) ==
  LET body == LoginBody(config, e)
  IN  \E f \in Fields : InputKey(f) = "captcha" /\ (body[f] # None \/ f \in MissingFields(body, e))

----------------------------------------------------------------------------
(* What the answer to the login is worth. *)

\* places: where a token was put, "found" standing for the common names.
Answers == [status : {"refused", "ok"}, envelope : {"fine", "failing"},
            places : SUBSET {"found", "path", "cookie"}]

Failed == [ok |-> FALSE, header |-> None]

Resolution(config, answer) ==
  LET token == (IF config.byPath THEN "path" ELSE "found") \in answer.places
  IN  CASE answer.status = "ok" /\ answer.envelope = "fine" /\ token ->
             [ok |-> TRUE, header |-> config.header]
        [] answer.status = "ok" /\ answer.envelope = "fine" /\ ~token /\ "cookie" \in answer.places ->
             [ok |-> TRUE, header |-> "Cookie"]
        [] OTHER -> Failed
=============================================================================
