----------------------------- MODULE MCRunStart -----------------------------
(* Three documents and the payloads whose answers differ, for TLC. *)
EXTENDS RunStart

CONSTANTS r1, r2

MCSymmetry == Permutations(Requests)

Bare(path) == [Unlisted(path) EXCEPT !.read = TRUE]
Own(path) == [Bare(path) EXCEPT !.auth = TRUE, !.guarded = TRUE]
LoginOf(path, last, simple, words, hits, fields) ==
  [Unlisted(path) EXCEPT !.last = last, !.simple = simple, !.words = words, !.hits = hits,
                         !.fields = fields, !.required = fields]

Account == {"username", "password"}
Sms   == LoginOf("sms", "login", FALSE, {"login", "auth", "token"}, {"sms"}, Account \cup {"smsCode"})
Plain == LoginOf("login", "login", TRUE, {"login"}, {}, Account)
Coded == LoginOf("token", "token", FALSE, {"token"}, {}, Account \cup {"captcha", "tenantCode"})

MCDocs == << [endpoints |-> << Own("me"), Sms, Plain, Own("orders"), Bare("ping") >>, base |-> "b1", captcha |-> None],
             [endpoints |-> << Coded, Own("me") >>, base |-> "b2", captcha |-> "seen"],
             [endpoints |-> << Bare("ping"), [Bare("me") EXCEPT !.guarded = TRUE] >>, base |-> "b1", captcha |-> None] >>
MCPage == [Bare("page") EXCEPT !.guarded = TRUE]

Nobody == [k \in Kinds |-> None]
Tester == [Nobody EXCEPT !["username"] = "u", !["password"] = "p"]
Given == [type |-> "api", src |-> "link", base |-> None, mode |-> "auto", captcha |-> "none",
          token |-> None, env |-> None, enabled |-> FALSE, creds |-> Nobody, body |-> NoBody,
          login |-> None, byPath |-> FALSE, header |-> "Authorization"]
TesterApi == [Given EXCEPT !.creds = Tester, !.token = "mine", !.env = "e"]
\* The account's values are placeholders.
OwnBody == [NoBody EXCEPT !["username"] = "username", !["password"] = "password",
                          !["captcha"] = "typed", !["tenantCode"] = "t"]
MCPayloads ==
  { Given,
    [Given EXCEPT !.token = "mine"],
    [Given EXCEPT !.token = "mine", !.base = "b3"],
    TesterApi,
    [TesterApi EXCEPT !.captcha = "dynamic", !.creds["captcha"] = "typed"],
    [TesterApi EXCEPT !.captcha = "dynamic", !.body = OwnBody],
    [Given EXCEPT !.enabled = TRUE, !.captcha = "dynamic", !.login = "elsewhere",
                  !.creds["username"] = "u", !.creds["captcha"] = "typed"],
    [Given EXCEPT !.src = "url", !.mode = "none_confirmed"],
    [Given EXCEPT !.src = "pasted", !.enabled = TRUE, !.creds["username"] = "u"],
    [TesterApi EXCEPT !.type = "ui", !.captcha = "dynamic"] }

MCAnswered == { [status |-> "ok", envelope |-> "fine", places |-> {"found"}],
                [status |-> "ok", envelope |-> "fine", places |-> {"cookie"}],
                [status |-> "ok", envelope |-> "failing", places |-> {"found"}] }
=============================================================================
