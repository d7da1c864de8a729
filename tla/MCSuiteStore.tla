---------------------------- MODULE MCSuiteStore ----------------------------
(***************************************************************************)
(* Two runs of a site with a secret in its address: one whose log is older  *)
(* than the redaction, and one that waits for its worker.  Their cases have *)
(* relative and absolute addresses, secrets in headers, bodies, queries and *)
(* typed values, those typed in forms that redaction does not know among    *)
(* them, and a page check with an address of its own, as the planner's      *)
(* fallback writes it.                                                     *)
(***************************************************************************)
EXTENDS SuiteStore, TLC

CONSTANTS n1, n2, n3

Get(url, base, headers, body) == [method |-> "get", url |-> url, base |-> base, headers |-> headers, body |-> body]
Relative == [NoCase EXCEPT !.type = "api", !.category = "auth",
                           !.request = Get("path", None, {"authorization", "accept"}, Secret)]
Based == [NoCase EXCEPT !.category = "smoke",
                        !.data = [NoData EXCEPT !.request = Get("path", "user@http", {"cookie"}, None)]]
Page == [NoCase EXCEPT !.type = "ui", !.category = "page_load", !.url = "http?token",
                       !.commands = <<Cmd("open", "http?token", None), Cmd("fill", "name", Secret)>>]
Clicks == [NoCase EXCEPT !.type = "ui", !.category = "login",
                         !.commands = <<Mixed("fill", "password", Secret), Cmd("type", Secret, None),
                                        Cmd("drag", "save", None), Cmd("assert", "saved", None)>>]

Ended(status, target, custom, setup, logged) ==
  [RunRow(target, NoContext) EXCEPT
     !.status = status,
     !.log = [NoLog EXCEPT !.context = [NoContext EXCEPT !.source = target, !.custom = custom, !.setup = setup,
                                                         !.cases = logged]]]
Headers == "authorization" :> Secret @@ "tenant" :> "plain" @@ "note" :> Secret
Opened == [NoContext EXCEPT !.source = "http?token", !.input = "url", !.seed = "http?token", !.options = "policy",
                            !.setup = <<Secret>>, !.auth = Headers]
Raw(api, ui, test) == [api_cases |-> api, ui_cases |-> ui, test_cases |-> test]
MCRuns ==
  "old" :> Ended("failed", "http?token", Headers, <<Hidden>>, Raw(<<Relative>>, <<Page, Clicks>>, <<Based>>))
  @@ "fresh" :> RunRow("http?token", Opened)

(* What the model plans: a typed secret in a form that is known and in one  *)
(* that is not.                                                            *)
Made == [NoCase EXCEPT !.type = "ui", !.category = "login",
                       !.commands = <<Cmd("fill", "password", Secret), Mixed("fill", "name", Secret)>>]
MCGenerated == {<<>>, <<Made>>}

NoEdit == [k \in {} |-> None]
Pick(source, index) == [source |-> source, index |-> index, edit |-> NoEdit]
Edited == [Pick("ui_cases", 2) EXCEPT !.edit = "category" :> "navigation" @@ "target" :> "user@http"]
MCAccepted == {<<Pick("api_cases", 1), Pick("ui_cases", 1), Pick("ui_cases", 2)>>,
               <<Edited, Pick("test_cases", 1)>>}
MCUserRows == {Row("page_load", [NoData EXCEPT !.commands = <<Cmd("open", "http", None)>>], None, None),
               Row(None, NoData, None, None)}
MCRunIds == {"old", "fresh", n1, n2, n3}
Symmetry == Permutations(Clients)
=============================================================================
