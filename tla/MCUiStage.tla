------------------------------ MODULE MCUiStage ------------------------------
(* A site with a login form, a home page, a list and a form. *)
EXTENDS UiStage

El(ref, role, text, words, pointer) == [ref |-> ref, role |-> role, text |-> text, words |-> words, pointer |-> pointer]
MCRefs == {"e1", "e2", "e3", "e4"}
MCElements ==
  [blank |-> <<>>,
   error |-> <<El("e1", "generic", "error", {}, FALSE)>>,
   login |-> <<El("e1", "textbox", "user", {}, FALSE), El("e2", "button", "sign in", {}, TRUE)>>,
   home  |-> <<El("e1", "button", "new orders", {"create"}, TRUE), El("e2", "link", "orders", {}, TRUE),
               El("e3", "button", "back", {"cancel"}, TRUE)>>,
   list  |-> <<El("e1", "searchbox", "searchbox", {}, FALSE), El("e2", "button", "find", {"search"}, TRUE),
               El("e3", "row", "row", {}, FALSE), El("e4", "link", "remove", {"delete"}, FALSE)>>]
MCParts == {<<"orders", "new orders">>, <<"back", "go back">>}
MCBroken == {"error"}
MCLands(url, auth) ==
  CASE url \in {"login", "home"} -> IF auth THEN "home" ELSE "login"
    [] url = "list" -> IF auth THEN "list" ELSE "login"
    [] OTHER -> url
MCEnters(page, ref) == page = "login" /\ ref = "e2"
MCLeads(page, ref, auth) ==
  CASE page = "login" /\ auth -> "home"
    [] page = "home" /\ ref = "e2" -> "list"
    [] page = "list" /\ ref = "e4" -> "home"
    [] OTHER -> page
MCLoginScripts ==
  {<<>>, <<Cmd("fill", "e1", "alice"), Cmd("tap", "e2", None), Cmd("click", "e2", None), Cmd("wait", "2000", None)>>}
Written(title, category, login, auth, commands) ==
  [Case(<<title, None>>, category, None, commands) EXCEPT !.login = login, !.auth = auth, !.source = "model"]
Act(type, arg, val) == [type |-> type, arg |-> arg, val |-> val]
MCModelCases ==
  {<<Written("script", "FORM", FALSE, "yes", <<Cmd("run-code", "code", None)>>),
     Written("wrong password", "AUTH", TRUE, "no", <<Cmd("goto", "login", None), Cmd("fill", "e1", "bob")>>)>>,
   <<[Written("actions", "FORM", FALSE, "yes", <<>>) EXCEPT !.actions =
        <<Act("click_text", "orders", None), Act("wait_for", None, None), Act("assert_visible", "find", None),
          Act("scroll", None, None)>>],
     [Written("no value", "FORM", FALSE, "no", <<>>) EXCEPT !.actions = <<Act("fill_ref", "e1", Absent)>>]>>}
Suite ==
  <<Written("pick", "FORM", FALSE, "unset",
            <<Cmd("open", "login", None), Cmd("select", "e1", "bob"), Cmd("assert_visible", "user", None)>>),
    Written("reload", "FORM", FALSE, "unset", <<Plain("reload"), Cmd("evaluate", "code", None)>>),
    [Written("steps", "PAGE_LOAD", FALSE, "yes", <<>>) EXCEPT !.steps = <<[kind |-> "click", text |-> "go back"]>>]>>
Scenario(given, creds, captcha, suite, model, cases) ==
  [given |-> given, creds |-> creds, captcha |-> captcha, suite |-> suite, model |-> model, cases |-> cases, url |-> "login"]
Down == [Scenario(TRUE, FALSE, FALSE, FALSE, FALSE, <<>>) EXCEPT !.url = "error"]
MCScenarios ==
  {Scenario(FALSE, FALSE, FALSE, FALSE, TRUE, <<>>), Scenario(TRUE, TRUE, TRUE, FALSE, TRUE, <<>>),
   Scenario(TRUE, FALSE, FALSE, TRUE, TRUE, Suite), Scenario(FALSE, TRUE, FALSE, FALSE, FALSE, Suite), Down}
=============================================================================
