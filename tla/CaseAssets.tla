------------------------------ MODULE CaseAssets ------------------------------
(***************************************************************************)
(* What a case goes through between a run and a suite: accepted cases of a *)
(* run's log are redacted and saved (api/v1/runs.py, _case_asset_ helpers, *)
(* core/redaction.py), saved cases become the payloads of a suite's run    *)
(* (api/v1/test_cases.py).  Of an address only its form matters, of a      *)
(* value whether it is a secret.                                           *)
(***************************************************************************)
EXTENDS Naturals, Sequences, SequencesExt

None == ""
Hidden == "[REDACTED]"
Secret == "secret"
Absolute(u) == u \in {"http", "http?token", "user@http", "http?hidden"}
RedactedUrl(u) == CASE u = "http?token" -> "http?hidden" [] u = "user@http" -> "http" [] OTHER -> u
BaseUrl(u) == IF Absolute(u) THEN "http" ELSE None
SensitiveHeaders == {"authorization", "cookie"}
RedactedValue(v) == IF v = Secret THEN Hidden ELSE v

(* A request template, the data of a case, and a case: the keys the code   *)
(* looks at.  An empty template counts as none.                            *)
NoTemplate == [method |-> None, url |-> None, base |-> None, headers |-> {}, body |-> None]
NoData == [request |-> NoTemplate, url |-> None, target |-> None, base |-> None, commands |-> <<>>]
NoCase == [type |-> None, category |-> None, request |-> NoTemplate, url |-> None, target |-> None,
           base |-> None, commands |-> <<>>, actions |-> <<>>, data |-> NoData]
(* A command is a line of text: a name, an argument and perhaps a value.    *)
(* Its form is "mixed" when the argument is quoted and the value is not.    *)
Cmd(n, a, v) == [name |-> n, arg |-> a, val |-> v, form |-> "plain"]
Mixed(n, a, v) == [Cmd(n, a, v) EXCEPT !.form = "mixed"]
(* A place from which normalization took the command. *)
Dropped == Cmd(None, None, None)
Some(commands) == \E i \in DOMAIN commands : commands[i] # Dropped

(* A mapping without a request of its own is taken for one when it has any  *)
(* of the keys of a request, an address among them.                        *)
FromMapping(x) == IF x.request # NoTemplate THEN x.request ELSE [NoTemplate EXCEPT !.url = x.url, !.base = x.base]
Template(case) == IF FromMapping(case) # NoTemplate THEN FromMapping(case) ELSE FromMapping(case.data)
Commands(case) == IF Some(case.commands) THEN case.commands ELSE case.data.commands

UiLabels == {"page_load", "navigation", "login"}
ApiLabels == {"smoke", "auth", "security"}
Explicit == {"api", "ui"}
Kind(case) ==
  LET labels == <<case.type, case.category>>
      given == SelectInSeq(labels, LAMBDA x : x \in Explicit)
      known == SelectInSeq(labels, LAMBDA x : x \in UiLabels \cup ApiLabels)
  IN CASE given # 0 -> labels[given]
       [] given = 0 /\ Template(case) # NoTemplate -> "api"
       [] given = 0 /\ Template(case) = NoTemplate /\ Some(Commands(case)) -> "ui"
       [] OTHER -> IF known # 0 /\ labels[known] \in ApiLabels THEN "api" ELSE "ui"

(***************************************************************************)
(* Saving a case of a run                                                  *)
(***************************************************************************)
(* Light edits of the user replace what they name. *)
Merged(case, edit) == [k \in DOMAIN case |-> IF k \in DOMAIN edit THEN edit[k] ELSE case[k]]
AssetKindBySource(source, case) == source
AssetKind(source, case) ==
  CASE source = "api_cases" -> "api" [] source = "ui_cases" -> "ui" [] OTHER -> Kind(case)
SafeHeaders(headers) == headers \ SensitiveHeaders
NeedsBase(t) == t.url # None /\ ~Absolute(t.url)
SafeTemplate(t, target) ==
  [method |-> t.method, url |-> RedactedUrl(t.url),
   base |-> IF t.base = None /\ NeedsBase(t) THEN BaseUrl(target) ELSE RedactedUrl(t.base),
   headers |-> SafeHeaders(t.headers), body |-> RedactedValue(t.body)]
RedactedText(u) == IF u = "http?token" THEN "http?hidden" ELSE u
(* Redaction knows a typed value by the form of the command: a sole word and *)
(* a bare word after a quoted one pass.  What is saved is looked at again:  *)
(* a command that names a password loses its last word.                    *)
Typing(c) == c.name \in {"fill", "type"}
LoggedCommandByTarget(c) == IF c.arg = "password" THEN [c EXCEPT !.val = Hidden] ELSE c
LoggedCommand(c) ==
  [c EXCEPT !.arg = RedactedText(@), !.val = IF Typing(c) /\ c.form = "plain" /\ @ # None THEN Hidden ELSE @]
Hinted(c) == "password" \in {c.arg, c.val}
SavedCommand(c) ==
  LET t == LoggedCommand(c)
  IN CASE Typing(t) /\ Hinted(t) /\ t.val # None -> [t EXCEPT !.val = Hidden]
       [] Typing(t) /\ Hinted(t) /\ t.val = None -> [t EXCEPT !.arg = Hidden]
       [] OTHER -> t
FirstUrl(own, other) == RedactedUrl(IF own # None THEN own ELSE other)
SafeData(case, kind, target) ==
  [request |-> SafeTemplate(Template(case), target),
   url |-> FirstUrl(case.data.url, case.url),
   target |-> FirstUrl(case.data.target, case.target),
   base |-> CASE case.data.base # None -> RedactedUrl(case.data.base)
              [] case.data.base = None /\ kind = "api" /\ BaseUrl(target) # None -> BaseUrl(target)
              [] OTHER -> RedactedUrl(case.base),
   commands |-> [i \in DOMAIN Commands(case) |-> SavedCommand(Commands(case)[i])]]
Row(category, data, run, kind) == [category |-> category, data |-> data, run |-> run, kind |-> kind]
SavedRow(case, source, run, target) ==
  LET kind == AssetKind(source, case)
      category == IF case.category # None THEN case.category ELSE IF case.type # None THEN case.type ELSE kind
  IN Row(category, SafeData(case, kind, target), run, kind)

(***************************************************************************)
(* Running saved cases                                                     *)
(***************************************************************************)
Loaded(row) ==
  [NoCase EXCEPT !.category = IF row.category = None THEN "api" ELSE row.category, !.data = row.data]
Payload(id, row) ==
  LET case == Loaded(row)
  IN [id |-> id, run |-> row.run,
      case |-> [case EXCEPT !.type = Kind(case), !.request = Template(case), !.commands = Commands(case)]]
(* The API cases and the others, each in the order in which they were read. *)
Sorted(lists, p) ==
  IF p.case.type = "api" THEN [lists EXCEPT !.api = Append(@, p)] ELSE [lists EXCEPT !.ui = Append(@, p)]
CasesOf(payloads) == <<>> \o [i \in DOMAIN payloads |-> payloads[i].case]

(* Where the run goes: the first address a case knows. *)
FirstAbsolute(s) == LET i == SelectInSeq(s, Absolute) IN IF i = 0 THEN None ELSE s[i]
OpenedBy(commands) ==
  LET i == SelectInSeq(commands, LAMBDA c : c.name \in {"open", "goto"} /\ c.arg # None)
  IN IF i = 0 THEN None ELSE commands[i].arg
UiAddresses(p) == <<p.case.data.target, p.case.data.url, p.case.data.base, OpenedBy(p.case.commands)>>
UiSeed(ui) == FirstAbsolute(FlattenSeq(<<>> \o [i \in DOMAIN ui |-> UiAddresses(ui[i])]))
ApiTarget(api) == FirstAbsolute(FlattenSeq(<<>> \o [i \in DOMAIN api |-> <<api[i].case.request.base, api[i].case.request.url>>]))
Suite == "suite"
SuiteTarget(api, ui) ==
  CASE ApiTarget(api) # None -> ApiTarget(api)
    [] ApiTarget(api) = None /\ UiSeed(ui) # None -> UiSeed(ui)
    [] OTHER -> Suite
TestType(api, ui) == CASE api # <<>> /\ ui # <<>> -> "FULL" [] api = <<>> -> "UI" [] OTHER -> "API"
AgentType(api, ui) == CASE api # <<>> /\ ui # <<>> -> "auto" [] api = <<>> -> "ui" [] OTHER -> "api"
=============================================================================
