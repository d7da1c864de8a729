------------------------------ MODULE RunContext ------------------------------
(***************************************************************************)
(* What a run is started with, what its log keeps of it, and what a rerun  *)
(* or a continuation takes from the log (api/v1/runs.py, agent/progress.py,*)
(* worker/tasks.py).  A log is redacted; what was redacted is not sent     *)
(* again.                                                                  *)
(***************************************************************************)
EXTENDS CaseAssets

NoHeaders == [h \in {} |-> None]
NoCases == [api_cases |-> <<>>, ui_cases |-> <<>>, test_cases |-> <<>>]

(* The keyword arguments of the worker, and the keys of a log. *)
NoContext == [source |-> None, input |-> None, seed |-> None, options |-> None, setup |-> <<>>,
              auth |-> NoHeaders, custom |-> NoHeaders, cases |-> NoCases]
NoLog == [context |-> NoContext, cancelled |-> FALSE, runtime |-> None, continuation |-> None, from |-> None]

(***************************************************************************)
(* Writing a log                                                           *)
(***************************************************************************)
RedactedHeaders(headers) ==
  [h \in DOMAIN headers |-> IF h \in SensitiveHeaders THEN Hidden ELSE RedactedValue(headers[h])]
RedactedRequest(t) ==
  [t EXCEPT !.url = RedactedText(@), !.base = RedactedText(@), !.body = RedactedValue(@)]
RedactedCommands(commands) == <<>> \o [i \in DOMAIN commands |-> LoggedCommand(commands[i])]
RedactedData(d) ==
  [d EXCEPT !.request = RedactedRequest(@), !.url = RedactedText(@), !.target = RedactedText(@),
            !.base = RedactedText(@), !.commands = RedactedCommands(@)]
(* The value of an action is a text by itself, which no pattern knows.     *)
RedactedAction(a) == [a EXCEPT !.arg = RedactedText(@), !.val = RedactedText(@)]
RedactedActions(actions) == <<>> \o [i \in DOMAIN actions |-> RedactedAction(actions[i])]
RedactedCase(case) ==
  [case EXCEPT !.request = RedactedRequest(@), !.url = RedactedText(@), !.target = RedactedText(@),
               !.base = RedactedText(@), !.commands = RedactedCommands(@), !.actions = RedactedActions(@),
               !.data = RedactedData(@)]
RedactedCases(cases) == [s \in DOMAIN cases |-> <<>> \o [i \in DOMAIN cases[s] |-> RedactedCase(cases[s][i])]]
RedactedContext(c) ==
  [c EXCEPT !.source = RedactedText(@), !.seed = RedactedText(@), !.setup = <<>> \o [i \in DOMAIN @ |-> RedactedValue(@[i])],
            !.auth = RedactedHeaders(@), !.custom = RedactedHeaders(@), !.cases = RedactedCases(@)]

(* A key of the state replaces the log's; the others stay. *)
OverEmpty(new, old, none) == [k \in DOMAIN new |-> IF new[k] = none[k] THEN old[k] ELSE new[k]]
LogPayload(context, previous) ==
  [previous EXCEPT !.context = RedactedContext(OverEmpty(context, previous.context, NoContext))]

(* The state a worker begins with: the headers are merged. *)
MergedHeaders(auth, custom) ==
  [h \in DOMAIN auth \cup DOMAIN custom |-> IF h \in DOMAIN auth THEN auth[h] ELSE custom[h]]
StartState(context) == [context EXCEPT !.auth = MergedHeaders(@, context.custom)]

(***************************************************************************)
(* What the planning nodes write                                           *)
(***************************************************************************)
(* The planner of the browser stage writes each case's commands in the      *)
(* dialect of the executor and makes actions of them, unless the case has   *)
(* some.  Checks and waits become snapshots, other unknown names are       *)
(* dropped; aliases of names it knows are left out here.                   *)
Supported == {"open", "goto", "snapshot", "screenshot", "click", "fill", "type", "select", "hover", "press",
              "check", "uncheck", "upload", "reload", "go-back", "eval", "run-code", "resize", "state-save",
              "state-load", "cookie-set", "cookie-clear", "dialog-accept", "dialog-dismiss"}
Pseudo == {"wait", "sleep", "pause", "timeout", "assert", "expect", "assert_visible", "assert-visible"}
Normal(c) ==
  CASE c.name \in Supported -> c
    [] c.name \in Pseudo -> Cmd("snapshot", None, None)
    [] OTHER -> Dropped
Action(t, a, v) == [type |-> t, arg |-> a, val |-> v]
NoAction == Action(None, None, None)
ActionOf(c) ==
  CASE c.name \in {"open", "goto"} -> Action(c.name, c.arg, None)
    [] c.name \in {"snapshot", "screenshot"} -> Action(c.name, None, None)
    [] c.name = "click" /\ c.arg # None -> Action("click", c.arg, None)
    [] Typing(c) /\ c.arg # None -> Action("fill", c.arg, c.val)
    [] c.name \in {"eval", "run-code"} -> Action("run_code", None, None)
    [] OTHER -> NoAction
HasActions(case) == \E i \in DOMAIN case.actions : case.actions[i] # NoAction
Normalized(commands) == <<>> \o [i \in DOMAIN commands |-> Normal(commands[i])]
ActionsOf(commands) == <<>> \o [i \in DOMAIN commands |-> ActionOf(Normal(commands[i]))]
Planned(case) ==
  [case EXCEPT !.commands = Normalized(@),
               !.actions = IF HasActions(case) THEN @ ELSE ActionsOf(case.commands)]
PlannedCases(cases) == <<>> \o [i \in DOMAIN cases |-> Planned(cases[i])]

(* The case generator lists what it was given, and is passed by when there  *)
(* are UI cases alone.                                                     *)
AfterReset(context, logged) == [logged EXCEPT !.ui_cases = <<>>]
AfterPlanning(context, logged) ==
  [logged EXCEPT !.ui_cases = PlannedCases(context.cases.ui_cases),
                 !.test_cases = IF logged.api_cases = <<>> THEN @ ELSE logged.api_cases \o context.cases.ui_cases]
(* A list that is planned anew, or emptied before it is.                   *)
AfterReplan(logged, list, made) ==
  LET new == [logged EXCEPT ![list] = IF list = "ui_cases" THEN PlannedCases(made) ELSE made]
  IN {[new EXCEPT !.test_cases = new.api_cases \o new.ui_cases]}
     \cup (IF list = "ui_cases" THEN {[new EXCEPT !.test_cases = new.api_cases]} ELSE {})
WithCases(log, cases) == [log EXCEPT !.context = RedactedContext([@ EXCEPT !.cases = cases])]

(***************************************************************************)
(* Rerun and continuation                                                  *)
(***************************************************************************)
Rehydratable(headers) ==
  Restrict(headers, {h \in DOMAIN headers \ SensitiveHeaders : headers[h] \notin {None, Hidden, Secret}})
SourceOf(log, target) ==
  CASE log.context.source # None -> log.context.source
    [] log.context.source = None /\ log.context.seed # None -> log.context.seed
    [] OTHER -> target
WithoutUiCases(log, target) ==
  [log.context EXCEPT !.auth = Rehydratable(@), !.custom = Rehydratable(@), !.source = SourceOf(log, target),
                      !.cases = [NoCases EXCEPT !.api_cases = log.context.cases.api_cases]]
RerunContext(log, target) ==
  [log.context EXCEPT !.auth = Rehydratable(@), !.custom = Rehydratable(@), !.source = SourceOf(log, target),
                      !.cases = [@ EXCEPT !.test_cases = <<>>]]
RerunTarget(context, target) == IF context.input = "url" /\ context.seed # None THEN context.seed ELSE target
ContinuationTarget(context, target) ==
  CASE context.input = "url" /\ context.seed # None -> context.seed
    [] ~(context.input = "url" /\ context.seed # None) /\ target # None -> target
    [] OTHER -> context.source
Supplemented(context, text) == [context EXCEPT !.setup = Append(@, text)]

(* A continuation's log is begun before its worker; cases and headers are   *)
(* left to the worker.                                                     *)
Seeded(context, from) ==
  [NoLog EXCEPT !.context = RedactedContext([context EXCEPT !.auth = NoHeaders, !.custom = NoHeaders, !.cases = NoCases]),
                !.runtime = "continuation_running", !.from = from]
=============================================================================
