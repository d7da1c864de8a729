----------------------------- MODULE UiCommands -----------------------------
(***************************************************************************)
(* The dialects a browser command passes through: what a model or a user   *)
(* wrote, the structured action the planner makes of it, and the spec the  *)
(* runner executes (tools/playwright_commands.py, tools/playwright_skill.py*)
(* and the batch builder of agent/nodes/ui_runner.py).  A command is       *)
(* [name, arg, val]; of the text of a script only its class matters:       *)
(* "code", "size" (it sets the viewport) or "refs" (it logs snapshot refs).*)
(***************************************************************************)
EXTENDS Naturals, Sequences, SequencesExt

CONSTANT Refs      \* the element references a snapshot may show

None == ""
Absent == "absent"       \* the value of a fill that has none
Cmd(n, a, v) == [name |-> n, arg |-> a, val |-> v]
Plain(n) == Cmd(n, None, None)
SpecOf(c, k) == [cmd |-> c, kind |-> k, expected |-> None, skip |-> FALSE, blocked |-> FALSE]
Skipped(c, b) == [SpecOf(c, "unsupported") EXCEPT !.skip = TRUE, !.blocked = b]
Assertion(text) == [SpecOf(Plain("snapshot"), "assert") EXCEPT !.expected = text]

Navigation == {"open", "goto"}
Scripts == {"run-code", "eval"}
Supported == Navigation \cup Scripts \cup
  {"snapshot", "click", "fill", "type", "screenshot", "go-back", "reload", "select", "hover", "press",
   "upload", "check", "uncheck", "resize", "state-save", "state-load", "cookie-set", "cookie-clear",
   "dialog-accept", "dialog-dismiss"}
ActionCommands == Navigation \cup
  {"click", "fill", "type", "select", "hover", "press", "upload", "go-back", "reload"}

(* Pseudo-commands and viewport scripts become what the command line knows. *)
Viewport(c) == c.arg = "size" /\ c.name \in Scripts \cup {"evaluate", "viewport", "resize"}
Selector(text) == text \in {"#id", ".class"}
Normalize(c) ==
  CASE Viewport(c) -> <<SpecOf(Cmd("resize", "size", None), "normalized")>>
    [] c.name = "wait" -> <<SpecOf(Plain("snapshot"), "normalized")>>
    [] c.name \in {"assert", "expect"} -> <<Assertion(c.arg)>>
    [] c.name = "assert_visible" -> <<Assertion(IF Selector(c.arg) THEN None ELSE c.arg)>>
    [] c.name = "evaluate" -> <<SpecOf([c EXCEPT !.name = "eval"], "normalized")>>
    [] c.name = "run-code" /\ c.arg = "refs" -> <<SpecOf(Plain("snapshot"), "normalized")>>
    [] c.name = "screenshot" -> <<SpecOf(Plain("screenshot"), "screenshot")>>
    [] c.name \in Supported \ {"screenshot"} /\ ~Viewport(c) /\ c # Cmd("run-code", "refs", None) ->
         <<SpecOf(c, "command")>>
    [] OTHER -> <<Skipped(c, FALSE)>>

(* include_unsupported=False leaves the unknown ones out. *)
MapSeq(Op(_), s) == <<>> \o [i \in DOMAIN s |-> Op(s[i])]
NormalizeAll(cs) == FlattenSeq(MapSeq(Normalize, cs))
Executable(spec) == ~spec.skip
Known(cs) == MapSeq(LAMBDA s : s.cmd, SelectSeq(NormalizeAll(cs), Executable))

(* What the planner makes of a command; commands it has no action for      *)
(* disappear.                                                              *)
Action(t, c) == <<[type |-> t, arg |-> c.arg, val |-> c.val]>>
Structured(c) ==
  CASE c.name \in Navigation \cup {"snapshot", "screenshot"} -> Action(c.name, c)
    [] c.name = "click" /\ c.arg # None -> Action(IF c.arg \in Refs THEN "click_ref" ELSE "click_text", c)
    [] c.name \in {"fill", "type"} /\ c.arg # None ->
         Action(IF c.arg \in Refs THEN "fill_ref" ELSE "fill_text", c)
    [] c.name \in Scripts \cup {"evaluate"} -> Action("run_code", c)
    [] OTHER -> <<>>
StructuredAll(cs) == FlattenSeq(MapSeq(Structured, cs))

(* A structured action is compiled, blocked (code, or fields missing) or,  *)
(* when its type is unknown, skipped.                                      *)
Compile(a, url) ==
  LET clicks == a.type \in {"click_ref", "click_text"}
      fills == a.type \in {"fill_ref", "fill_text"}
      invalid == ((clicks \/ fills) /\ a.arg = None) \/ (fills /\ a.val = Absent)
      c == Cmd(a.type, a.arg, a.val)
  IN CASE a.type \in {"run_code", "eval", None} \/ invalid -> Skipped(c, TRUE)
       [] a.type \in Navigation -> SpecOf(Cmd(a.type, IF a.arg = None THEN url ELSE a.arg, None), "command")
       [] clicks /\ ~invalid -> SpecOf(Cmd("click", a.arg, None), "command")
       [] fills /\ ~invalid -> SpecOf(Cmd("fill", a.arg, a.val), "command")
       [] a.type = "snapshot" -> SpecOf(Plain("snapshot"), "command")
       [] a.type = "screenshot" -> SpecOf(Plain("screenshot"), "screenshot")
       [] a.type = "assert_visible" -> Assertion(a.arg)
       [] a.type = "wait_for" ->
            IF a.arg = None THEN SpecOf(Plain("snapshot"), "smart_wait") ELSE Assertion(a.arg)
       [] OTHER -> Skipped(c, FALSE)
CompileAll(as, url) == <<>> \o [i \in DOMAIN as |-> Compile(as[i], url)]

(* The runner's own commands: it waits after an action and photographs it. *)
SmartWait == SpecOf(Cmd("run-code", "wait", None), "smart_wait")
Shot == SpecOf(Plain("screenshot"), "screenshot")
NextExecutable(specs, i) == SelectInSubSeq(specs, i + 1, Len(specs), Executable)
NextIsShotLater(specs, i) == \E j \in (i + 1)..Len(specs) : specs[j].cmd.name = "screenshot"
NextIsShot(specs, i) ==
  LET n == NextExecutable(specs, i) IN n # 0 /\ specs[n].cmd.name = "screenshot"
NextIsWait(specs, i) ==
  LET n == NextExecutable(specs, i) IN n # 0 /\ (specs[n].kind = "smart_wait" \/ specs[n].cmd.name = "run-code")
IsAction(spec) == /\ ~spec.skip /\ spec.kind # "screenshot" /\ spec.cmd.name \in ActionCommands
                  /\ spec.cmd # Cmd("open", "blank", None)
EvidenceOf(specs, i) ==
  <<specs[i]>>
    \o (IF IsAction(specs[i]) /\ ~NextIsWait(specs, i) THEN <<SmartWait>> ELSE <<>>)
    \o (IF IsAction(specs[i]) /\ ~NextIsShot(specs, i) THEN <<Shot>> ELSE <<>>)
WithEvidence(specs) == FlattenSeq(<<>> \o [i \in DOMAIN specs |-> EvidenceOf(specs, i)])

(* The commands of a case without structured actions. *)
Navigates(cs) == \E i \in DOMAIN cs : cs[i].name \in Navigation
Absolute(c, url) == IF c.name \in Navigation /\ c.arg = None THEN [c EXCEPT !.arg = url] ELSE c
StepCommands(step) ==
  <<CASE step.kind = "click" -> Cmd("click", step.text, None)
      [] step.kind = "fill" -> Cmd("type", step.text, None)
      [] OTHER -> Plain("snapshot"),
    Plain("screenshot")>>
FromSteps(case, url, prepared) ==
  (IF url # None /\ ~prepared THEN <<Cmd("goto", url, None), Plain("snapshot")>> ELSE <<Plain("snapshot")>>)
    \o FlattenSeq(MapSeq(StepCommands, case.steps))
RawCommands(case, url, available) ==
  LET own == IF case.raw # <<>> THEN case.raw ELSE case.commands
      prepared == case.auth = "yes" /\ available
      cs == IF own = <<>> THEN FromSteps(case, url, prepared)
            ELSE <<>> \o [i \in DOMAIN own |-> Absolute(own[i], url)]
      entered == IF url # None /\ ~prepared /\ ~Navigates(cs) THEN <<Cmd("goto", url, None)>> \o cs ELSE cs
  IN IF \E i \in DOMAIN entered : entered[i].name = "screenshot" THEN entered
     ELSE Append(entered, Plain("screenshot"))

(* What a prepared case no longer has to do. *)
After(cs, Drop(_)) ==
  LET keep == SelectInSeq(cs, LAMBDA c : ~Drop(c)) IN IF keep = 0 THEN <<>> ELSE SubSeq(cs, keep, Len(cs))
StripNavigation(cs) == After(cs, LAMBDA c : c.name \in Navigation)
TargetNavigation(c, url) == url # None /\ c.name \in Navigation /\ c.arg = url
LoginStep(c) == c.name \in {"fill", "type", "press", "snapshot", "screenshot"} \/ (c.name = "click" /\ c.arg \in Refs)
StripLogin(cs, url) ==
  LET signsIn == \E i \in DOMAIN cs : TargetNavigation(cs[i], url) \/ cs[i].name \in {"fill", "type"}
      rest == After(cs, LAMBDA c : TargetNavigation(c, url) \/ LoginStep(c))
  IN IF ~signsIn THEN StripNavigation(cs)
     ELSE IF rest = <<>> THEN <<Plain("snapshot"), Plain("screenshot")>> ELSE rest

(* One case as the specs the runner goes through.  prepared: the decision  *)
(* on its context; setup: the commands that restore the context.           *)
StructuredSpecs(case, url, setup, prepared) ==
  LET specs == CompileAll(case.actions, url)
      enters == \E i \in DOMAIN specs : ~specs[i].skip /\ specs[i].cmd.name \in Navigation
  IN CASE prepared -> NormalizeAll(setup) \o specs
       [] ~prepared /\ url # None /\ ~enters -> <<SpecOf(Cmd("goto", url, None), "command")>> \o specs
       [] OTHER -> specs
RawSpecs(case, url, setup, prepared, strip) ==
  LET cs == RawCommands(case, url, prepared)
  IN NormalizeAll(IF prepared
                  THEN setup \o (IF strip THEN StripLogin(cs, url) ELSE StripNavigation(cs))
                  ELSE cs)
Batch(case, url, setup, prepared, strip) ==
  LET specs == IF case.actions # <<>> THEN StructuredSpecs(case, url, setup, prepared)
               ELSE RawSpecs(case, url, setup, prepared, strip)
      all == WithEvidence(specs)
  IN IF case.actions = <<>> /\ ~\E i \in DOMAIN all : Executable(all[i])
     THEN WithEvidence(NormalizeAll(<<Cmd("open", url, None), Plain("snapshot"), Plain("screenshot")>>))
     ELSE all
=============================================================================
