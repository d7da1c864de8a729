------------------------------- MODULE UiStage -------------------------------
(***************************************************************************)
(* The browser stage of a run: ui_login prepares the context, ui_test_     *)
(* planner explores the target and plans the cases, ui_runner executes     *)
(* them.  Every run drives the same browser: the command line tool is      *)
(* called without a session name (tools/playwright_tool.py:83).            *)
(* A snapshot is the page it shows; the model's answers, the outcome of    *)
(* every command and the site are choices.                                 *)
(***************************************************************************)
EXTENDS UiCases

CONSTANTS Runs,
          Scenarios,      \* [given, creds, captcha, suite, model, cases, url]
          Elements,       \* page |-> the elements its snapshot shows
          Parts,          \* pairs of texts: the first is a part of the second
          Broken,         \* pages that show a system error
          Lands(_, _),    \* where an address leads, signed in or not
          Leads(_, _, _), \* where a click leads, signed in or not
          Enters(_, _),   \* whether a click signs in
          LoginScripts,   \* what the model may answer to LOGIN_ASSIST_PROMPT
          ModelCases,     \* what it may answer to UI_TEST_PLANNER_PROMPT
          MaxFaults,      \* bounds the commands that fail
          MaxRounds       \* bounds the replans of the stage

ASSUME BoundsAssumption == MaxFaults \in Nat /\ MaxRounds \in Nat

VARIABLES run,       \* run |-> what its agent state holds
          browser,   \* the one browser: the page it shows, signed in or not
          saved,     \* run |-> the signed-in flag of its login_state.json
          faults
vars == <<run, browser, saved, faults>>

Start(s) ==
  [plan |-> s, phase |-> "login", stored |-> s.given, required |-> FALSE, verified |-> "na",
   seen |-> None, first |-> None, entered |-> FALSE, post |-> None, file |-> FALSE, script |-> <<>>,
   left |-> <<>>, explored |-> <<>>, cases |-> s.cases, decided |-> <<>>,
   specs |-> <<>>, at |-> 1, sent |-> Plain(None), passed |-> TRUE, entries |-> <<>>, results |-> <<>>, round |-> 0]

Init == /\ run \in {[r \in Runs |-> Start(f[r])] : f \in [Runs -> Scenarios]}
        /\ browser \in [page : {"blank"}, auth : BOOLEAN]
        /\ saved = [r \in Runs |-> FALSE]
        /\ faults = 0

(***************************************************************************)
(* The browser                                                             *)
(***************************************************************************)
On(page, ref) == {i \in DOMAIN Elements[page] : Elements[page][i].ref = ref}
PartOf(x, y) == x = y \/ <<x, y>> \in Parts
Shows(page, text) == \E i \in DOMAIN Elements[page] : PartOf(text, Elements[page][i].text)
Visit(b, url) == [b EXCEPT !.page = IF url = "blank" THEN url ELSE Lands(url, b.auth)]
Possible(b, c) == c.name \in {"click", "fill", "select", "check", "uncheck"} => On(b.page, c.arg) # {}
Click(b, c) ==
  LET auth == b.auth \/ Enters(b.page, c.arg) IN [page |-> Leads(b.page, c.arg, auth), auth |-> auth]
Effect(b, c, r) ==
  CASE c.name \in Navigation -> Visit(b, c.arg)
    [] c.name = "click" -> Click(b, c)
    [] c.name = "state-load" -> [b EXCEPT !.auth = saved[r]]
    [] c.name = "cookie-clear" -> [b EXCEPT !.auth = FALSE]
    [] OTHER -> b
Outcomes(b, c) ==
  IF ~Possible(b, c) THEN {"not found"}
  ELSE {"ok"} \cup (IF faults < MaxFaults THEN {"failed", "not found"} ELSE {})
Command(r, c, outcome) ==
  /\ outcome \in Outcomes(browser, c)
  /\ browser' = IF outcome = "ok" THEN Effect(browser, c, r) ELSE browser
  /\ faults' = IF outcome # "ok" /\ Possible(browser, c) THEN faults + 1 ELSE faults
Update(r, rec) == run' = [run EXCEPT ![r] = rec]

(***************************************************************************)
(* ui_login                                                                *)
(***************************************************************************)
InPhase(r, p) == run[r].phase = p
Failed(rec) == [rec EXCEPT !.phase = "route", !.required = TRUE, !.verified = "no"]
FailedStored(rec, page) == [Failed(rec) EXCEPT !.stored = TRUE, !.seen = page, !.entered = TRUE]

(* No instructions and no credentials: nothing to prepare. *)
SkipLogin(r) ==
  /\ InPhase(r, "login") /\ ~run[r].plan.given /\ ~run[r].plan.creds
  /\ Update(r, [run[r] EXCEPT !.phase = "route"])
  /\ UNCHANGED <<browser, saved, faults>>
OpenTarget(r) ==
  /\ InPhase(r, "login") /\ (run[r].plan.given \/ run[r].plan.creds)
  /\ \E outcome \in {"ok", "failed"} :
       /\ Command(r, Cmd("open", run[r].plan.url, None), outcome)
       /\ Update(r, IF outcome = "ok" THEN [run[r] EXCEPT !.phase = "inspect"] ELSE Failed(run[r]))
  /\ UNCHANGED saved

(* The page is looked at: a captcha nobody reads and a system error end    *)
(* the login; the model may find that nothing has to be prepared, but then *)
(* its notes must not name a system error.                                 *)
CaptchaUnread(rec, reads) == rec.plan.captcha /\ ~(reads /\ rec.plan.model)
PageBroken(page) == page \in Broken
NothingNeeded(rec, needs) == ~needs /\ rec.plan.model /\ ~rec.plan.creds
Unneeded(rec, page) ==
  [rec EXCEPT !.phase = "route", !.stored = TRUE, !.seen = page, !.entered = TRUE, !.post = page]
Inspected(rec, page, reads, needs, alarm) ==
  LET fails == CaptchaUnread(rec, reads) \/ PageBroken(page) \/ (NothingNeeded(rec, needs) /\ alarm)
  IN CASE fails -> FailedStored(rec, page)
       [] NothingNeeded(rec, needs) /\ ~fails -> Unneeded(rec, page)
       [] OTHER -> [rec EXCEPT !.phase = "generate", !.first = page]
Inspect(r) ==
  /\ InPhase(r, "inspect")
  /\ \E reads, needs, alarm \in BOOLEAN :
       Update(r, Inspected(run[r], browser.page, reads, needs, alarm))
  /\ UNCHANGED <<browser, saved, faults>>

(* The model writes the commands, or fails, or writes none. *)
Generate(r) ==
  /\ InPhase(r, "generate")
  /\ \/ Update(r, Failed(run[r]))
     \/ \E s \in LoginScripts :
          /\ run[r].plan.model
          /\ Update(r, IF s = <<>> THEN Failed(run[r])
                       ELSE [run[r] EXCEPT !.phase = "script", !.script = NormalizeAll(s)])
  /\ UNCHANGED <<browser, saved, faults>>
SkipStep(r) ==
  /\ InPhase(r, "script") /\ run[r].script # <<>> /\ Head(run[r].script).skip
  /\ Update(r, [run[r] EXCEPT !.script = Tail(@)])
  /\ UNCHANGED <<browser, saved, faults>>
LoginStepSent(r) ==
  /\ InPhase(r, "script") /\ run[r].script # <<>> /\ ~Head(run[r].script).skip
  /\ \E outcome \in {"ok", "failed", "not found"} :
       /\ Command(r, Head(run[r].script).cmd, outcome)
       /\ Update(r, [run[r] EXCEPT !.script = IF outcome = "not found" THEN <<>> ELSE Tail(@)])
  /\ UNCHANGED saved

(* The model, or a change of the page when it cannot be asked, decides     *)
(* whether the context is prepared; only then is the session saved.        *)
Verify(r) ==
  /\ InPhase(r, "script") /\ run[r].script = <<>>
  /\ \E verified, asked, saves \in BOOLEAN :
       LET page == browser.page
           yes == IF asked THEN verified ELSE page # run[r].first
           file == yes /\ saves
       IN /\ ~asked => verified
          /\ ~yes => saves
          /\ saved' = IF file THEN [saved EXCEPT ![r] = browser.auth] ELSE saved
          /\ Update(r, [run[r] EXCEPT !.phase = "route", !.stored = TRUE, !.required = TRUE, !.entered = TRUE,
                                      !.verified = IF yes THEN "yes" ELSE "no",
                                      !.seen = page, !.post = page, !.file = file])
  /\ UNCHANGED <<browser, faults>>

SetupFailed(rec) == rec.stored /\ rec.required /\ rec.verified = "no"
Prepared(rec) == rec.stored /\ rec.verified = "yes"
Route(r) ==
  /\ InPhase(r, "route")
  /\ Update(r, [run[r] EXCEPT !.phase = IF SetupFailed(run[r]) THEN "reported" ELSE "plan"])
  /\ UNCHANGED <<browser, saved, faults>>

(***************************************************************************)
(* ui_test_planner                                                         *)
(***************************************************************************)
Public(rec) == rec.explored # <<>> /\ ~rec.stored
Interesting(page) == UpTo(SelectSeq(Items(Elements[page], MaxItems), LAMBDA e : ItemScore(e) > 0), 4)
Explores(rec, page) ==
  [rec EXCEPT !.phase = "explore", !.explored = <<page>>,
              !.left = MapSeq(LAMBDA e : e.ref, Interesting(page))]

(* Without a login page to start from the target is opened, and whether    *)
(* that worked nobody asks; without a snapshot there is nothing to explore.*)
Plan(r) ==
  /\ InPhase(r, "plan")
  /\ \/ /\ run[r].seen # None
        /\ Update(r, Explores(run[r], browser.page))
        /\ UNCHANGED <<browser, faults>>
     \/ /\ run[r].seen = None
        /\ \/ \E outcome \in {"ok", "failed"} :
                /\ Command(r, Cmd("open", run[r].plan.url, None), outcome)
                /\ Update(r, Explores(run[r], browser'.page))
           \/ /\ faults < MaxFaults /\ faults' = faults + 1
              /\ browser' = Visit(browser, run[r].plan.url)
              /\ Update(r, [run[r] EXCEPT !.phase = "cases", !.explored = <<>>])
  /\ UNCHANGED saved

(* An element is clicked and, in a prepared context, the page it came from *)
(* opened again; a failure ends the exploration, and so do two new pages.  *)
Reset(rec, b) == IF rec.stored /\ rec.post # None THEN Visit(b, rec.post) ELSE b
ExploreClick(r) ==
  /\ InPhase(r, "explore") /\ run[r].left # <<>> /\ Len(run[r].explored) <= 2
  /\ \E outcome \in {"ok", "failed", "not found"}, back \in BOOLEAN :
       LET rec == run[r]
           c == Cmd("click", Head(rec.left), None)
           found == Effect(browser, c, r)
           new == found.page # rec.explored[1]
           resets == Reset(rec, found) # found
       IN /\ outcome \in Outcomes(browser, c)
          /\ (outcome = "ok" /\ resets /\ faults < MaxFaults) \/ back
          /\ browser' = CASE outcome # "ok" -> browser
                          [] outcome = "ok" /\ back -> Reset(rec, found)
                          [] OTHER -> found
          /\ faults' = IF ~back \/ (outcome # "ok" /\ Possible(browser, c)) THEN faults + 1 ELSE faults
          /\ Update(r, IF outcome # "ok" THEN [rec EXCEPT !.left = <<>>]
                       ELSE [rec EXCEPT !.left = IF back THEN Tail(@) ELSE <<>>,
                                        !.explored = IF new THEN Append(@, found.page) ELSE @])
  /\ UNCHANGED saved
EndExplore(r) ==
  /\ InPhase(r, "explore") /\ (run[r].left = <<>> \/ Len(run[r].explored) > 2)
  /\ Update(r, [run[r] EXCEPT !.phase = "cases"])
  /\ UNCHANGED <<browser, saved, faults>>

(* The cases the stage was given, or the model's, or the fallback; merged  *)
(* with business cases of the pages seen unless they are the user's.       *)
Seen(rec) == FlattenSeq(MapSeq(LAMBDA p : Elements[p], rec.explored))
Preserved(rec) == rec.plan.suite \/ (rec.cases # <<>> /\ ~rec.plan.model)
Kept(rec) == IF Prepared(rec) /\ ~Preserved(rec) THEN <<>> ELSE rec.cases
Planned(rec, answer) ==
  LET given == IF Kept(rec) # <<>> THEN Kept(rec) ELSE MapSeq(NormalizeCase, answer)
      cases == IF given # <<>> THEN given ELSE MapSeq(NormalizeCase, FallbackCases(rec.plan.url))
      business == IF Prepared(rec) THEN PreparedCases(Seen(rec)) ELSE PublicCases(Seen(rec))
      merges == ~Preserved(rec) /\ (Prepared(rec) \/ Public(rec))
  IN MapSeq(NormalizeCase, IF merges THEN Merge(cases, business, Prepared(rec)) ELSE cases)
Asks(rec) == Kept(rec) = <<>> /\ rec.plan.model /\ rec.explored # <<>>
PlanCases(r) ==
  /\ InPhase(r, "cases")
  /\ \E answer \in ModelCases \cup {<<>>} :
       /\ answer # <<>> => Asks(run[r])
       /\ Update(r, [run[r] EXCEPT !.phase = "decide", !.cases = Planned(run[r], answer),
                                   !.left = <<>>, !.explored = <<>>])
  /\ UNCHANGED <<browser, saved, faults>>

(***************************************************************************)
(* ui_runner: which cases use the prepared context                         *)
(***************************************************************************)
Available(rec) == rec.required /\ rec.verified = "yes"
Validates(case) == case.login \/ case.category \in {"AUTH", "LOGIN"}
Fallback(rec, case) ==
  Available(rec) /\ (case.auth = "yes" \/ (case.auth = "unset" /\ ~Validates(case) /\ ~rec.plan.suite))
(* The model decides for every case, or the metadata does. *)
Decisions == {"fallback", "none", "use", "strip"}
Decision(rec, case, choice) ==
  LET use == IF choice = "fallback" THEN Fallback(rec, case) ELSE choice # "none"
  IN [use |-> use, strip |-> IF choice = "fallback" THEN use ELSE choice = "strip"]
DecideListed(rec, choice) ==
  MapSeq(LAMBDA x : Decision(rec, x, choice), SelectSeq(rec.cases, LAMBDA x : x.commands # <<>>))
DecideAll(rec, choice) == MapSeq(LAMBDA x : Decision(rec, x, choice), rec.cases)
Decide(r) ==
  /\ InPhase(r, "decide")
  /\ \E choice \in Decisions :
       /\ choice # "fallback" => Available(run[r]) /\ run[r].plan.model
       /\ Update(r, [run[r] EXCEPT
                       !.phase = "case", !.results = <<>>,
                       !.decided = DecideAll(run[r], choice)])
  /\ UNCHANGED <<browser, saved, faults>>

SetupGotoFirst(rec) ==
  IF ~Prepared(rec) THEN <<>>
  ELSE <<Cmd("goto", IF rec.post # None THEN rec.post ELSE rec.plan.url, None)>>
         \o (IF rec.file THEN <<Cmd("open", "blank", None), Plain("state-load")>> ELSE <<>>)
SetupCommands(rec) ==
  IF ~Prepared(rec) THEN <<>>
  ELSE (IF rec.file THEN <<Cmd("open", "blank", None), Plain("state-load")>> ELSE <<>>)
         \o <<Cmd("goto", IF rec.post # None THEN rec.post ELSE rec.plan.url, None)>>

(***************************************************************************)
(* ui_runner: the cases, one after the other                               *)
(***************************************************************************)
Current(rec) == Len(rec.results) + 1
TheCase(rec) == rec.cases[Current(rec)]
Uses(rec) == SetupCommands(rec) # <<>> /\ rec.decided[Current(rec)].use
StartCase(r) ==
  /\ InPhase(r, "case") /\ run[r].specs = <<>> /\ Current(run[r]) <= Len(run[r].cases)
  /\ LET rec == run[r]
     IN Update(r, [rec EXCEPT !.specs = Batch(TheCase(rec), rec.plan.url, SetupCommands(rec), Uses(rec),
                                              rec.decided[Current(rec)].strip),
                              !.at = 1, !.passed = TRUE, !.entries = <<>>])
  /\ UNCHANGED <<browser, saved, faults>>
Running(rec) == rec.phase = "case" /\ rec.at \in DOMAIN rec.specs
Entry(c, status, page) == [cmd |-> c, status |-> status, page |-> page]
SkipSpec(r) ==
  /\ Running(run[r]) /\ run[r].specs[run[r].at].skip
  /\ LET rec == run[r]
         spec == rec.specs[rec.at]
     IN Update(r, [rec EXCEPT !.at = @ + 1, !.passed = @ /\ ~spec.blocked,
                              !.entries = Append(@, Entry(spec.cmd, IF spec.blocked THEN "blocked" ELSE "skipped", None))])
  /\ UNCHANGED <<browser, saved, faults>>

(* A ref in a case about an element gives way to the element's text, and a *)
(* text to the ref that fits it best now: the text itself before one it is *)
(* a part of, before a part of it, and what can be clicked one step before.*)
SemanticKept(c, case) == c
Semantic(c, case) ==
  IF c.name \in {"click", "fill", "select"} /\ c.arg \in Refs /\ case.target # None
  THEN [c EXCEPT !.arg = case.target] ELSE c
Label(e) == IF Named(e) THEN e.text ELSE None
Fillable == {"textbox", "searchbox", "combobox", "spinbutton"}
FitLoosely(e, text) == IF e.pointer THEN 0 ELSE 1
Fit(e, text) ==
  (CASE Label(e) = text -> 1 [] <<text, Label(e)>> \in Parts -> 2 [] OTHER -> 3) - (IF e.pointer THEN 1 ELSE 0)
Bearing(page, c) ==
  LET fits(e) == /\ Label(e) # None /\ (PartOf(c.arg, Label(e)) \/ PartOf(Label(e), c.arg))
                 /\ c.name \in {"fill", "select"} => e.role \in Fillable
      fit(n) == SelectSeq(Elements[page], LAMBDA e : fits(e) /\ Fit(e, c.arg) = n)
  IN fit(0) \o fit(1) \o fit(2) \o fit(3)
Clickables(page) == SelectSeq(Elements[page], LAMBDA e : e.pointer /\ e.role \in {"link", "button"})
Found(page, c) ==
  LET only == IF c.name = "click" /\ Len(Clickables(page)) = 1 THEN Clickables(page) ELSE <<>>
  IN MapSeq(LAMBDA e : e.ref, Bearing(page, c) \o only)
Resolved(c, case, page) ==
  LET s == Semantic(c, case)
      refs == Found(page, s)
  IN IF s.arg \in Refs \cup {None} \/ Selector(s.arg) \/ refs = <<>> THEN s ELSE [s EXCEPT !.arg = Head(refs)]
NeedsPage(rec) ==
  LET spec == rec.specs[rec.at]
      c == Semantic(spec.cmd, TheCase(rec))
  IN spec.kind = "command" /\ c.name \in {"click", "fill", "select"} /\ c.arg \notin Refs
Ready(rec) == Running(rec) /\ ~rec.specs[rec.at].skip /\ (NeedsPage(rec) => rec.sent # Plain(None))
(* Without a snapshot the text is sent as it is. *)
Resolve(r) ==
  LET rec == run[r]
      c == rec.specs[rec.at].cmd
  IN /\ Running(rec) /\ ~rec.specs[rec.at].skip /\ ~Ready(rec)
     /\ \/ /\ Update(r, [rec EXCEPT !.sent = Resolved(c, TheCase(rec), browser.page)])
           /\ UNCHANGED faults
        \/ /\ faults < MaxFaults /\ faults' = faults + 1
           /\ Update(r, [rec EXCEPT !.sent = Semantic(c, TheCase(rec))])
     /\ UNCHANGED <<browser, saved>>

(* A spec is sent; an assertion reads the snapshot, a screenshot counts    *)
(* when its file is there, and an element that is not found ends the case. *)
ToSend(rec) == IF NeedsPage(rec) THEN rec.sent ELSE rec.specs[rec.at].cmd
Holds(spec, page) == spec.kind = "assert" /\ spec.expected # None => Shows(page, spec.expected)
Status(spec, outcome, page) == IF outcome = "ok" /\ ~Holds(spec, page) THEN "failed" ELSE outcome
Send(r) ==
  /\ Ready(run[r])
  /\ \E outcome \in {"ok", "failed", "not found"} :
       LET rec == run[r]
           spec == rec.specs[rec.at]
           c == ToSend(rec)
           status == Status(spec, outcome, browser.page)
       IN /\ Command(r, c, outcome)
          /\ Update(r, [rec EXCEPT !.at = IF status = "not found" THEN Len(rec.specs) + 1 ELSE @ + 1,
                                   !.sent = Plain(None),
                                   !.passed = @ /\ status = "ok",
                                   !.entries = Append(@, Entry(c, status, browser'.page))])
  /\ UNCHANGED saved
HasShot(entries) == \E i \in DOMAIN entries : entries[i].cmd.name = "screenshot" /\ entries[i].status = "ok"
Over(rec) == rec.phase = "case" /\ rec.specs # <<>> /\ rec.at > Len(rec.specs)
Executed(entries) == Cardinality({i \in DOMAIN entries : entries[i].status # "skipped"})
ExecutableIn(specs) == Cardinality({i \in DOMAIN specs : ~specs[i].skip})
Result(rec, passed, entries) ==
  [passed |-> passed, entries |-> entries, specs |-> rec.specs, prepared |-> Uses(rec)]
EndCaseRetrying(r, passed, entries) ==
  Update(r, [run[r] EXCEPT !.results = IF passed THEN Append(@, Result(run[r], passed, entries)) ELSE @,
                           !.specs = <<>>, !.entries = <<>>, !.at = 1, !.passed = TRUE])
EndCase(r, passed, entries) ==
  Update(r, [run[r] EXCEPT !.results = Append(@, Result(run[r], passed, entries)), !.specs = <<>>,
                           !.entries = <<>>, !.at = 1, !.passed = TRUE])
FinishCase(r) ==
  /\ Over(run[r]) /\ HasShot(run[r].entries)
  /\ EndCase(r, run[r].passed, run[r].entries)
  /\ UNCHANGED <<browser, saved, faults>>
(* A case without a picture gets a last one. *)
FinalShot(r) ==
  /\ Over(run[r]) /\ ~HasShot(run[r].entries)
  /\ \E outcome \in {"ok", "failed"} :
       /\ Command(r, Plain("screenshot"), outcome)
       /\ EndCase(r, run[r].passed /\ outcome = "ok",
                  Append(run[r].entries, Entry(Plain("screenshot"), outcome, browser.page)))
  /\ UNCHANGED saved
Report(r) ==
  /\ InPhase(r, "case") /\ run[r].specs = <<>> /\ Current(run[r]) > Len(run[r].cases)
  /\ Update(r, [run[r] EXCEPT !.phase = "reported"])
  /\ UNCHANGED <<browser, saved, faults>>

(* The evaluator may ask for the stage to be planned, or executed, again. *)
Replan(r) ==
  /\ InPhase(r, "reported") /\ run[r].results # <<>> /\ run[r].round < MaxRounds
  /\ \E phase \in {"plan", "decide"} : Update(r, [run[r] EXCEPT !.phase = phase, !.round = @ + 1])
  /\ UNCHANGED <<browser, saved, faults>>

Step(r) ==
  \/ SkipLogin(r) \/ OpenTarget(r) \/ Inspect(r) \/ Generate(r) \/ SkipStep(r) \/ LoginStepSent(r)
  \/ Verify(r) \/ Route(r) \/ Plan(r) \/ ExploreClick(r) \/ EndExplore(r) \/ PlanCases(r) \/ Decide(r)
  \/ StartCase(r) \/ SkipSpec(r) \/ Resolve(r) \/ Send(r) \/ FinishCase(r) \/ FinalShot(r) \/ Report(r)
Done == (\A r \in Runs : InPhase(r, "reported")) /\ UNCHANGED vars
Next == (\E r \in Runs : Step(r) \/ Replan(r)) \/ Done
(* Weak fairness of Step(r), with ENABLED Step(r) written out: a step is    *)
(* possible exactly until the stage is reported, and every step changes    *)
(* the state.                                                              *)
Fairness == \A r \in Runs : []<>InPhase(r, "reported") \/ []<><<Step(r)>>_vars
Spec == Init /\ [][Next]_vars /\ Fairness

(***************************************************************************)
(* Properties                                                              *)
(***************************************************************************)
Phases == {"login", "inspect", "generate", "script", "route", "plan", "explore", "cases", "decide", "case", "reported"}
(* Every run is in a phase of the stage, with as many decisions as cases    *)
(* and no more results, and the browser shows a page of the site.          *)
TypeOK ==
  /\ browser.page \in DOMAIN Elements /\ browser.auth \in BOOLEAN
  /\ saved \in [Runs -> BOOLEAN] /\ faults \in 0..MaxFaults
  /\ \A r \in Runs :
       /\ run[r].phase \in Phases /\ run[r].verified \in {"yes", "no", "na"} /\ run[r].round \in 0..MaxRounds
       /\ run[r].phase = "case" => Len(run[r].decided) = Len(run[r].cases) /\ Len(run[r].results) <= Len(run[r].cases)
       /\ run[r].at \in 1..(Len(run[r].specs) + 1)

(* What the user asked to be prepared and was not stops the stage: nothing  *)
(* is explored, planned or executed (ui_runner.run, the first return).     *)
NoCasesUnprepared ==
  \A r \in Runs : run[r].plan.given /\ run[r].required /\ run[r].verified = "no"
                    => run[r].phase \in {"route", "reported"} /\ run[r].results = <<>>

(* A case in the prepared context begins where the setup ended, signed in   *)
(* as the saved session was, whatever the cases before it did to the        *)
(* browser (authenticated_setup_commands).                                 *)
SetupRan(rec) ==
  /\ Running(rec) /\ Uses(rec) /\ rec.file /\ rec.at = Len(SetupCommands(rec)) + 1
  /\ \A i \in DOMAIN rec.entries : rec.entries[i].status = "ok"
CasesStartPrepared ==
  \A r \in Runs : SetupRan(run[r]) => browser = [page |-> Lands(run[r].post, saved[r]), auth |-> saved[r]]

(* Whatever a model or a user wrote, the runner executes no script but its  *)
(* own wait: a script is blocked as an action before it gets there.        *)
NoScriptRuns ==
  \A r \in Runs : Running(run[r]) /\ ~run[r].specs[run[r].at].skip /\ ToSend(run[r]).name \in Scripts
    => ToSend(run[r]) = SmartWait.cmd

(* A case about an element never acts on a ref of another page: what is     *)
(* clicked or filled bears, now, a text that is, has or is a part of the   *)
(* one the case names, and exactly that text if an element with the        *)
(* pointer does; or it is the only thing that can be clicked               *)
(* (_find_ref_by_text, _find_single_clickable_ref).                        *)
Asked(rec) == IF rec.specs[rec.at].cmd.arg \in Refs THEN TheCase(rec).target ELSE rec.specs[rec.at].cmd.arg
Meant(rec, c) ==
  LET here == Elements[browser.page]
      name == Asked(rec)
      suits(e) == e.pointer /\ (c.name = "fill" => e.role \in Fillable)
  IN /\ \E i \in On(browser.page, c.arg) :
          PartOf(here[i].text, name) \/ PartOf(name, here[i].text) \/ Clickables(browser.page) = <<here[i]>>
     /\ (\E j \in DOMAIN here : suits(here[j]) /\ Label(here[j]) = name) =>
          \E i \in On(browser.page, c.arg) : here[i].text = name
RefsAreCurrent ==
  \A r \in Runs : Ready(run[r]) /\ TheCase(run[r]).target # None /\ ToSend(run[r]).name \in {"click", "fill"}
    => (ToSend(run[r]).arg \in Refs => Meant(run[r], ToSend(run[r])))

(* A case is passed only when everything planned for it was executed, and   *)
(* every action was photographed on the page it led to before the next.    *)
IsActed(e) == e.cmd.name \in ActionCommands /\ e.cmd # Cmd("open", "blank", None)
Photographed(entries, i) ==
  \E j \in (i + 1)..Len(entries) :
    /\ entries[j].cmd.name = "screenshot" /\ entries[j].status = "ok" /\ entries[j].page = entries[i].page
    /\ \A k \in (i + 1)..(j - 1) : ~IsActed(entries[k])
PassedIsEvidenced ==
  \A r \in Runs : \A n \in DOMAIN run[r].results :
    LET res == run[r].results[n]
    IN res.passed => /\ Len(res.entries) >= Len(res.specs)
                     /\ \A i \in DOMAIN res.entries : res.entries[i].status \in {"ok", "skipped"}
                     /\ \A i \in DOMAIN res.entries : IsActed(res.entries[i]) => Photographed(res.entries, i)

(* The stage reports success exactly when every case passed: the commands   *)
(* it counts as planned and as completed then agree.                       *)
SumOf(rec, Count(_)) == FoldLeft(LAMBDA acc, res : acc + Count(res), 0, rec.results)
AllPassed(rec) ==
  /\ Len(rec.results) = Len(rec.cases) /\ \A n \in DOMAIN rec.results : rec.results[n].passed
  /\ SumOf(rec, LAMBDA res : Executed(res.entries)) = SumOf(rec, LAMBDA res : ExecutableIn(res.specs))
SuccessIsReported ==
  \A r \in Runs : InPhase(r, "reported") /\ run[r].results # <<>>
    => (AllPassed(run[r]) <=> \A n \in DOMAIN run[r].results : run[r].results[n].passed)

(* Every run's stage is reported, whatever fails on the way. *)
StageEnds == \A r \in Runs : []<>InPhase(r, "reported")

\* No case runs but in the context it was to be prepared in.
CasesArePrepared == NoCasesUnprepared /\ CasesStartPrepared

\* No script of a model's or a user's runs, and what acts on an element acts on one of
\* the page that is there now, for the text the case names.
CommandsAreMeant == NoScriptRuns /\ RefsAreCurrent

\* A verdict is what the evidence shows, of a case as of the stage.
ResultsAreTrue == PassedIsEvidenced /\ SuccessIsReported
=============================================================================
