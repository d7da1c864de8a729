----------------------------- MODULE AgentGraph -----------------------------
(***************************************************************************)
(* The agent graph of one run (build_graph): the order in which its nodes  *)
(* run, the loop that execution_evaluator closes around the two runners    *)
(* (retry, replan, continue to the UI, report), and the status the run     *)
(* ends with.                                                              *)
(*                                                                         *)
(* What the language model, the tested system and the browser answer is a  *)
(* choice.  Evidence is abstracted to what the routing looks at: the class *)
(* of a stage's counts (out), whether it was thin, covered or reportable,  *)
(* and the class of the failure that stands out.  Of the history of        *)
(* observations only one fact is kept, that a stage met a failure that     *)
(* needs a human (human), since _stage_failure_type prefers such a failure *)
(* whenever it occurred; that AgentRuntime drops observations beyond a     *)
(* thousand is ignored.                                                    *)
(***************************************************************************)
EXTENDS Naturals

CONSTANTS
  MaxAttempts,  \* settings.AGENT_MAX_REPLAN_ATTEMPTS, at least 0
  Configs       \* what runs are created with

Stages == {"api", "ui"}

ASSUME MaxAttemptsAssumption == MaxAttempts \in Nat

\* test_type; ui_seed_url and base_url_override given; source_input = "suite";
\* setup_instructions given by the user; auth_credentials configured.
Config == [test : {"auto", "api", "ui", "full"}, seed : BOOLEAN,
           baseUrl : BOOLEAN, suite : BOOLEAN, given : BOOLEAN,
           credentials : BOOLEAN]

ASSUME ConfigsAssumption == Configs \subseteq Config

VARIABLES
  node,         \* the graph node that runs next; "end" after knowledge_sink
  config,       \* what the run was created with
  input,        \* input_type
  schema,       \* parsed_api_schema is not empty
  instructions, \* setup_instructions of the state are not empty
  apiCases, uiCases,  \* where the cases come from
  setup,        \* setup_result with login_verified
  stage,        \* agent_execution_stage
  replans, retries,   \* agent_replan_counts, agent_retry_counts
  out,          \* what the last attempt of each stage counted
  human,        \* stages whose history holds a failure that needs a human
  evaluation,   \* evidence_evaluation: next_action, sufficient_evidence
  verdict,      \* of final_report
  status,       \* determine_final_status
  steps         \* nodes that ran

vars == <<node, config, input, schema, instructions, apiCases, uiCases, setup,
          stage, replans, retries, out, human, evaluation, verdict, status, steps>>

Nodes == {"input_classifier", "source_loader", "mission_planner",
          "knowledge_retriever", "planner", "agent_supervisor", "tc_generator",
          "api_runner", "execution_evaluator", "ui_login", "ui_test_planner",
          "ui_runner", "reporter", "knowledge_sink", "end"}

Actions == {"report", "continue", "continue_to_ui", "retry_same_action",
            "replan_api", "replan_ui", "ask_human"}

Cases == {"none", "chosen", "generated"}

\* The counts of a stage.  "nothing": no request was built; "skipped" and
\* "blocked": none was executed, without and with blocking skips; "loose": no
\* case failed but a planned command did not run, so all_passed is FALSE;
\* "some", "none": failures, with and without a pass.
Counts == {"nothing", "skipped", "blocked", "all", "loose", "some", "none"}

TypeOK ==
  /\ node \in Nodes
  /\ config \in Config
  /\ input \in {"unknown", "url", "swagger"}
  /\ schema \in BOOLEAN
  /\ instructions \in BOOLEAN
  /\ apiCases \in Cases
  /\ uiCases \in Cases
  /\ setup \in {"none", "skipped", "verified", "failed"}
  /\ stage \in {"none"} \cup Stages
  /\ replans \in [Stages -> 0 .. MaxAttempts]
  /\ retries \in [Stages -> 0 .. MaxAttempts]
  /\ out \in [Stages -> Counts \cup {"absent"}]
  /\ human \subseteq Stages
  /\ evaluation \in [action : Actions \cup {"none"}, sufficient : BOOLEAN]
  /\ verdict \in {"none", "PASS", "PARTIAL", "FAIL", "NOT_EXECUTED"}
  /\ status \in {"none", "SUCCEEDED", "BUG_FOUND", "FAILED"}
  /\ steps \in Nat

NoDecision == [action |-> "none", sufficient |-> FALSE]

\* A suite brings the cases its test type runs, no base URL and no
\* credentials (a continuation of it may add instructions).  Any other run may
\* carry cases over from the run it continues.
Init ==
  /\ node = "input_classifier"
  /\ config \in Configs
  /\ apiCases \in {"none", "chosen"}
  /\ uiCases \in {"none", "chosen"}
  /\ config.suite =>
       /\ ~config.baseUrl /\ ~config.credentials
       /\ apiCases = "chosen" <=> config.test # "ui"
       /\ uiCases = "chosen" <=> config.test # "api"
       /\ config.seed => uiCases = "chosen"
  /\ input = "unknown"
  /\ schema = FALSE
  /\ instructions = config.given
  /\ setup = "none"
  /\ stage = "none"
  /\ replans = [s \in Stages |-> 0]
  /\ retries = [s \in Stages |-> 0]
  /\ out = [s \in Stages |-> "absent"]
  /\ human = {}
  /\ evaluation = NoDecision
  /\ verdict = "none"
  /\ status = "none"
  /\ steps = 0

----------------------------------------------------------------------------
\* A node runs and the graph goes on at next.
Goto(next) == node' = next /\ steps' = steps + 1

Loaded  == <<config, input, schema>>
Tested  == <<stage, replans, retries, out, human, evaluation>>
Closing == <<verdict, status>>

\* input_classifier.run
InputClassifier ==
  /\ node = "input_classifier"
  /\ Goto("source_loader")
  /\ input' \in IF config.suite THEN {"url"} ELSE {"url", "swagger"}
  /\ UNCHANGED <<config, schema, instructions, apiCases, uiCases, setup,
                 Tested, Closing>>

\* source_loader.run: a URL may serve a document after all, a document may be
\* out of reach or unreadable.
SourceLoader ==
  /\ node = "source_loader"
  /\ Goto("mission_planner")
  /\ input' \in IF config.suite THEN {input} ELSE {input, "swagger"}
  /\ schema' \in IF input' = "swagger" THEN BOOLEAN ELSE {FALSE}
  /\ UNCHANGED <<config, instructions, apiCases, uiCases, setup, Tested, Closing>>

After == [mission_planner     |-> "knowledge_retriever",
          knowledge_retriever |-> "planner",
          planner             |-> "agent_supervisor",
          knowledge_sink      |-> "end"]

\* The nodes that only enrich the state, and the one that stores what the run
\* has learnt.
PassOn ==
  /\ node \in DOMAIN After
  /\ Goto(After[node])
  /\ UNCHANGED <<Loaded, instructions, apiCases, uiCases, setup, Tested, Closing>>

----------------------------------------------------------------------------
\* The targets, as graph.py sees them; execution_evaluator's are wider.
ApiMaterial == schema \/ config.baseUrl \/ apiCases # "none"
UiTarget    == input = "url" \/ config.seed
HasUiTarget ==
  /\ config.test # "api"
  /\ config.test \in {"ui", "full"} \/ UiTarget \/ uiCases # "none"
HasApiTarget ==
  /\ config.test # "ui"
  /\ config.test \in {"api", "full"} \/ ApiMaterial

\* _after_agent_supervisor
AgentSupervisor ==
  /\ node = "agent_supervisor"
  /\ Goto(IF config.test = "ui" \/ (config.test = "auto" /\ UiTarget /\ ~ApiMaterial)
            THEN "ui_login" ELSE "tc_generator")
  /\ UNCHANGED <<Loaded, instructions, apiCases, uiCases, setup, Tested, Closing>>

\* The language model is asked only when there are no cases at all; what it
\* or a fallback generates may be discarded again by validate_generated_api_cases.
CanGenerateApi ==
  schema \/ config.baseUrl \/ config.test \in {"api", "full"} \/ uiCases = "none"

GeneratedApi ==
  IF config.test = "ui" THEN {"none"}
  ELSE IF apiCases # "none" THEN {apiCases}
  ELSE IF CanGenerateApi THEN {"none", "generated"} ELSE {"none"}

GeneratedUi ==
  IF config.test = "api" THEN {"none"}
  ELSE IF uiCases # "none" THEN {uiCases}
  ELSE IF input = "url" THEN {"generated"}
  ELSE IF apiCases = "none" THEN {"none", "generated"} ELSE {"none"}

\* _after_tc_generator, on the state tc_generator left (api: its api_cases)
AfterTcGenerator(api) ==
  IF \/ config.test \in {"api", "full"}
     \/ config.test = "auto" /\ (schema \/ (UiTarget /\ (config.baseUrl \/ api # "none")))
  THEN "api_runner" ELSE "ui_login"

\* tc_generator.run
TcGenerator ==
  /\ node = "tc_generator"
  /\ apiCases' \in GeneratedApi
  /\ uiCases' \in GeneratedUi
  /\ Goto(AfterTcGenerator(apiCases'))
  /\ UNCHANGED <<Loaded, instructions, setup, Tested, Closing>>

\* api_runner.run: cases that were generated are validated once more.
ApiRunner ==
  /\ node = "api_runner"
  /\ Goto("execution_evaluator")
  /\ stage' = "api"
  /\ apiCases' \in {apiCases} \cup IF apiCases = "generated" THEN {"none"} ELSE {}
  /\ \E c \in Counts \ {"loose"} : out' = [out EXCEPT !["api"] = c]
  /\ UNCHANGED <<Loaded, instructions, uiCases, setup, replans, retries, human,
                 evaluation, Closing>>

----------------------------------------------------------------------------
\* setup_required is read from the instructions the state holds.
SetupFailed == instructions /\ setup = "failed"

\* Mutant: _after_ui_login without its condition.
LoginGoesOn(result, stored) ==
  /\ setup' = result
  /\ instructions' = stored
  /\ node' = "ui_test_planner"

\* ui_login.run: credentials without instructions get default instructions,
\* which some of the ways to fail do not store in the state.
Login(result, stored) ==
  /\ setup' = result
  /\ instructions' = stored
  /\ node' = IF stored /\ result = "failed" THEN "reporter" ELSE "ui_test_planner"

UiLogin ==
  /\ node = "ui_login"
  /\ IF instructions \/ config.credentials
     THEN \/ Login("skipped", TRUE)
          \/ Login("verified", TRUE)
          \/ \E stored \in {TRUE, instructions} : Login("failed", stored)
     ELSE Login("skipped", instructions)
  /\ steps' = steps + 1
  /\ UNCHANGED <<Loaded, apiCases, uiCases, Tested, Closing>>

\* ui_test_planner.run: only a suite's cases are kept as they are.
PlannedUi ==
  IF SetupFailed \/ (config.suite /\ uiCases # "none") THEN {uiCases}
  ELSE {"generated", uiCases} \ {"none"}

UiTestPlanner ==
  /\ node = "ui_test_planner"
  /\ Goto("ui_runner")
  /\ uiCases' \in PlannedUi
  /\ UNCHANGED <<Loaded, instructions, apiCases, setup, Tested, Closing>>

\* ui_runner.run
UiRunner ==
  /\ node = "ui_runner"
  /\ Goto("execution_evaluator")
  /\ stage' = "ui"
  /\ \E c \in IF SetupFailed THEN {"none"} ELSE {"all", "loose", "some", "none"} :
       out' = [out EXCEPT !["ui"] = c]
  /\ UNCHANGED <<Loaded, instructions, apiCases, uiCases, setup, replans, retries,
                 human, evaluation, Closing>>

----------------------------------------------------------------------------
(* execution_evaluator.  A finding is what one evaluation sees in a stage. *)

\* failure: the class of _stage_failure_type.  "ask" stops for a human, "masked"
\* needs a human but the stage does not ask for one (an authentication failure
\* where an authentication is configured), "transient" is worth a retry.
Findings(s) ==
  {f \in [failure : {"none", "transient", "ask", "masked"},
          thin : BOOLEAN, covered : BOOLEAN, reportable : BOOLEAN] :
     /\ f.covered \/ f.reportable => s = "api" /\ schema /\ out[s] # "nothing"
     /\ s \in human => f.failure \in {"ask", "masked"}}

\* Mutant: one attempt too many.
OneMoreRetry(s)  == retries[s] <= MaxAttempts

CanReplan(s) == replans[s] < MaxAttempts
CanRetry(s)  == retries[s] < MaxAttempts

Replan(s) == IF s = "api" THEN "replan_api" ELSE "replan_ui"

AllowedActions(s) ==
  {"report", "retry_same_action", "ask_human", Replan(s)}
  \cup IF s = "api" /\ HasUiTarget THEN {"continue_to_ui"} ELSE {"continue"}

NeedsHuman(s, f) == f.failure = "ask" \/ (s = "ui" /\ SetupFailed)

NeedsReplan(s, f) ==
  /\ IF s = "api" THEN HasApiTarget /\ ~f.covered ELSE HasUiTarget /\ ~SetupFailed
  /\ ~config.suite
  /\ f.thin \/ (s = "api" /\ out[s] = "nothing" /\ ApiMaterial)

Decide(action, sufficient) == [action |-> action, sufficient |-> sufficient]

Onward(s) ==
  Decide(IF s = "api" /\ HasUiTarget THEN "continue_to_ui" ELSE "report", TRUE)

\* _guardrail_decision: what the evidence demands
GuardrailDecision(s, f) ==
  IF out[s] = "all" THEN Onward(s)
  ELSE IF NeedsHuman(s, f) THEN Decide("ask_human", FALSE)
  ELSE IF f.failure = "transient"
       THEN Decide(IF CanRetry(s) THEN "retry_same_action" ELSE "report", FALSE)
  ELSE IF NeedsReplan(s, f)
       THEN Decide(IF CanReplan(s) THEN Replan(s) ELSE "report", FALSE)
  ELSE Onward(s)

\* _model_decision and _normalize_model_decision: any action that is allowed,
\* or no usable answer
ModelDecisions(s) ==
  {NoDecision} \cup [action : AllowedActions(s), sufficient : BOOLEAN]

StopActions == {"retry_same_action", "replan_api", "replan_ui", "ask_human"}

\* Mutant: a report is taken whatever the guardrail would do.
ReportHeeded(s, g, m, f) ==
  /\ g.action \notin StopActions
  /\ g.sufficient
  /\ m.action # "none"

\* _merge_decisions: when the model's decision m is taken over the guardrail's g
Heeded(s, g, m, f) ==
  /\ g.action \notin StopActions
  /\ g.sufficient
  /\ \/ m.action = Replan(s) /\ CanReplan(s) /\ ~f.covered /\ ~f.reportable
     \/ m.action = "retry_same_action" /\ CanRetry(s)
     \/ m.action \in {"ask_human", "continue_to_ui", "continue"}
     \/ m.action = "report" /\ g.action = "report"

MergeDecisions(s, g, m, f) ==
  IF ~Heeded(s, g, m, f) THEN g
  ELSE IF m.action = "continue" THEN Decide(g.action, m.sufficient)
  ELSE m

\* Mutant: the retry forgets its stage.
RetryApi(s, action) ==
  CASE action = "retry_same_action" -> "api_runner"
    [] action = "continue_to_ui"    -> "ui_login"
    [] action = "replan_api"        -> "tc_generator"
    [] action = "replan_ui"         -> "ui_test_planner"
    [] OTHER                        -> "reporter"

\* _ACTION_TO_NODE and route_after_evaluation
NextNode(s, action) ==
  CASE action = "retry_same_action" -> IF s = "api" THEN "api_runner" ELSE "ui_runner"
    [] action = "continue_to_ui"    -> "ui_login"
    [] action = "replan_api"        -> "tc_generator"
    [] action = "replan_ui"         -> "ui_test_planner"
    [] OTHER                        -> "reporter"

\* _apply_decision
ApplyDecision(s, action) ==
  /\ Goto(NextNode(s, action))
  /\ replans' = [replans EXCEPT ![s] = IF action = Replan(s) THEN @ + 1 ELSE @]
  /\ retries' = [retries EXCEPT ![s] = IF action = "retry_same_action" THEN @ + 1 ELSE @]
  /\ apiCases' = IF action = "replan_api" THEN "none" ELSE apiCases
  /\ uiCases' = IF action = "replan_ui" THEN "none" ELSE uiCases

\* execution_evaluator.run
ExecutionEvaluator ==
  /\ node = "execution_evaluator"
  /\ \E f \in Findings(stage), m \in ModelDecisions(stage) :
       /\ evaluation' = MergeDecisions(stage, GuardrailDecision(stage, f), m, f)
       /\ human' = human \cup {s \in {stage} : f.failure \in {"ask", "masked"}}
  /\ ApplyDecision(stage, evaluation'.action)
  /\ UNCHANGED <<Loaded, instructions, setup, stage, out, Closing>>

----------------------------------------------------------------------------
Executed == {s \in Stages : out[s] \in {"all", "loose", "some", "none"}}
Failing  == {s \in Stages : out[s] \in {"blocked", "some", "none"}}
Passed   == {s \in Stages : out[s] \in {"all", "loose", "some"}}

\* reporter.run: the verdict of the report
Verdict ==
  IF Executed = {} THEN IF SetupFailed THEN "FAIL" ELSE "NOT_EXECUTED"
  ELSE IF Failing = {} /\ ~SetupFailed THEN "PASS"
  ELSE IF Passed # {} THEN "PARTIAL"
  ELSE "FAIL"

Reporter ==
  /\ node = "reporter"
  /\ Goto("knowledge_sink")
  /\ verdict' = Verdict
  /\ UNCHANGED <<Loaded, instructions, apiCases, uiCases, setup, Tested, status>>

\* determine_final_status.  PARTIAL and NOT_EXECUTED are no verdicts it knows:
\* it counts again.  execution_result is the API stage's, with a status code.
\* Mutant: a stage with one pass counts as passed.
AnyApiPassed == out["api"] \in {"absent", "all", "skipped", "some"}

ApiPassed == out["api"] \in {"absent", "all", "skipped"}
UiPassed  == out["ui"] \in {"absent", "all"}

FinalStatus(lastError) ==
  IF verdict = "PASS" THEN "SUCCEEDED"
  ELSE IF verdict = "FAIL" THEN "FAILED"
  ELSE IF \A s \in Stages : out[s] = "absent" THEN "FAILED"
  ELSE IF ApiPassed /\ UiPassed THEN "SUCCEEDED"
  ELSE IF Passed # {} \/ lastError THEN "BUG_FOUND"
  ELSE "FAILED"

DetermineFinalStatus ==
  /\ node = "end"
  /\ status = "none"
  /\ \E lastError \in BOOLEAN : status' = FinalStatus(lastError)
  /\ UNCHANGED <<node, Loaded, instructions, apiCases, uiCases, setup, Tested,
                 verdict, steps>>

Next ==
  \/ InputClassifier \/ SourceLoader \/ PassOn \/ AgentSupervisor \/ TcGenerator
  \/ ApiRunner \/ UiLogin \/ UiTestPlanner \/ UiRunner \/ ExecutionEvaluator
  \/ Reporter \/ DetermineFinalStatus

Spec == Init /\ [][Next]_vars

----------------------------------------------------------------------------
(* Properties *)

\* What is left to do before the run ends, if no more attempts were granted.
Distance ==
  CASE node = "input_classifier"    -> 15
    [] node = "source_loader"       -> 14
    [] node = "mission_planner"     -> 13
    [] node = "knowledge_retriever" -> 12
    [] node = "planner"             -> 11
    [] node = "agent_supervisor"    -> 10
    [] node = "tc_generator"        -> 9
    [] node = "api_runner"          -> 8
    [] node = "execution_evaluator" -> IF stage = "api" THEN 7 ELSE 3
    [] node = "ui_login"            -> 6
    [] node = "ui_test_planner"     -> 5
    [] node = "ui_runner"           -> 4
    [] node = "reporter"            -> 2
    [] node = "knowledge_sink"      -> 1
    [] OTHER                        -> 0

Spent ==
  3 * (replans["api"] + replans["ui"]) + 2 * (retries["api"] + retries["ui"])

\* The loop the evaluator closes is bounded whatever the model answers and
\* whatever the stages return: every run ends within fifteen nodes and ten more
\* per attempt of AGENT_MAX_REPLAN_ATTEMPTS (the counts of execution_evaluator
\* hold for both stages, retries and replans).
StepsBounded == steps <= 15 + 10 * MaxAttempts

\* Why: a step spends one of what is left, and an attempt that adds three nodes
\* (a replan) or two (a retry) is taken from a budget.
StepsAccounted == steps + Distance <= 15 + Spent

\* A run that has a UI target is reported without its UI stage ever having
\* begun only when a human must help or the API evidence is insufficient; the
\* model cannot talk execution_evaluator into leaving the UI out.
UiNotSkipped ==
  node = "reporter" /\ HasUiTarget /\ setup = "none"
    => evaluation.action = "ask_human" \/ ~evaluation.sufficient

\* Once the browser was set up no API request is sent again: a retry or replan
\* of the UI stage never reaches api_runner or tc_generator.
ApiNotAfterUi ==
  [][setup # "none" => node' \notin {"api_runner", "tc_generator"}]_vars

\* When the user's own setup instructions failed, the graph plans and runs no
\* UI case (_after_ui_login), in whichever of its ways ui_login failed.
SetupFailureStops ==
  setup = "failed" /\ config.given => node \notin {"ui_test_planner", "ui_runner"}

\* The UI stage is what the user asked for: it is not left out of a run that
\* names an address for it, nor driven past a setup of theirs that failed.
UiAsAsked == UiNotSkipped /\ SetupFailureStops

\* No run with a failed or blocked request or UI case ends SUCCEEDED, though
\* reporter and determine_final_status count separately and the report's
\* PARTIAL is no verdict the latter knows.
NoFailureSucceeds == status = "SUCCEEDED" => Failing = {}
=============================================================================
