-------------------------- MODULE AgentGraph_proofs --------------------------
(***************************************************************************)
(* What holds of the agent graph for every MaxAttempts and every set of    *)
(* configurations.                                                         *)
(***************************************************************************)
EXTENDS AgentGraph, TLAPS

Decisions == [action : Actions \cup {"none"}, sufficient : BOOLEAN]

\* An evaluation follows a runner, and the UI stage follows the browser setup.
StageInv ==
  /\ node = "execution_evaluator" => stage \in Stages
  /\ stage = "ui" => setup # "none"
  /\ node \in {"ui_test_planner", "ui_runner"} => setup # "none"
  /\ config.given => instructions

\* After the user's setup failed only the reporting nodes remain.
LoginInv ==
  setup = "failed" /\ config.given => node \in {"reporter", "knowledge_sink", "end"}

\* From the report on nothing is counted any more: a PASS had no failure, and
\* the status was made of these counts.
VerdictInv ==
  /\ verdict = "PASS" => Failing = {} /\ node \in {"knowledge_sink", "end"}
  /\ status # "none" => node = "end"
  /\ NoFailureSucceeds

\* After ui_login ran, the run is among the UI nodes or on its way out, and what
\* is evaluated is the UI stage.
UiOrder ==
  setup # "none" =>
    /\ node \in {"ui_test_planner", "ui_runner", "execution_evaluator", "reporter",
                "knowledge_sink", "end"}
    /\ node = "execution_evaluator" => stage = "ui"

IInv ==
  /\ TypeOK /\ StageInv /\ StepsAccounted /\ UiNotSkipped /\ LoginInv /\ VerdictInv
  /\ UiOrder

----------------------------------------------------------------------------
(* Decisions *)

\* What _guardrail_decision can answer in a stage: it spends an attempt only
\* when the budget of that stage has one left.
LEMMA GuardrailType ==
  ASSUME NEW s \in Stages, NEW f \in Findings(s)
  PROVE  /\ GuardrailDecision(s, f) \in Decisions
         /\ GuardrailDecision(s, f).action \in AllowedActions(s) \cup {"report"}
         /\ GuardrailDecision(s, f).action = Replan(s) => CanReplan(s)
         /\ GuardrailDecision(s, f).action = "retry_same_action" => CanRetry(s)
  BY DEF GuardrailDecision, Decide, Onward, Decisions, Actions, AllowedActions,
         Replan, Stages

\* The same of the merged decision: taking over the model's decision never
\* leaves the stage's actions nor its budgets.
LEMMA MergeType ==
  ASSUME NEW s \in Stages, NEW f \in Findings(s), NEW m \in ModelDecisions(s)
  PROVE  LET d == MergeDecisions(s, GuardrailDecision(s, f), m, f) IN
         /\ d \in Decisions
         /\ d.action \in AllowedActions(s)
         /\ d.action = Replan(s) => CanReplan(s)
         /\ d.action = "retry_same_action" => CanRetry(s)
  <1> DEFINE g == GuardrailDecision(s, f)
  <1>1. /\ g \in Decisions
        /\ g.action \in AllowedActions(s)
        /\ g.action = Replan(s) => CanReplan(s)
        /\ g.action = "retry_same_action" => CanRetry(s)
    BY GuardrailType DEF AllowedActions
  <1>2. CASE ~Heeded(s, g, m, f)
    BY <1>1, <1>2 DEF MergeDecisions
  <1>3. CASE Heeded(s, g, m, f)
    <2>1. m \in [action : AllowedActions(s), sufficient : BOOLEAN]
      BY <1>3 DEF ModelDecisions, NoDecision, Heeded, Replan
    <2>2. CASE m.action = "continue"
      BY <1>1, <1>3, <2>1, <2>2 DEF MergeDecisions, Decide, Decisions
    <2>3. CASE m.action # "continue"
      BY <1>3, <2>1, <2>3 DEF MergeDecisions, Decisions, AllowedActions, Actions,
         Replan, Stages, Heeded
    <2> QED BY <2>2, <2>3
  <1> QED BY <1>2, <1>3

\* Without a stage's UI part being started, a report needs insufficient
\* evidence or a call for help.
LEMMA MergeKeepsUi ==
  ASSUME NEW f \in Findings("api"), NEW m \in ModelDecisions("api"), HasUiTarget
  PROVE  LET d == MergeDecisions("api", GuardrailDecision("api", f), m, f) IN
         NextNode("api", d.action) = "reporter"
           => d.action = "ask_human" \/ ~d.sufficient
  <1> DEFINE g == GuardrailDecision("api", f)
  <1>1. CASE g.sufficient
    <2>1. g.action = "continue_to_ui"
      BY <1>1 DEF GuardrailDecision, Decide, Onward
    <2>2. CASE ~Heeded("api", g, m, f)
      BY <2>1, <2>2 DEF MergeDecisions, NextNode
    <2>3. CASE Heeded("api", g, m, f)
      BY <2>1, <2>3 DEF MergeDecisions, NextNode, Heeded, Decide, Replan
    <2> QED BY <2>2, <2>3
  <1>2. CASE ~g.sufficient
    BY <1>2 DEF MergeDecisions, Heeded
  <1> QED BY <1>1, <1>2

----------------------------------------------------------------------------
(* The evaluator's step, with its nested choices opened once. *)

\* execution_evaluator leaves the stage through one of its allowed actions and
\* pays for every attempt it grants.
LEMMA EvaluatorStep ==
  ASSUME TypeOK, StageInv, ExecutionEvaluator
  PROVE  /\ stage \in Stages
         /\ evaluation' \in Decisions
         /\ evaluation'.action \in AllowedActions(stage)
         /\ evaluation'.action = Replan(stage) => CanReplan(stage)
         /\ evaluation'.action = "retry_same_action" => CanRetry(stage)
         /\ stage = "api" /\ HasUiTarget /\ node' = "reporter"
              => evaluation'.action = "ask_human" \/ ~evaluation'.sufficient
         /\ human' \subseteq Stages
  <1>1. stage \in Stages
    BY DEF ExecutionEvaluator, StageInv
  <1>2. PICK f \in Findings(stage), m \in ModelDecisions(stage) :
          /\ evaluation' = MergeDecisions(stage, GuardrailDecision(stage, f), m, f)
          /\ human' = human \cup {s \in {stage} : f.failure \in {"ask", "masked"}}
    BY DEF ExecutionEvaluator
  <1>3. human' \subseteq Stages
    BY <1>1, <1>2 DEF TypeOK
  <1>4. node' = NextNode(stage, evaluation'.action)
    BY DEF ExecutionEvaluator, ApplyDecision, Goto
  <1>5. ASSUME stage = "api", HasUiTarget, node' = "reporter"
        PROVE  evaluation'.action = "ask_human" \/ ~evaluation'.sufficient
    BY <1>2, <1>4, <1>5, MergeKeepsUi
  <1> QED BY <1>1, <1>2, <1>3, <1>5, MergeType

----------------------------------------------------------------------------
(* Types *)

LEMMA TypeInit ==
  ASSUME Init
  PROVE  TypeOK
  <1>1. config \in Config
    BY ConfigsAssumption DEF Init
  <1>2. instructions \in BOOLEAN
    <2>1. config.given \in BOOLEAN
      BY <1>1 DEF Config
    <2> QED BY <2>1 DEF Init
  <1>3. /\ replans \in [Stages -> 0 .. MaxAttempts]
        /\ retries \in [Stages -> 0 .. MaxAttempts]
        /\ out \in [Stages -> Counts \cup {"absent"}]
    BY MaxAttemptsAssumption DEF Init, Stages
  <1>4. evaluation \in [action : Actions \cup {"none"}, sufficient : BOOLEAN]
    BY DEF Init, NoDecision
  <1>5. schema \in BOOLEAN
    BY DEF Init
  <1> QED BY <1>1, <1>2, <1>3, <1>4, <1>5 DEF Init, TypeOK, Nodes, Cases, Stages

\* The evaluator keeps the types: an attempt is counted only within its budget.
LEMMA EvaluatorType ==
  ASSUME TypeOK, StageInv, ExecutionEvaluator
  PROVE  TypeOK'
  <1>1. /\ stage \in Stages /\ evaluation' \in Decisions /\ human' \subseteq Stages
        /\ evaluation'.action = Replan(stage) => CanReplan(stage)
        /\ evaluation'.action = "retry_same_action" => CanRetry(stage)
    BY EvaluatorStep
  <1>2. replans' \in [Stages -> 0 .. MaxAttempts]
    BY <1>1, MaxAttemptsAssumption
    DEF TypeOK, ExecutionEvaluator, ApplyDecision, CanReplan
  <1>3. retries' \in [Stages -> 0 .. MaxAttempts]
    BY <1>1, MaxAttemptsAssumption
    DEF TypeOK, ExecutionEvaluator, ApplyDecision, CanRetry
  <1>4. node' \in Nodes /\ steps' \in Nat
    BY DEF TypeOK, ExecutionEvaluator, ApplyDecision, Goto, NextNode, Nodes
  <1>5. apiCases' \in Cases /\ uiCases' \in Cases
    BY DEF TypeOK, ExecutionEvaluator, ApplyDecision, Cases
  <1>6. /\ config' \in Config /\ input' \in {"unknown", "url", "swagger"}
        /\ schema' \in BOOLEAN /\ instructions' \in BOOLEAN
        /\ setup' \in {"none", "skipped", "verified", "failed"}
        /\ stage' \in {"none"} \cup Stages
        /\ out' \in [Stages -> Counts \cup {"absent"}]
        /\ verdict' \in {"none", "PASS", "PARTIAL", "FAIL", "NOT_EXECUTED"}
        /\ status' \in {"none", "SUCCEEDED", "BUG_FOUND", "FAILED"}
    BY DEF TypeOK, ExecutionEvaluator, Loaded, Closing
  <1> QED BY <1>1, <1>2, <1>3, <1>4, <1>5, <1>6 DEF TypeOK, Decisions

\* Every step keeps the types.
LEMMA TypeNext ==
  ASSUME TypeOK, StageInv, Next
  PROVE  TypeOK'
  <1> USE DEF TypeOK, Goto, Loaded, Tested, Closing
  <1>1. CASE InputClassifier
    BY <1>1 DEF InputClassifier, Nodes
  <1>2. CASE SourceLoader
    <2>1. schema' \in BOOLEAN
      BY <1>2, Zenon DEF SourceLoader
    <2> QED BY <1>2, <2>1 DEF SourceLoader, Nodes
  <1>3. CASE PassOn
    BY <1>3 DEF PassOn, After, Nodes
  <1>4. CASE AgentSupervisor
    BY <1>4 DEF AgentSupervisor, Nodes
  <1>5. CASE TcGenerator
    BY <1>5 DEF TcGenerator, GeneratedApi, GeneratedUi, AfterTcGenerator, Nodes, Cases
  <1>6. CASE ApiRunner
    BY <1>6 DEF ApiRunner, Nodes, Cases, Stages
  <1>7. CASE UiLogin
    <2>1. instructions' \in BOOLEAN
      <3>1. CASE Login("skipped", TRUE) \/ Login("verified", TRUE)
        BY <3>1 DEF Login
      <3>2. CASE \E stored \in {TRUE, instructions} : Login("failed", stored)
        BY <3>2, Zenon DEF Login
      <3>3. CASE Login("skipped", instructions)
        BY <3>3, Zenon DEF Login
      <3> QED BY <1>7, <3>1, <3>2, <3>3, Zenon DEF UiLogin
    <2>2. /\ node' \in {"reporter", "ui_test_planner"}
          /\ setup' \in {"none", "skipped", "verified", "failed"}
      BY <1>7 DEF UiLogin, Login
    <2> QED BY <1>7, <2>1, <2>2 DEF UiLogin, Nodes
  <1>8. CASE UiTestPlanner
    BY <1>8 DEF UiTestPlanner, PlannedUi, Nodes, Cases
  <1>9. CASE UiRunner
    BY <1>9 DEF UiRunner, Nodes, Stages, Counts
  <1>10. CASE ExecutionEvaluator
    BY <1>10, EvaluatorType
  <1>11. CASE Reporter
    BY <1>11 DEF Reporter, Verdict, Nodes
  <1>12. CASE DetermineFinalStatus
    BY <1>12 DEF DetermineFinalStatus, FinalStatus
  <1> QED
    BY <1>1, <1>2, <1>3, <1>4, <1>5, <1>6, <1>7, <1>8, <1>9, <1>10, <1>11, <1>12 DEF Next

----------------------------------------------------------------------------
(* Stages and setup *)

LEMMA StageInit ==
  ASSUME Init
  PROVE  StageInv /\ LoginInv /\ UiNotSkipped /\ StepsAccounted /\ VerdictInv /\ UiOrder
  <1>1. StageInv /\ LoginInv /\ UiNotSkipped /\ VerdictInv /\ UiOrder
    BY DEF Init, UiOrder, StageInv, LoginInv, UiNotSkipped, VerdictInv, NoFailureSucceeds
  <1>2. Distance = 15 /\ Spent = 0
    BY DEF Init, Distance, Spent, Stages
  <1> QED BY <1>1, <1>2 DEF Init, StepsAccounted

\* The evaluator goes to the UI nodes only from the UI stage.
LEMMA EvaluatorRoute ==
  ASSUME TypeOK, StageInv, ExecutionEvaluator
  PROVE  /\ stage = "api" => node' \in {"reporter", "api_runner", "ui_login", "tc_generator"}
         /\ stage = "ui" => node' \in {"reporter", "ui_runner", "ui_test_planner"}
         /\ node' = "reporter" => uiCases' = uiCases
  <1>1. /\ stage \in Stages
        /\ evaluation'.action \in AllowedActions(stage)
    BY EvaluatorStep
  <1>2. node' = NextNode(stage, evaluation'.action)
    BY DEF ExecutionEvaluator, ApplyDecision, Goto
  <1>3. uiCases' = IF evaluation'.action = "replan_ui" THEN "none" ELSE uiCases
    BY DEF ExecutionEvaluator, ApplyDecision
  <1> QED BY <1>1, <1>2, <1>3 DEF AllowedActions, NextNode, Replan, Stages

\* A UI stage is entered through ui_login, and instructions are never forgotten.
LEMMA StageNext ==
  ASSUME TypeOK, StageInv, Next
  PROVE  StageInv'
  <1> USE DEF StageInv, Goto, Loaded, Tested, Closing
  <1>1. CASE InputClassifier \/ SourceLoader \/ AgentSupervisor
    BY <1>1 DEF InputClassifier, SourceLoader, AgentSupervisor
  <1>2. CASE PassOn
    BY <1>2 DEF PassOn, After
  <1>3. CASE TcGenerator
    BY <1>3 DEF TcGenerator, AfterTcGenerator
  <1>4. CASE ApiRunner
    BY <1>4 DEF ApiRunner, Stages
  <1>5. CASE UiLogin
    <2>1. setup' # "none" /\ node' \in {"reporter", "ui_test_planner"}
      BY <1>5 DEF UiLogin, Login
    <2>2. config.given => instructions'
      <3> SUFFICES ASSUME config.given PROVE instructions'
        OBVIOUS
      <3>1. instructions
        OBVIOUS
      <3>2. \/ Login("skipped", TRUE) \/ Login("verified", TRUE)
            \/ \E stored \in {TRUE, instructions} : Login("failed", stored)
        BY <1>5, <3>1 DEF UiLogin
      <3>3. CASE Login("skipped", TRUE) \/ Login("verified", TRUE)
        BY <3>3 DEF Login
      <3>4. CASE \E stored \in {TRUE, instructions} : Login("failed", stored)
        <4>1. PICK stored \in {TRUE, instructions} : Login("failed", stored)
          BY <3>4
        <4>2. stored
          BY <3>1, <4>1, Zenon
        <4> QED BY <4>1, <4>2, Zenon DEF Login
      <3> QED BY <3>2, <3>3, <3>4
    <2>3. config' = config
      BY <1>5 DEF UiLogin
    <2> QED BY <2>1, <2>2, <2>3
  <1>6. CASE UiTestPlanner
    BY <1>6 DEF UiTestPlanner
  <1>7. CASE UiRunner
    BY <1>7 DEF UiRunner, Stages
  <1>8. CASE ExecutionEvaluator
    <2>1. /\ config' = config /\ instructions' = instructions
          /\ setup' = setup /\ stage' = stage
      BY <1>8 DEF ExecutionEvaluator
    <2>2. stage \in Stages
      BY <1>8 DEF ExecutionEvaluator
    <2> QED BY <1>8, <2>1, <2>2, EvaluatorRoute DEF Stages
  <1>9. CASE Reporter
    BY <1>9 DEF Reporter
  <1>10. CASE DetermineFinalStatus
    BY <1>10 DEF DetermineFinalStatus
  <1> QED BY <1>1, <1>2, <1>3, <1>4, <1>5, <1>6, <1>7, <1>8, <1>9, <1>10 DEF Next

\* Once the user's setup failed, the run is on its way out.
LEMMA LoginNext ==
  ASSUME TypeOK, StageInv, LoginInv, Next
  PROVE  LoginInv'
  <1> USE DEF LoginInv, Goto, Loaded, Tested, Closing
  <1>1. CASE \/ InputClassifier \/ SourceLoader \/ AgentSupervisor \/ TcGenerator
             \/ ApiRunner \/ UiTestPlanner \/ UiRunner
    BY <1>1 DEF InputClassifier, SourceLoader, AgentSupervisor, TcGenerator,
                ApiRunner, UiTestPlanner, UiRunner
  <1>2. CASE PassOn
    BY <1>2 DEF PassOn, After
  <1>3. CASE UiLogin
    <2>1. config' = config
      BY <1>3 DEF UiLogin
    <2>2. ASSUME setup' = "failed", config.given
          PROVE  node' = "reporter"
      <3>1. instructions
        BY <2>2 DEF StageInv
      <3>2. PICK stored \in {TRUE, instructions} : Login("failed", stored)
        BY <1>3, <2>2, <3>1 DEF UiLogin, Login
      <3>3. stored
        BY <3>1, <3>2, Zenon
      <3> QED BY <3>2, <3>3 DEF Login
    <2> QED BY <2>1, <2>2
  <1>4. CASE ExecutionEvaluator
    BY <1>4 DEF ExecutionEvaluator
  <1>5. CASE Reporter
    BY <1>5 DEF Reporter
  <1>6. CASE DetermineFinalStatus
    BY <1>6 DEF DetermineFinalStatus
  <1> QED BY <1>1, <1>2, <1>3, <1>4, <1>5, <1>6 DEF Next

\* The reporter is reached from ui_login, or from the evaluator.
LEMMA ReportNext ==
  ASSUME TypeOK, StageInv, UiNotSkipped, Next
  PROVE  UiNotSkipped'
  <1> USE DEF UiNotSkipped, Goto, Loaded, Tested, Closing
  <1>1. CASE \/ InputClassifier \/ SourceLoader \/ AgentSupervisor \/ ApiRunner
             \/ UiTestPlanner \/ UiRunner \/ Reporter
    BY <1>1 DEF InputClassifier, SourceLoader, AgentSupervisor, ApiRunner,
                UiTestPlanner, UiRunner, Reporter
  <1>2. CASE PassOn
    <2>1. node' # "reporter"
      BY <1>2 DEF PassOn, After
    <2> QED BY <2>1
  <1>3. CASE TcGenerator
    BY <1>3 DEF TcGenerator, AfterTcGenerator
  <1>4. CASE UiLogin
    BY <1>4 DEF UiLogin, Login
  <1>5. CASE ExecutionEvaluator
    <2> SUFFICES ASSUME node' = "reporter", HasUiTarget', setup' = "none"
                 PROVE  evaluation'.action = "ask_human" \/ ~evaluation'.sufficient
      OBVIOUS
    <2>1. setup = "none" /\ stage \in Stages /\ uiCases' = uiCases
      BY <1>5, EvaluatorRoute, EvaluatorStep DEF ExecutionEvaluator
    <2>2. stage = "api"
      BY <2>1 DEF StageInv, Stages
    <2>3. HasUiTarget
      BY <1>5, <2>1 DEF ExecutionEvaluator, HasUiTarget, UiTarget
    <2> QED BY <1>5, <2>2, <2>3, EvaluatorStep
  <1>6. CASE DetermineFinalStatus
    BY <1>6 DEF DetermineFinalStatus
  <1> QED BY <1>1, <1>2, <1>3, <1>4, <1>5, <1>6 DEF Next

----------------------------------------------------------------------------
(* Steps *)

LEMMA Sum ==
  ASSUME NEW a \in Nat, NEW d \in Nat, NEW e \in Nat, NEW p \in Nat,
         a + d <= 15 + p, e + 1 <= d
  PROVE  (a + 1) + e <= 15 + p
  OBVIOUS

\* A step that spends no attempt and comes closer to the end keeps the account.
LEMMA Accounting ==
  ASSUME TypeOK, StepsAccounted, replans' = replans, retries' = retries,
         steps' = steps + 1, Distance' + 1 <= Distance
  PROVE  StepsAccounted'
  <1>1. Spent' = Spent
    BY DEF Spent
  <1>2. Spent \in Nat /\ steps \in Nat
    BY DEF TypeOK, Spent, Stages
  <1>3. Distance \in Nat /\ Distance' \in Nat
    BY DEF Distance
  <1>4. (steps + 1) + Distance' <= 15 + Spent
    BY <1>2, <1>3, Sum DEF StepsAccounted
  <1> QED BY <1>1, <1>4 DEF StepsAccounted

\* Outside the evaluator every node is closer to the end than the one before.
LEMMA StraightSteps ==
  ASSUME TypeOK, StageInv, StepsAccounted, Next, ~ExecutionEvaluator
  PROVE  StepsAccounted'
  <1>1. replans' = replans /\ retries' = retries
    BY DEF Next, InputClassifier, SourceLoader, PassOn, AgentSupervisor, TcGenerator,
           ApiRunner, UiLogin, UiTestPlanner, UiRunner, Reporter,
           DetermineFinalStatus, Tested
  <1>2. CASE DetermineFinalStatus
    <2>1. node' = node /\ stage' = stage /\ steps' = steps
      BY <1>2 DEF DetermineFinalStatus, Tested
    <2>2. Distance' = Distance /\ Spent' = Spent
      BY <1>1, <2>1 DEF Distance, Spent
    <2> QED BY <2>1, <2>2 DEF StepsAccounted
  <1>3. CASE ~DetermineFinalStatus
    <2>1. steps' = steps + 1
      BY <1>3 DEF Next, InputClassifier, SourceLoader, PassOn, AgentSupervisor,
                  TcGenerator, ApiRunner, UiLogin, UiTestPlanner, UiRunner, Reporter, Goto
    <2>2. CASE \/ InputClassifier \/ SourceLoader \/ AgentSupervisor
               \/ UiTestPlanner \/ UiRunner \/ Reporter
      <3>1. \/ node = "input_classifier" /\ node' = "source_loader"
            \/ node = "source_loader" /\ node' = "mission_planner"
            \/ node = "agent_supervisor" /\ node' \in {"ui_login", "tc_generator"}
            \/ node = "ui_test_planner" /\ node' = "ui_runner"
            \/ node = "ui_runner" /\ node' = "execution_evaluator" /\ stage' = "ui"
            \/ node = "reporter" /\ node' = "knowledge_sink"
        BY <2>2 DEF InputClassifier, SourceLoader, AgentSupervisor, UiTestPlanner,
                    UiRunner, Reporter, Goto
      <3>2. Distance' + 1 <= Distance
        BY <3>1 DEF Distance
      <3> QED BY <1>1, <2>1, <3>2, Accounting
    <2>3. CASE PassOn
      BY <1>1, <2>1, <2>3, Accounting DEF PassOn, After, Goto, Distance
    <2>4. CASE TcGenerator
      <3>1. node = "tc_generator" /\ node' \in {"api_runner", "ui_login"}
        BY <2>4 DEF TcGenerator, AfterTcGenerator, Goto
      <3> QED BY <1>1, <2>1, <3>1, Accounting DEF Distance
    <2>5. CASE ApiRunner
      <3>1. node = "api_runner" /\ node' = "execution_evaluator"
        BY <2>5 DEF ApiRunner, Goto
      <3> QED BY <1>1, <2>1, <3>1, Accounting DEF Distance
    <2>6. CASE UiLogin
      <3>1. node = "ui_login" /\ node' \in {"reporter", "ui_test_planner"}
        BY <2>6 DEF UiLogin, Login
      <3> QED BY <1>1, <2>1, <3>1, Accounting DEF Distance
    <2> QED BY <1>3, <2>2, <2>3, <2>4, <2>5, <2>6 DEF Next
  <1> QED BY <1>2, <1>3

\* The evaluator pays for the way back: three steps for a replan, two for a
\* retry, nothing when the run goes on.
LEMMA EvaluatorSteps ==
  ASSUME TypeOK, StageInv, StepsAccounted, ExecutionEvaluator
  PROVE  StepsAccounted'
  <1> DEFINE action == evaluation'.action
  <1>1. /\ stage \in Stages
        /\ action \in AllowedActions(stage)
    BY EvaluatorStep
  <1>2. /\ node = "execution_evaluator"
        /\ node' = NextNode(stage, action)
        /\ steps' = steps + 1
        /\ stage' = stage
        /\ replans' = [replans EXCEPT ![stage] = IF action = Replan(stage) THEN @ + 1 ELSE @]
        /\ retries' = [retries EXCEPT ![stage] = IF action = "retry_same_action" THEN @ + 1 ELSE @]
    BY DEF ExecutionEvaluator, ApplyDecision, Goto
  <1>3. /\ replans["api"] \in Nat /\ replans["ui"] \in Nat
        /\ retries["api"] \in Nat /\ retries["ui"] \in Nat
        /\ steps \in Nat
    BY DEF TypeOK, Stages
  <1>4. Distance = IF stage = "api" THEN 7 ELSE 3
    BY <1>2 DEF Distance
  <1> HIDE DEF action
  <1>5. CASE action = "retry_same_action"
    <2>1. Distance' = IF stage = "api" THEN 8 ELSE 4
      BY <1>1, <1>2, <1>5 DEF NextNode, Distance, Stages
    <2>2. replans' = replans
      BY <1>1, <1>2, <1>5 DEF Replan, TypeOK, Stages
    <2>3. retries'["api"] + retries'["ui"] = retries["api"] + retries["ui"] + 1
      BY <1>1, <1>2, <1>3, <1>5 DEF TypeOK, Stages
    <2>4. Spent' = Spent + 2
      BY <1>3, <2>2, <2>3 DEF Spent
    <2> QED BY <1>1, <1>2, <1>3, <1>4, <2>1, <2>4 DEF StepsAccounted, Spent
  <1>6. CASE action = Replan(stage)
    <2>1. Distance' = IF stage = "api" THEN 9 ELSE 5
      BY <1>1, <1>2, <1>6 DEF NextNode, Distance, Replan, Stages
    <2>2. retries' = retries
      BY <1>1, <1>2, <1>6 DEF Replan, TypeOK, Stages
    <2>3. replans'["api"] + replans'["ui"] = replans["api"] + replans["ui"] + 1
      BY <1>1, <1>2, <1>3, <1>6 DEF TypeOK, Stages
    <2>4. Spent' = Spent + 3
      BY <1>3, <2>2, <2>3 DEF Spent
    <2> QED BY <1>1, <1>2, <1>3, <1>4, <2>1, <2>4 DEF StepsAccounted, Spent
  <1>7. CASE action \notin {"retry_same_action", Replan(stage)}
    <2>1. \/ Distance' = 2
          \/ stage = "api" /\ Distance' = 6
      BY <1>1, <1>2, <1>7 DEF NextNode, Distance, AllowedActions, Replan, Stages
    <2>2. retries' = retries /\ replans' = replans
      BY <1>1, <1>2, <1>7 DEF TypeOK, Stages
    <2>3. Spent' = Spent
      BY <2>2 DEF Spent
    <2> QED BY <1>2, <1>3, <1>4, <2>1, <2>3 DEF StepsAccounted, Spent
  <1> QED BY <1>5, <1>6, <1>7

\* The UI stage keeps to itself until the report.
LEMMA OrderNext ==
  ASSUME TypeOK, StageInv, UiOrder, Next
  PROVE  UiOrder'
  <1> USE DEF UiOrder, Goto, Loaded, Tested, Closing
  <1>1. CASE \/ InputClassifier \/ SourceLoader \/ AgentSupervisor \/ TcGenerator
             \/ ApiRunner \/ UiTestPlanner \/ UiRunner \/ Reporter
    BY <1>1 DEF InputClassifier, SourceLoader, AgentSupervisor, TcGenerator, ApiRunner,
                UiTestPlanner, UiRunner, Reporter
  <1>2. CASE PassOn
    BY <1>2 DEF PassOn, After
  <1>3. CASE UiLogin
    <2>1. node' \in {"reporter", "ui_test_planner"}
      BY <1>3 DEF UiLogin, Login
    <2> QED BY <2>1
  <1>4. CASE ExecutionEvaluator
    <2>1. node = "execution_evaluator" /\ setup' = setup
      BY <1>4 DEF ExecutionEvaluator
    <2> QED BY <1>4, <2>1, EvaluatorRoute
  <1>5. CASE DetermineFinalStatus
    BY <1>5 DEF DetermineFinalStatus
  <1> QED BY <1>1, <1>2, <1>3, <1>4, <1>5 DEF Next

----------------------------------------------------------------------------
(* Verdict and status *)

\* FinalStatus answers SUCCEEDED only to a PASS or to counts without a failure.
LEMMA FinalStatusSound ==
  ASSUME NEW lastError \in BOOLEAN, verdict = "PASS" => Failing = {},
         FinalStatus(lastError) = "SUCCEEDED"
  PROVE  Failing = {}
  <1>1. CASE verdict = "PASS"
    BY <1>1
  <1>2. CASE verdict # "PASS"
    <2>1. ApiPassed /\ UiPassed
      BY <1>2 DEF FinalStatus
    <2> QED BY <2>1 DEF ApiPassed, UiPassed, Failing, Stages
  <1> QED BY <1>1, <1>2

\* The nodes that count evidence lie before the report.
LEMMA VerdictNext ==
  ASSUME TypeOK, VerdictInv, Next
  PROVE  VerdictInv'
  <1> USE DEF VerdictInv, NoFailureSucceeds, Goto, Loaded, Tested, Closing
  <1>1. CASE \/ InputClassifier \/ SourceLoader \/ AgentSupervisor \/ TcGenerator
             \/ ApiRunner \/ UiLogin \/ UiTestPlanner \/ UiRunner \/ ExecutionEvaluator
    <2>1. /\ node \notin {"knowledge_sink", "end"}
          /\ verdict' = verdict /\ status' = status
      BY <1>1 DEF InputClassifier, SourceLoader, AgentSupervisor, TcGenerator,
                  ApiRunner, UiLogin, UiTestPlanner, UiRunner, ExecutionEvaluator
    <2> QED BY <2>1
  <1>2. CASE PassOn
    <2>1. node # "end" /\ (node = "knowledge_sink" => node' = "end")
      BY <1>2 DEF PassOn, After
    <2>2. verdict' = verdict /\ status' = status /\ out' = out
      BY <1>2 DEF PassOn
    <2>3. Failing' = Failing
      BY <2>2 DEF Failing
    <2>4. verdict = "PASS" => node = "knowledge_sink"
      BY <2>1
    <2> QED BY <2>1, <2>2, <2>3, <2>4
  <1>3. CASE Reporter
    <2>1. Failing' = Failing
      BY <1>3 DEF Reporter, Failing
    <2>2. Verdict = "PASS" => Failing = {}
      BY DEF Verdict
    <2> QED BY <1>3, <2>1, <2>2 DEF Reporter
  <1>4. CASE DetermineFinalStatus
    <2>1. Failing' = Failing
      BY <1>4 DEF DetermineFinalStatus, Failing
    <2>2. status' = "SUCCEEDED" => Failing = {}
      BY <1>4, FinalStatusSound DEF DetermineFinalStatus
    <2> QED BY <1>4, <2>1, <2>2 DEF DetermineFinalStatus
  <1> QED BY <1>1, <1>2, <1>3, <1>4 DEF Next

----------------------------------------------------------------------------
(* Theorems *)

LEMMA Inductive == IInv /\ [Next]_vars => IInv'
  <1> SUFFICES ASSUME IInv, [Next]_vars
               PROVE  IInv'
    OBVIOUS
  <1>1. CASE Next
    <2>1. /\ TypeOK' /\ StageInv' /\ LoginInv' /\ UiNotSkipped' /\ VerdictInv'
          /\ UiOrder'
      BY <1>1, TypeNext, StageNext, LoginNext, ReportNext, VerdictNext, OrderNext DEF IInv
    <2>2. StepsAccounted'
      BY <1>1, StraightSteps, EvaluatorSteps DEF IInv
    <2> QED BY <2>1, <2>2 DEF IInv
  <1>2. CASE UNCHANGED vars
    BY <1>2 DEF vars, IInv, TypeOK, StageInv, LoginInv, UiNotSkipped, HasUiTarget,
       UiTarget, StepsAccounted, Distance, Spent, VerdictInv, NoFailureSucceeds, Failing,
       UiOrder
  <1> QED BY <1>1, <1>2

\* The invariant of the agent graph: types and budgets, the order of the
\* stages, and the account of the steps.
THEOREM Invariance == Spec => []IInv
  <1>1. Init => IInv
    BY TypeInit, StageInit DEF IInv
  <1> QED BY <1>1, Inductive, PTL DEF Spec

\* Every state of the graph has its type; both attempt counters stay within
\* AGENT_MAX_REPLAN_ATTEMPTS.
THEOREM TypeCorrect == Spec => []TypeOK
  <1>1. IInv => TypeOK
    BY DEF IInv
  <1> QED BY <1>1, Invariance, PTL

\* Whatever the model, the tested system and the browser answer, a run goes
\* through at most fifteen nodes and ten more per allowed attempt.
THEOREM Bounded == Spec => []StepsBounded
  <1>1. IInv => StepsBounded
    <2> SUFFICES ASSUME IInv PROVE StepsBounded
      OBVIOUS
    <2>1. /\ replans["api"] \in 0 .. MaxAttempts /\ replans["ui"] \in 0 .. MaxAttempts
          /\ retries["api"] \in 0 .. MaxAttempts /\ retries["ui"] \in 0 .. MaxAttempts
          /\ steps \in Nat
      BY DEF IInv, TypeOK, Stages
    <2>2. Spent <= 10 * MaxAttempts
      BY <2>1, MaxAttemptsAssumption DEF Spent
    <2>3. Distance \in Nat /\ Spent \in Nat
      BY <2>1 DEF Distance, Spent
    <2> QED BY <2>1, <2>2, <2>3, MaxAttemptsAssumption
            DEF IInv, StepsAccounted, StepsBounded
  <1> QED BY <1>1, Invariance, PTL

\* A run with a UI target is not reported with its UI stage left out unless the
\* evidence is insufficient or a human is asked, and after the user's setup
\* failed no UI case is planned or run.
THEOREM UiStageKept == Spec => []UiAsAsked
  <1>1. IInv => UiAsAsked
    BY DEF IInv, LoginInv, SetupFailureStops, UiAsAsked
  <1> QED BY <1>1, Invariance, PTL

\* No run with a failed or blocked request or UI case ends SUCCEEDED: what
\* reporter counts is what determine_final_status counts.
THEOREM NoFailureHidden == Spec => []NoFailureSucceeds
  <1>1. IInv => NoFailureSucceeds
    BY DEF IInv, VerdictInv
  <1> QED BY <1>1, Invariance, PTL

\* After ui_login ran the graph sends no API request and generates no API case
\* again, though the evaluator still grants retries and replans.
THEOREM ApiStaysDone == Spec => ApiNotAfterUi
  <1>1. IInv /\ [Next]_vars
          => [setup # "none" => node' \notin {"api_runner", "tc_generator"}]_vars
    <2> SUFFICES ASSUME IInv, Next, setup # "none"
                 PROVE  node' \notin {"api_runner", "tc_generator"}
      BY DEF vars
    <2> USE DEF Goto, Loaded, Tested, Closing, UiOrder
    <2>1. CASE ExecutionEvaluator
      <3>1. node = "execution_evaluator"
        BY <2>1 DEF ExecutionEvaluator
      <3> QED BY <2>1, <3>1, EvaluatorRoute DEF IInv
    <2>2. CASE PassOn
      BY <2>2 DEF PassOn, After, IInv
    <2>3. CASE UiTestPlanner \/ UiRunner \/ Reporter \/ DetermineFinalStatus
      BY <2>3 DEF UiTestPlanner, UiRunner, Reporter, DetermineFinalStatus
    <2>4. ~(\/ InputClassifier \/ SourceLoader \/ AgentSupervisor \/ TcGenerator
            \/ ApiRunner \/ UiLogin)
      BY DEF InputClassifier, SourceLoader, AgentSupervisor, TcGenerator, ApiRunner,
             UiLogin, IInv
    <2> QED BY <2>1, <2>2, <2>3, <2>4 DEF Next
  <1> QED BY <1>1, Invariance, PTL DEF Spec, ApiNotAfterUi
=============================================================================
