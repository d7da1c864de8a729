---------------------------- MODULE PlanSession ----------------------------
(***************************************************************************)
(* One planning session (agent_plans.py, AgentPlanningService): requests   *)
(* load the session's row, check its status, wait for the language model   *)
(* or for the run to be created, and write the columns they changed.       *)
(*                                                                         *)
(* READ COMMITTED: a request decides on the copies it loaded, an UPDATE    *)
(* takes only the columns that differ from the copy and waits for the row  *)
(* lock of an edit in progress.  No foreign key ties messages or plan to   *)
(* the session.                                                            *)
(***************************************************************************)
EXTENDS PlanPayload, FiniteSets

CONSTANTS
  Clients,       \* concurrent requests
  Texts,         \* what users write
  Models,        \* what the language model may answer
  IntakeSteps,   \* STRUCTURED_INTAKE_STEP_IDS, in their order
  Required,      \* STRUCTURED_REQUIRED_STEPS
  Intakes,       \* what the questionnaire sends
  MaxMessages,   \* bound: messages ever written
  MaxRequests,   \* bound: requests that change something
  MaxRuns        \* bound: runs created

ASSUME SessionAssumption == Required \subseteq Range(IntakeSteps)
ASSUME BoundsAssumption  == {MaxMessages, MaxRequests, MaxRuns} \subseteq Nat
ASSUME ModelsAssumption  == Models \subseteq Answer

VARIABLES
  row,       \* the session's row
  msgs,      \* committed messages; at: when they were made
  forms,     \* committed AgentPlan rows
  runs,      \* payloads of the runs created from the session
  lock,      \* the request that holds the row's lock
  clock,     \* messages made so far
  requests,  \* requests begun so far
  pc, op, copy, seen, form,   \* of each request: its place, operation and copies
  overlap,   \* history: two requests were in progress together
  died       \* history: a request died after it had created a run

vars  == << row, msgs, forms, runs, lock, clock, requests, pc, op, copy, seen, form, overlap, died >>

Gone  == [status |-> "gone"]
Fresh == [status |-> "collecting", plan |-> NoPlan, payload |-> NoPlan, run |-> 0]
Idle  == [kind |-> None]

\* A questionnaire without answers, and what a request knows of one: its place and its steps.
EmptyForm == [s \in Range(IntakeSteps) |-> [status |-> None, text |-> Blank]]
NoForm    == [at |-> 0, steps |-> EmptyForm]

Transcript(ms) ==
  LET times == {m.at : m \in ms}
  IN  Picked([i \in times |-> (CHOOSE m \in ms : m.at = i).body], times)

\* What is left of ms without the rows of the messages in gone.
Without(ms, gone) == {m \in ms : \A g \in gone : g.at # m.at}

TypeOK ==
  /\ row = Gone \/ (row.status \in Statuses /\ row.run \in 0..MaxRuns)
  /\ \A m \in msgs : m.at \in 1..MaxMessages /\ m.body.role \in {"user", "assistant", "system"}
  /\ clock \in 0..MaxMessages /\ requests \in 0..MaxRequests /\ Len(runs) <= MaxRuns
  /\ lock \in Clients \cup {None}
  /\ pc \in [Clients -> {"idle", "loaded", "turn", "created"}]
  /\ \A c \in Clients : (pc[c] = "idle") <=> (op[c] = Idle)
  /\ overlap \in BOOLEAN /\ died \in BOOLEAN

Init ==
  /\ row = Fresh /\ msgs = {} /\ forms = << >> /\ runs = << >> /\ lock = None
  /\ clock = 0 /\ requests = 0
  /\ pc = [c \in Clients |-> "idle"] /\ op = [c \in Clients |-> Idle]
  /\ copy = [c \in Clients |-> Gone] /\ seen = [c \in Clients |-> {}]
  /\ form = [c \in Clients |-> NoForm]
  /\ overlap = FALSE /\ died = FALSE

----------------------------------------------------------------------------
(* The beginning and the end of a request. *)

Mutable(r) == r # Gone /\ r.status # "executed"

\* Messages and runs that the requests in progress may still add; only for the bounds.
Needs(o)  == CASE o.kind = "message" -> 2 [] o.kind \in {"edit", "reject"} -> 1 [] OTHER -> 0
Speaking  == {c \in Clients : op[c].kind \in {"message", "edit", "reject"}}
Unsaid    == {c \in Speaking : op[c].kind = "message" /\ pc[c] = "loaded"}
Pending   == Cardinality(Speaking) + Cardinality(Unsaid)
Creating  == {c \in Clients : op[c].kind = "execute" /\ pc[c] = "loaded"}

\* The session's row and what hangs on it are loaded, and the operation is accepted.
Begin(c, o) ==
  /\ pc[c] = "idle" /\ row # Gone
  /\ clock + Pending + Needs(o) <= MaxMessages /\ requests < MaxRequests
  /\ requests' = requests + 1
  /\ op' = [op EXCEPT ![c] = o] /\ pc' = [pc EXCEPT ![c] = "loaded"]
  /\ copy' = [copy EXCEPT ![c] = row] /\ seen' = [seen EXCEPT ![c] = msgs]
  /\ overlap' = (overlap \/ \E d \in Clients \ {c} : pc[d] # "idle")
  /\ UNCHANGED << row, msgs, forms, runs, lock, clock, died >>

End(c) ==
  /\ pc' = [pc EXCEPT ![c] = "idle"] /\ op' = [op EXCEPT ![c] = Idle]
  /\ copy' = [copy EXCEPT ![c] = Gone] /\ seen' = [seen EXCEPT ![c] = {}]
  /\ form' = [form EXCEPT ![c] = NoForm]

Released(c) == IF lock = c THEN None ELSE lock
Free(c)     == lock \in {c, None}

\* The columns of new that differ from the copy old replace those of r.
Written(r, old, new) ==
  [k \in DOMAIN r |-> IF k \in DOMAIN new /\ new[k] # old[k] THEN new[k] ELSE r[k]]

Collecting == [status |-> "collecting", plan |-> NoPlan, payload |-> NoPlan]

\* Mutant: the model's own word for the status is stored.
OfferAsSaid(m) == [status |-> IF m.ready THEN "plan_ready" ELSE "collecting",
                   plan |-> m.payload, payload |-> m.payload]
Offer(m)   == [status |-> IF m.ready THEN "ready" ELSE "collecting",
               plan |-> m.payload, payload |-> m.payload]

----------------------------------------------------------------------------
(* Chat: a message or an edited one, and the turn that answers it. *)

User(at, t) == [at |-> at, body |-> [role |-> "user", text |-> t]]

Say(c) == \E t \in Texts :
  /\ Mutable(row)
  /\ Begin(c, [kind |-> "message", text |-> t])
  /\ UNCHANGED form

Edit(c) == \E m \in msgs, t \in Texts :
  /\ Mutable(row) /\ m.body.role = "user"
  /\ Begin(c, [kind |-> "edit", at |-> m.at, text |-> t])
  /\ UNCHANGED form

\* A turn begins: the message at this time is written but not committed, those in gone are to be
\* deleted with it, and the rest of the conversation is listed.
Turning(c, at, gone) ==
  /\ pc' = [pc EXCEPT ![c] = "turn"]
  /\ op' = [op EXCEPT ![c] = [kind |-> @.kind, at |-> at, text |-> @.text, gone |-> gone]]
  /\ seen' = [seen EXCEPT ![c] = Without(msgs, gone)]
  /\ UNCHANGED << row, msgs, forms, runs, requests, copy, form, overlap, died >>

StartTurn(c) ==
  /\ pc[c] = "loaded" /\ op[c].kind = "message"
  /\ clock' = clock + 1
  /\ Turning(c, clock + 1, {})
  /\ UNCHANGED lock

\* The flush of an edit locks the row until the turn is committed.
StartEdit(c) ==
  /\ pc[c] = "loaded" /\ op[c].kind = "edit"
  /\ lock = None /\ row # Gone
  /\ \E m \in msgs : m.at = op[c].at
  /\ lock' = c
  /\ Turning(c, op[c].at, {m \in seen[c] : m.at >= op[c].at})
  /\ UNCHANGED clock

\* The message of the turn, and what the model is shown.
Own(c) == {User(op[c].at, op[c].text)}
Shown(c) == Transcript(seen[c] \cup Own(c))

\* An edit has cleared the session before the turn sets it.
Base(c) == IF op[c].kind = "edit" THEN Collecting ELSE copy[c]
Cleared(c) == IF op[c].kind = "edit" THEN Written(row, copy[c], Collecting) ELSE row

\* The model answers, or fails or times out: Silent stands for the fallback.
AppendTurn(c) == \E llm \in Models \cup {Silent} :
  LET turn == Turn(llm, Shown(c))
  IN  /\ pc[c] = "turn" /\ Free(c) /\ row # Gone
      /\ clock' = clock + 1
      /\ msgs' = Without(msgs, op[c].gone) \cup Own(c) \cup {[at |-> clock + 1, body |-> turn]}
      /\ row' = Written(Cleared(c), Base(c), Offer(turn))
      /\ lock' = Released(c) /\ End(c)
      /\ UNCHANGED << forms, runs, requests, overlap, died >>

----------------------------------------------------------------------------
(* Rolling back, rejecting and deleting. *)

\* Mutant: the last answer decides although something was said after it.
RestoredFromAnswer(ms) ==
  LET offers == SelectSeq(Transcript(ms), LAMBDA m : m.role = "assistant")
  IN  IF offers = << >> THEN Collecting ELSE Offer(Last(offers))

Latest(ms) == CHOOSE m \in ms : \A n \in ms : n.at <= m.at

\* The session's state is what its last message says, if that is an answer.
Restored(ms) ==
  IF ms = {} \/ Latest(ms).body.role # "assistant" THEN Collecting ELSE Offer(Latest(ms).body)

LoadRollback(c) == \E m \in msgs :
  /\ Mutable(row)
  /\ Begin(c, [kind |-> "rollback", at |-> m.at])
  /\ UNCHANGED form

Rollback(c) ==
  LET left == {m \in seen[c] : m.at < op[c].at}
  IN  /\ pc[c] = "loaded" /\ op[c].kind = "rollback" /\ Free(c) /\ row # Gone
      /\ msgs' = Without(msgs, seen[c] \ left)
      /\ row' = Written(row, copy[c], Restored(left))
      /\ End(c)
      /\ UNCHANGED << forms, runs, lock, clock, requests, overlap, died >>

LoadReject(c) ==
  /\ Mutable(row) /\ row.plan # NoPlan
  /\ Begin(c, [kind |-> "reject"])
  /\ UNCHANGED form

Reject(c) ==
  /\ pc[c] = "loaded" /\ op[c].kind = "reject" /\ Free(c) /\ row # Gone
  /\ clock' = clock + 1
  /\ msgs' = msgs \cup {[at |-> clock + 1, body |-> [role |-> "system"]]}
  /\ row' = Written(row, copy[c], Collecting)
  /\ End(c)
  /\ UNCHANGED << forms, runs, lock, requests, overlap, died >>

LoadDelete(c) ==
  /\ Begin(c, [kind |-> "delete"])
  /\ UNCHANGED form

ForgottenForms == << >>

\* What was listed goes; what is committed after that stays behind.
DeleteSession(c) ==
  /\ pc[c] = "loaded" /\ op[c].kind = "delete" /\ Free(c) /\ row # Gone
  /\ msgs' = Without(msgs, seen[c]) /\ forms' = ForgottenForms /\ row' = Gone
  /\ End(c)
  /\ UNCHANGED << runs, lock, clock, requests, overlap, died >>

----------------------------------------------------------------------------
(* The questionnaire. *)

Given(a) == SelectSeq(<< a.option, a.extra >>, LAMBDA t : t # Blank)

\* An answer put off keeps its texts only if it brings an option and a text.  Answers are
\* redacted first: their texts are what the patterns find in the redacted ones.
Summary(a) ==
  IF a.action = "continue" \/ Len(Given(a)) = 2 THEN Joined(Given(a)) ELSE Blank
StepStatus(a) ==
  CASE a.action = "continue" -> "confirmed" [] a.action = "skip" -> "skipped" [] OTHER -> "deferred"

Accepted(a) ==
  /\ a.action = "skip" => a.step \notin Required
  /\ a.action = "continue" => Given(a) # << >>

\* Without a questionnaire, an answer in a conversation that has begun is a message.
AsMessage(a) == forms = << >> /\ msgs # {} /\ a.action = "continue"

IntakeChat(c) == \E a \in Intakes :
  /\ Mutable(row) /\ Accepted(a) /\ AsMessage(a)
  /\ Begin(c, [kind |-> "message", text |-> Joined(Given(a))])
  /\ UNCHANGED form

\* Any of several questionnaires of one session may be the one that is found.
LoadIntake(c) == \E a \in Intakes :
  /\ Mutable(row) /\ Accepted(a) /\ ~AsMessage(a)
  /\ Begin(c, [kind |-> "intake", answer |-> a])
  /\ IF forms = << >> THEN form' = [form EXCEPT ![c] = NoForm]
     ELSE \E i \in DOMAIN forms : form' = [form EXCEPT ![c] = [at |-> i, steps |-> forms[i]]]

Handled(f)   == \A s \in Range(IntakeSteps) : f[s].status # None
Confirmed(f) == \A s \in Required : f[s].status = "confirmed"

\* Mutant: a step put off does for a required one.
FormHandled(f) == Handled(f)
FormReady(f) == Handled(f) /\ Confirmed(f)

FormText(f) == Joined([i \in DOMAIN IntakeSteps |-> f[IntakeSteps[i]].text])

\* The session as the questionnaire makes it, whatever the conversation said.
FromForm(f) ==
  LET p == Payload(Silent, << [role |-> "user", text |-> FormText(f)] >>)
      ready == FormReady(f) /\ p.src # None /\ Missing(p, {}) = << >>
  IN  IF ready THEN [status |-> "ready", plan |-> p, payload |-> p] ELSE Collecting

Intake(c) ==
  LET a == op[c].answer
      step == [status |-> StepStatus(a), text |-> Summary(a)]
      mine == [form[c].steps EXCEPT ![a.step] = step]
      at == form[c].at
  IN  /\ pc[c] = "loaded" /\ op[c].kind = "intake" /\ Free(c) /\ row # Gone
      /\ forms' = IF at = 0 THEN Append(forms, mine) ELSE [forms EXCEPT ![at][a.step] = step]
      /\ row' = Written(row, copy[c], FromForm(mine))
      /\ End(c)
      /\ UNCHANGED << msgs, runs, lock, clock, requests, overlap, died >>

----------------------------------------------------------------------------
(* Executing the plan. *)

\* An executed session answers with its run and changes nothing.
LoadExecute(c) ==
  /\ Mutable(row) /\ row.payload # NoPlan
  /\ Len(runs) + Cardinality(Creating) < MaxRuns
  /\ Begin(c, [kind |-> "execute"])
  /\ UNCHANGED form

\* create_run commits the run before the session hears of it.
CreateRun(c) ==
  /\ pc[c] = "loaded" /\ op[c].kind = "execute"
  /\ runs' = Append(runs, copy[c].payload)
  /\ pc' = [pc EXCEPT ![c] = "created"]
  /\ op' = [op EXCEPT ![c] = [kind |-> "execute", run |-> Len(runs) + 1]]
  /\ UNCHANGED << row, msgs, forms, lock, clock, requests, copy, seen, form, overlap, died >>

ExecutedWith(n) == [status |-> "executed", run |-> n]

MarkExecuted(c) ==
  /\ pc[c] = "created" /\ Free(c) /\ row # Gone
  /\ row' = Written(row, copy[c], ExecutedWith(op[c].run))
  /\ End(c)
  /\ UNCHANGED << msgs, forms, runs, lock, clock, requests, overlap, died >>

----------------------------------------------------------------------------
(* Failures. *)

\* The preflight of create_run refuses the run.
Refused(c) ==
  /\ pc[c] = "loaded" /\ op[c].kind = "execute"
  /\ End(c)
  /\ UNCHANGED << row, msgs, forms, runs, lock, clock, requests, overlap, died >>

AfterFailure(c) == Released(c)

\* The row, or the message to edit, was deleted meanwhile: the UPDATE matches nothing.
UpdateFails(c) ==
  /\ pc[c] # "idle" /\ Free(c)
  /\ op[c].kind \in {"message", "execute"} => pc[c] \in {"turn", "created"}
  /\ \/ row = Gone
     \/ op[c].kind = "edit" /\ pc[c] = "loaded" /\ \A m \in msgs : m.at # op[c].at
  /\ End(c) /\ lock' = AfterFailure(c)
  /\ UNCHANGED << row, msgs, forms, runs, clock, requests, overlap, died >>

\* The process dies, or the client hangs up and the request is cancelled.
Die(c) ==
  /\ pc[c] \in {"turn", "created"}
  /\ died' = (died \/ pc[c] = "created")
  /\ End(c) /\ lock' = AfterFailure(c)
  /\ UNCHANGED << row, msgs, forms, runs, clock, requests, overlap >>

Request(c) ==
  \/ Say(c) \/ Edit(c) \/ LoadRollback(c) \/ LoadReject(c) \/ LoadDelete(c)
  \/ IntakeChat(c) \/ LoadIntake(c) \/ LoadExecute(c)

Serve(c) ==
  \/ StartTurn(c) \/ StartEdit(c) \/ AppendTurn(c) \/ Rollback(c) \/ Reject(c)
  \/ DeleteSession(c) \/ Intake(c) \/ CreateRun(c) \/ MarkExecuted(c)
  \/ Refused(c) \/ UpdateFails(c)

Next == \E c \in Clients : Request(c) \/ Serve(c) \/ Die(c)

Spec == Init /\ [][Next]_vars

----------------------------------------------------------------------------
(* Properties. *)

InOrder == ~overlap

\* As long as requests do not overlap and no questionnaire was filled in, the
\* session's state is what its last message says: after turns, edits,
\* rejections and rollbacks in any order (_restore_session_state_from_messages
\* against _append_assistant_turn and reject_plan).
LastMessageDecides ==
  (InOrder /\ forms = << >> /\ row.status \notin {"executed", "gone"}) =>
    [k \in DOMAIN Collecting |-> row[k]] = Restored(msgs)

\* Requests one after the other create one run, unless one died after it had
\* created a run the session never heard of (_create_run_from_plan_session).
OneRun == (InOrder /\ ~died) => Len(runs) <= 1

\* An executed session names a run created from it, and in whatever order the
\* columns were written (_create_run_from_plan_session).
ExecutedHasRun == row.status = "executed" => row.run \in DOMAIN runs

\* No run is created with its questions open: it has a target, a document has
\* a base URL, and a page to be tested a way to log in (_missing_questions).
RunsAreAnswered ==
  \A i \in DOMAIN runs :
    /\ runs[i].src # None
    /\ runs[i].src \in Documents => runs[i].base
    /\ runs[i].kind = "ui" => runs[i].mode # "auto" \/ HasMaterial(runs[i])

\* A plan offered after a rejection has no token a user gave before it, unless the
\* model's own answer had it (which nothing prevents), and its target is the last
\* one a user named, whatever the model said (normalize_planner_run_payload).
PlansFollowTheUser ==
  InOrder => LET t == Transcript(msgs) IN \A i \in DOMAIN t :
    (t[i].role = "assistant" /\ t[i].ready) =>
       LET before == SubSeq(t, 1, i - 1)
           said == {j \in DOMAIN before : t[j].role = "user"}
           named == {j \in said : t[j].text.src # None}
       IN  /\ t[i].payload.secret \notin {None, t[i].brought} =>
                \E j \in said : j > Boundary(before) /\ t[j].text.secret = t[i].payload.secret
           /\ named # {} => \E j \in named :
                t[j].text.src = t[i].payload.src /\ \A k \in named : k <= j

\* Every question asked can be answered: at most two groups, each of concrete
\* options and, last, one for an answer of one's own (_dedupe_question_options).
OptionsUsable ==
  \A m \in msgs : m.body.role = "assistant" =>
    /\ Len(m.body.asked) <= 2
    /\ \A i \in DOMAIN m.body.asked :
         LET options == m.body.asked[i].options
         IN  /\ Len(options) \in 1..5 /\ Last(options) = Custom
             /\ \A j \in 1..(Len(options) - 1) : options[j] = "concrete"

\* A required step put off keeps the questionnaire's plan from being executed,
\* whoever else writes the session (_structured_plan_ready_for_generation).
DeferredBlocks ==
  (InOrder /\ msgs = {} /\ row # Gone /\ row.payload # NoPlan) =>
    \E i \in DOMAIN forms : \A s \in Required : forms[i][s].status = "confirmed"

\* A deleted session leaves nothing behind when nothing else was going on (delete_session).
NothingLeftBehind == (InOrder /\ row = Gone) => msgs = {} /\ forms = << >>

\* Whoever waits for the row waits for an edit that is still in progress: no
\* failure leaves the row locked (edit_user_message, _generate_turn's timeout).
LockIsHeld == lock # None => pc[lock] = "turn" /\ op[lock].kind = "edit" /\ row # Gone

\* The session's row, its messages and its lock agree, in whatever order they
\* were written and whatever failed.
RowAgrees == LastMessageDecides /\ NothingLeftBehind /\ LockIsHeld

\* A session leads to one run, which it names, and only when every question that
\* had to be answered was.
RunsAreWanted == OneRun /\ ExecutedHasRun /\ RunsAreAnswered /\ DeferredBlocks

\* What a turn answers follows from what the user said and can be answered.
TurnsServeTheUser == PlansFollowTheUser /\ OptionsUsable
=============================================================================
