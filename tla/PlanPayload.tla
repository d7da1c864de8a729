---------------------------- MODULE PlanPayload ----------------------------
(***************************************************************************)
(* From a conversation to a run (agent_planning.py): what the patterns     *)
(* find in the users' texts and what the model adds makes the payload, the *)
(* payload decides which questions are open, and without open questions    *)
(* the turn offers a plan.                                                 *)
(*                                                                         *)
(* A text is the record of what the patterns find in it, and an option of  *)
(* a question is the kind the sanitizer tells it to be.  Objectives, plan  *)
(* titles and captcha modes are left out.                                  *)
(***************************************************************************)
EXTENDS Naturals, Sequences, SequencesExt, Selections

CONSTANTS Secrets  \* tokens a user may paste

None == "none"

\* A document without "servers" names no base URL.
Sources    == {None, "url", "doc", "served"}
Documents  == {"doc", "served"}
Policies   == {"safe_read_only", "safe_with_auth", "write_allowed"}
AuthModes  == {"auto", "manual", "none_confirmed"}
TestTypes  == {"api", "ui"}
Statuses   == {"collecting", "ready", "executed"}

Text == [src : Sources, noauth : BOOLEAN, login : BOOLEAN, secret : Secrets \cup {None},
         success : BOOLEAN, intent : SUBSET TestTypes, policy : SUBSET Policies]
Blank == [src |-> None, noauth |-> FALSE, login |-> FALSE, secret |-> None,
          success |-> FALSE, intent |-> {}, policy |-> {}]

\* The kinds of options a question may be given.
OptionKinds == {"concrete", "custom", "placeholder", "unsupported", "blank"}

\* What the language model answers; veto: a payload, but not ready to execute;
\* token, headers and login: credentials of its own.
Group  == [step : STRING, options : Seq(OptionKinds)]
Answer == [veto : BOOLEAN, src : Sources, base : BOOLEAN, kind : TestTypes \cup {None},
           mode : AuthModes \cup {None}, policy : Policies \cup {None}, groups : Seq(Group),
           token : Secrets \cup {None}, headers : BOOLEAN, login : BOOLEAN]
Silent == [veto |-> FALSE, src |-> None, base |-> FALSE, kind |-> None, mode |-> None,
           policy |-> None, groups |-> << >>, token |-> None, headers |-> FALSE, login |-> FALSE]

----------------------------------------------------------------------------
(* Texts and conversations. *)

UpTo(n, s) == IF Len(s) <= n THEN s ELSE SubSeq(s, 1, n)

LastOf(ts, field(_)) ==
  LET found == {i \in DOMAIN ts : field(ts[i]) # None}
  IN  IF found = {} THEN None ELSE field(ts[CHOOSE i \in found : \A j \in found : j <= i])

TextSource(t) == t.src
Secret(t)     == t.secret

\* The patterns on one text joined of several: a document anywhere comes before a URL.
Joined(ts) ==
  LET docs == Picked(ts, {i \in DOMAIN ts : ts[i].src \in Documents})
      some(P(_)) == \E i \in DOMAIN ts : P(ts[i])
  IN  [src     |-> IF docs # << >> THEN docs[1].src ELSE LastOf(ts, TextSource),
       noauth  |-> some(LAMBDA t : t.noauth),
       login   |-> some(LAMBDA t : t.login),
       secret  |-> LastOf(ts, Secret),
       success |-> some(LAMBDA t : t.success),
       intent  |-> UNION {ts[i].intent : i \in DOMAIN ts},
       policy  |-> UNION {ts[i].policy : i \in DOMAIN ts}]

Users(msgs) ==
  LET us == Picked(msgs, {i \in DOMAIN msgs : msgs[i].role = "user"})
  IN  [i \in DOMAIN us |-> us[i].text]

\* Where the last rejection leaves off; 0: nothing was rejected.
Boundary(msgs) ==
  LET rejections == {i \in DOMAIN msgs : msgs[i].role = "system"}
  IN  IF rejections = {} THEN 0 ELSE CHOOSE i \in rejections : \A j \in rejections : j <= i

\* Mutant: the whole conversation stays active after a rejection.
WholeConversation(msgs) == Joined(Users(msgs))

\* What users said after the last rejection, or everything if they said nothing.
ActiveText(msgs) ==
  LET after == Users(SubSeq(msgs, Boundary(msgs) + 1, Len(msgs)))
  IN  Joined(IF after = << >> THEN Users(msgs) ELSE after)

LatestText(msgs) == LET us == Users(msgs) IN IF us = << >> THEN Blank ELSE Last(us)

----------------------------------------------------------------------------
(* The payload. *)

CandidateSource(llm, msgs) ==
  LET said == LastOf(Users(msgs), TextSource) IN IF said # None THEN said ELSE llm.src

TestType(llm, source, intent) ==
  CASE llm.kind # None -> llm.kind
    [] llm.kind = None /\ (source \in Documents \/ (source # None /\ "api" \in intent)) -> "api"
    [] OTHER -> IF "ui" \in intent THEN "ui" ELSE "api"

\* The model's token comes before the one a user gave.
Token(llm, text) == IF llm.token # None THEN llm.token ELSE text.secret

AuthMode(llm, text, token) ==
  CASE llm.mode # None -> llm.mode
    [] llm.mode = None /\ text.noauth -> "none_confirmed"
    [] OTHER -> IF token # None \/ llm.headers THEN "manual" ELSE "auto"

ApiPolicy(llm, text) ==
  CASE llm.policy # None -> llm.policy
    [] llm.policy = None /\ "safe_with_auth" \in text.policy -> "safe_with_auth"
    [] OTHER -> IF text.policy = {"write_allowed"} THEN "write_allowed" ELSE "safe_read_only"

Payload(llm, msgs) ==
  LET source == CandidateSource(llm, msgs)
      active == ActiveText(msgs)
      latest == LatestText(msgs)
      intent == IF latest.intent # {} THEN latest.intent ELSE Joined(Users(msgs)).intent
  IN  [src    |-> source,
       base   |-> llm.base \/ source = "served",
       kind   |-> TestType(llm, source, intent),
       secret |-> Token(llm, active),
       headers |-> llm.headers,
       login  |-> llm.login \/ active.login,
       mode   |-> AuthMode(llm, latest, Token(llm, active)),
       policy |-> ApiPolicy(llm, latest)]

Recognized(msgs) ==
  LET t == ActiveText(msgs)
  IN  {q \in {"target", "auth", "success"} :
         CASE q = "target" -> t.src # None
           [] q = "auth" -> t.noauth
           [] q = "success" -> t.success}

HasMaterial(p) == p.secret # None \/ p.headers \/ p.login

\* The questions still open, in the order they are asked.
Missing(p, recognized) ==
  LET open(q) == IF q \in recognized THEN << >> ELSE << q >>
      undecided == p.mode = "auto" /\ ~HasMaterial(p)
  IN  CASE p.src = None /\ "target" \notin recognized ->
             << "target", "scope", "auth", "safety", "success" >>
        [] p.src \in Documents /\ ~p.base -> << "base" >> \o open("success")
        [] OTHER -> IF ~undecided THEN << >>
                    ELSE IF p.kind = "api" THEN open("auth") \o open("success")
                         ELSE open("auth") \o << "safety" >> \o open("success")

----------------------------------------------------------------------------
(* The options offered with a question. *)

Custom      == "custom"
SupportedTargets == << "concrete", "concrete", Custom >>

Usable(options) ==
  LET kept == Picked(options, {i \in DOMAIN options : options[i] \in {"concrete", Custom}})
      dropped == \E i \in DOMAIN options : options[i] \in {"placeholder", "unsupported"}
  IN  [options |-> kept, replaced |-> kept = << >> /\ dropped]

\* At most four options, and exactly one for an answer of one's own, the last.
Capped(options) ==
  UpTo(4, Picked(options, {i \in DOMAIN options : options[i] # Custom})) \o << Custom >>

SanitizedGroup(g) ==
  LET u == Usable(g.options)
      options == IF u.replaced /\ g.step = "target" THEN SupportedTargets ELSE u.options
  IN  [step |-> g.step, options |-> IF options = << >> THEN << >> ELSE Capped(options)]

FallbackGroups(p, questions) ==
  LET group(s) == [step |-> s, options |-> SupportedTargets]
      steps == << "target", "base", "auth", "scope" >>
      asks(q) == \E i \in DOMAIN questions : questions[i] = q
      open(q) == CASE q = "target" -> p.src = None
                   [] q \in {"base", "auth"} -> asks(q)
                   [] OTHER -> TRUE
  IN  Picked([i \in DOMAIN steps |-> group(steps[i])], {i \in DOMAIN steps : open(steps[i])})

\* Two groups of the model's, or the first of the fallback's.
QuestionOptions(llm, p, questions) ==
  LET all == [i \in DOMAIN llm.groups |-> SanitizedGroup(llm.groups[i])]
      own == Picked(all, {i \in DOMAIN all : all[i].options # << >>})
  IN  IF own # << >> THEN UpTo(2, own) ELSE UpTo(1, FallbackGroups(p, questions))

----------------------------------------------------------------------------
(* One turn of the assistant. *)

IsReady(llm, p, questions) == questions = << >> /\ p.src # None /\ ~llm.veto

NoPlan == [src |-> None]

\* The turn's message: a plan with its payload, or questions with options; brought
\* (history): the token the model's answer had.
Turn(llm, msgs) ==
  LET p == Payload(llm, msgs)
      questions == Missing(p, Recognized(msgs))
      ready == IsReady(llm, p, questions)
  IN  [role     |-> "assistant",
       ready    |-> ready,
       payload  |-> IF ready THEN p ELSE NoPlan,
       brought  |-> llm.token,
       asked    |-> IF ready THEN << >> ELSE QuestionOptions(llm, p, questions)]
=============================================================================
