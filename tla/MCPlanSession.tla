---------------------------- MODULE MCPlanSession ----------------------------
(* A small session for TLC. *)
EXTENDS PlanSession

CONSTANTS s1, c1, c2

MCSymmetry == Permutations(Clients)

MCTexts == { Blank,
             [Blank EXCEPT !.src = "url", !.intent = {"ui"}, !.secret = s1],
             [Blank EXCEPT !.src = "doc", !.noauth = TRUE, !.policy = {"write_allowed"}] }

Plain == [step |-> "target", options |-> << "concrete", "placeholder", "concrete" >>]
Foreign == [step |-> "target", options |-> << "unsupported" >>]
MCModels == { [Silent EXCEPT !.base = TRUE],
              [Silent EXCEPT !.token = s1, !.src = "doc"],
              [Silent EXCEPT !.veto = TRUE, !.groups = << Plain, Foreign >>] }

A(s, act, o, e) == [step |-> s, action |-> act, option |-> o, extra |-> e]
Login == [Blank EXCEPT !.src = "url", !.noauth = TRUE, !.success = TRUE]
MCSteps == << "target", "scope" >>
MCIntakes == { A("target", "continue", Login, Blank), A("target", "defer", Login, [Blank EXCEPT !.success = TRUE]),
               A("scope", "skip", Blank, Blank) }
=============================================================================
