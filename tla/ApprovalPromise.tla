-------------------------- MODULE ApprovalPromise --------------------------
(***************************************************************************)
(* What human approval of guarded tool calls promises, whatever the        *)
(* processes, sessions and polls in between: a write is executed at most   *)
(* once and only if someone approved it; it is refused only if someone     *)
(* denied it, its time was over, or the execution policy forbids writes.   *)
(***************************************************************************)
CONSTANTS Requests, Policies

Votes    == {"approve", "deny"}
Outcomes == {"open", "executed", "refused"}

VARIABLES
  policy,    \* the run's execution policy
  answers,   \* per request, the answers the API accepted
  late,      \* per request, whether its time is over
  outcome

vars == <<policy, answers, late, outcome>>

Init ==
  /\ policy \in Policies
  /\ answers = [r \in Requests |-> {}]
  /\ late = [r \in Requests |-> FALSE]
  /\ outcome = [r \in Requests |-> "open"]

Answer(r, v) ==
  /\ answers' = [answers EXCEPT ![r] = @ \cup {v}]
  /\ UNCHANGED <<policy, late, outcome>>

TimeOut(r) ==
  /\ late' = [late EXCEPT ![r] = TRUE]
  /\ UNCHANGED <<policy, answers, outcome>>

Execute(r) ==
  /\ outcome[r] = "open"
  /\ "approve" \in answers[r] /\ policy = "write_allowed"
  /\ outcome' = [outcome EXCEPT ![r] = "executed"]
  /\ UNCHANGED <<policy, answers, late>>

Refuse(r) ==
  /\ outcome[r] = "open"
  /\ "deny" \in answers[r] \/ late[r] \/ policy # "write_allowed"
  /\ outcome' = [outcome EXCEPT ![r] = "refused"]
  /\ UNCHANGED <<policy, answers, late>>

Next == \E r \in Requests :
          TimeOut(r) \/ Execute(r) \/ Refuse(r) \/ \E v \in Votes : Answer(r, v)

Spec == Init /\ [][Next]_vars
=============================================================================
