---------------------------- MODULE MCAgentGraph ----------------------------
(* Small instances of AgentGraph for TLC. *)
EXTENDS AgentGraph

Created(test, flags) ==
  [test |-> test, seed |-> "seed" \in flags, baseUrl |-> "baseUrl" \in flags,
   suite |-> "suite" \in flags, given |-> "given" \in flags,
   credentials |-> "credentials" \in flags]

\* Each test type with and without each thing a run can be created with.
SomeConfigs ==
  {Created("api", f)  : f \in {{}, {"baseUrl", "given"}, {"suite"}}}
  \cup {Created("ui", f)   : f \in {{}, {"given"}, {"credentials"}, {"suite", "given"}}}
  \cup {Created("auto", f) : f \in {{}, {"baseUrl"}, {"suite", "seed"}}}
  \cup {Created("full", f) : f \in {{}, {"suite", "seed", "given"}}}
=============================================================================
