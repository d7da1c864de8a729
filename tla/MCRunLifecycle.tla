--------------------------- MODULE MCRunLifecycle ---------------------------
(* Small instances of RunLifecycle for TLC. *)
EXTENDS RunLifecycle, TLC

CONSTANTS n1, n2, c1, c2

Interchangeable == Permutations({n1, n2}) \cup Permutations({c1, c2})
=============================================================================
