----------------------------- MODULE MCApproval -----------------------------
(* Small instances of Approval for TLC. *)
EXTENDS Approval, TLC

CONSTANTS r1, r2, c1, c2, c3

Interchangeable == Permutations({r1, r2}) \cup Permutations({c1, c2, c3})
=============================================================================
