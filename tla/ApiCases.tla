------------------------------ MODULE ApiCases ------------------------------
(***************************************************************************)
(* What the API stage keeps of the cases it is given, and of what they     *)
(* assert (api_scope.py): cases a model generated must stay within the API *)
(* description and the policy, and an assertion about a field that neither *)
(* the description, nor a documented example, nor the user names becomes a *)
(* note.  Cases the user chose are kept; only assertions no response could *)
(* satisfy become notes.                                                   *)
(*                                                                         *)
(* An assertion is what the code finds out about it: its kind; where the   *)
(* field it looks at is named; whether it is the root; whether it compares *)
(* (op) with the name of a JSON type (token), and the documented type fits *)
(* that name; whether the user's text names its value, or speaks of the    *)
(* agent's own machinery.  Of a status: whether an answer that carries the *)
(* documented one satisfies it (fits), whether a rejection may (lax), and  *)
(* whether the sanitizer reads its statuses (readable): it does not read   *)
(* "not_equals:200" or what is no number.                                  *)
(***************************************************************************)
EXTENDS Naturals, Sequences, FiniteSets, SequencesExt, Selections

SafeMethods  == {"GET"}
WriteMethods == {"POST", "PUT", "DELETE"}
Methods      == SafeMethods \cup WriteMethods
Policies     == {"safe_read_only", "write_allowed"}

Write(method)        == method \in WriteMethods
WriteAllowed(policy) == policy = "write_allowed"

\* Categories that expect a rejection choose their own statuses.
NegativeCategories == {"AUTH", "SECURITY", "PARAM_VALIDATION"}

BodyKinds == {"path", "type", "schema", "contains"}

\* What only the sanitizer marks as guarded it has made a note of.
Assertions ==
  {a \in [kind : {"status", "other"} \cup BodyKinds, names : SUBSET {"schema", "example", "objective"},
          root : BOOLEAN, op : {"equals", "exists", "other"}, token : BOOLEAN, fits : BOOLEAN,
          lax : BOOLEAN, readable : BOOLEAN, valued : BOOLEAN, machinery : BOOLEAN,
          blocking : BOOLEAN, guarded : BOOLEAN] :
     a.guarded => ~a.blocking}

\* The schema of the whole answer, checked beside what a case asserts.
SchemaCheck(blocking) ==
  [kind |-> "schema", names |-> {"schema"}, root |-> TRUE, op |-> "equals", token |-> FALSE,
   fits |-> TRUE, lax |-> FALSE, readable |-> FALSE, valued |-> FALSE, machinery |-> FALSE,
   blocking |-> blocking, guarded |-> FALSE]

\* What decides if no assertion is about the status: the expected_status of the request
\* itself, which is no assertion and therefore not the sanitizer's business.
Expected(answers) ==
  [kind |-> "status", names |-> {}, root |-> FALSE, op |-> "equals", token |-> FALSE,
   fits |-> "success" \in answers, lax |-> "rejection" \in answers, readable |-> FALSE,
   valued |-> FALSE, machinery |-> FALSE, blocking |-> TRUE, guarded |-> FALSE]

----------------------------------------------------------------------------
(* What an assertion rests on. *)

\* A path without a name is the whole answer, which any schema describes.
GroundedInSchema(a, k) == k.schema /\ (a.root \/ "schema" \in a.names)

GroundedInExample(a) == ~a.root /\ "example" \in a.names

\* That the field exists may be asked on the user's word; a value must be theirs too.
GroundedInObjective(a) ==
  /\ ~a.root /\ ~a.machinery
  /\ "objective" \in a.names
  /\ a.op = "exists" \/ (~a.token /\ a.valued)

TypeGrounded(a, k) == a.token /\ a.fits /\ GroundedInSchema(a, k)

Grounded(a, k) == GroundedInSchema(a, k) \/ GroundedInExample(a) \/ GroundedInObjective(a)

\* Mutant: the code keeps what it should have made a note.
KeptAnyway(a) == [a EXCEPT !.guarded = TRUE]

Downgraded(a) == [a EXCEPT !.blocking = FALSE, !.guarded = TRUE]

\* Mutant: a guessed status is kept.
KeptStatus(a, k) == a

\* A status that is not the documented one is replaced by it, if it can be read.
StatusScoped(a, k) ==
  IF k.category \in NegativeCategories \/ ~a.readable \/ a.fits THEN a
  ELSE [a EXCEPT !.fits = TRUE, !.lax = FALSE]

\* "Equals object" is a question about the type, if the description has an answer.
PathScoped(a, k, strict) ==
  IF a.token /\ a.op = "equals"
    THEN IF TypeGrounded(a, k) THEN [a EXCEPT !.kind = "type"] ELSE Downgraded(a)
  ELSE IF strict /\ ~Grounded(a, k) THEN Downgraded(a)
  ELSE a

TypeScoped(a, k, strict) == IF strict /\ ~TypeGrounded(a, k) THEN Downgraded(a) ELSE a

\* A schema needs one; text searched in the body, and what the runner has no check
\* for, is a note.
OtherScoped(a, k) == IF a.kind = "schema" /\ k.schema THEN a ELSE Downgraded(a)

Scoped(a, k, strict) ==
  IF a.guarded THEN a
  ELSE CASE a.kind = "status"  -> StatusScoped(a, k)
         [] a.kind = "path"    -> PathScoped(a, k, strict)
         [] a.kind = "type"    -> TypeScoped(a, k, strict)
         [] OTHER              -> OtherScoped(a, k)

----------------------------------------------------------------------------
(* The cases. *)

\* The endpoints a case addresses: those with its method whose path is its own, or
\* a template of it.
Matching(k, schema) ==
  {i \in DOMAIN schema :
     schema[i].method = k.method /\ schema[i].res = k.res /\ schema[i].detail = k.detail}

\* A case that brings no schema takes the one of its endpoint.
Sanitized(k, schema, strict) ==
  LET known == [k EXCEPT !.schema = @ \/ \E i \in Matching(k, schema) : schema[i].schema # "none"]
  IN  [known EXCEPT !.asserts = {Scoped(a, known, strict) : a \in k.asserts}]

\* Mutant: what the description does not have is dropped only under write_allowed.
ScopeOfWrites(k, c) ==
  IF Write(k.method) THEN WriteAllowed(c.policy) /\ (c.schema # << >> => Matching(k, c.schema) # {})
  ELSE TRUE

\* validate_generated_api_cases
InScope(k, c) ==
  /\ c.schema # << >> /\ ~c.free => Matching(k, c.schema) # {}
  /\ Write(k.method) => WriteAllowed(c.policy)

ValidCases(c) ==
  LET kept == Picked(c.cases, {i \in DOMAIN c.cases : InScope(c.cases[i], c)})
  IN  [i \in DOMAIN kept |-> Sanitized(kept[i], c.schema, TRUE)]

\* sanitize_api_case_assertions
SanitizedCases(c) == [i \in DOMAIN c.cases |-> Sanitized(c.cases[i], c.schema, FALSE)]

RunCases(c) == IF c.generated THEN ValidCases(c) ELSE SanitizedCases(c)
=============================================================================
