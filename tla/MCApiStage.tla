----------------------------- MODULE MCApiStage -----------------------------
(* Configurations for TLC. *)
EXTENDS ApiStage

CONSTANTS a, b, x

E(m, r, d) == [method |-> m, res |-> r, detail |-> d, auth |-> FALSE, upload |-> FALSE,
               list |-> ~d /\ m = "GET", search |-> FALSE, fields |-> 0,
               schema |-> IF d THEN "documented" ELSE "none", benign |-> FALSE]
Searched(r) == << E("POST", r, FALSE), [E("GET", r, FALSE) EXCEPT !.search = TRUE], E("GET", r, TRUE),
                 E("PUT", r, TRUE), E("DELETE", r, TRUE) >>
Crud(r) == << E("GET", r, FALSE), E("POST", r, FALSE), E("GET", r, TRUE), E("PUT", r, FALSE),
              E("PUT", r, TRUE), E("DELETE", r, TRUE) >>
Guarded == << [E("GET", a, FALSE) EXCEPT !.auth = TRUE], [E("POST", b, FALSE) EXCEPT !.fields = 1, !.schema = "required"],
              [E("POST", a, FALSE) EXCEPT !.upload = TRUE], E("GET", a, TRUE) >>
\* The text of both names an export.
Exports == << [E("POST", a, FALSE) EXCEPT !.benign = TRUE], [E("DELETE", a, FALSE) EXCEPT !.benign = TRUE] >>

K(m, r, d) == [method |-> m, res |-> r, detail |-> d, needs |-> {}, gives |-> {}, payload |-> TRUE,
               marked |-> FALSE, constraints |-> {}, benign |-> FALSE, category |-> "SMOKE",
               asserts |-> {}, schema |-> FALSE, expects |-> {"success"}]
SomeCases == << [K("DELETE", a, FALSE) EXCEPT !.needs = {x}, !.marked = TRUE, !.constraints = {"cleanup"}],
            [K("POST", a, FALSE) EXCEPT !.gives = {x}, !.marked = TRUE, !.constraints = {"unique_prefix"}],
            [K("PUT", a, FALSE) EXCEPT !.payload = FALSE],
            [K("GET", a, FALSE) EXCEPT !.category = "AUTH"] >>

\* Probes of the agent's own templates, and an expectation that is no assertion.
Securing == << [K("GET", a, FALSE) EXCEPT !.category = "SECURITY"],
               [K("GET", b, FALSE) EXCEPT !.expects = {"success", "rejection"}] >>

A(kind, names) == [kind |-> kind, names |-> names, root |-> FALSE, op |-> "equals", token |-> FALSE,
                   fits |-> FALSE, lax |-> FALSE, readable |-> kind = "status", valued |-> FALSE, machinery |-> FALSE, blocking |-> TRUE, guarded |-> FALSE]
\* Each kind of assertion, grounded and not.
Asserting == { {A("status", {}), A(k, {})} : k \in BodyKinds }
             \cup { {A("path", {n})} : n \in {"schema", "example", "objective"} }
             \cup { {[A(k, {"schema"}) EXCEPT !.token = TRUE, !.fits = f]} : k \in {"path", "type"}, f \in BOOLEAN }
             \cup { {[A("status", {}) EXCEPT !.readable = FALSE, !.lax = l]} : l \in BOOLEAN }
             \cup { {[A("path", {"objective"}) EXCEPT !.valued = TRUE, !.machinery = m]} : m \in BOOLEAN }
Asserted(as) == << [K("GET", a, FALSE) EXCEPT !.asserts = as], [K("GET", a, TRUE) EXCEPT !.asserts = as] >>
\* The description has nothing of b; a rejection may refute what is asserted.
Strays == << K("GET", b, FALSE), [K("DELETE", b, TRUE) EXCEPT !.marked = TRUE, !.constraints = {"cleanup"}],
             [K("GET", a, TRUE) EXCEPT !.category = "PARAM_VALIDATION", !.asserts = {A("path", {"schema"})}] >>

S(t, m, r, d, cs) == [tool |-> t, method |-> m, res |-> r, detail |-> d, search |-> FALSE, constraints |-> cs, benign |-> FALSE]
Plan == << S("http", "POST", a, FALSE, {"cleanup"}), S("gate", "GET", a, FALSE, {"unique_prefix"}),
           S("shell", "POST", a, FALSE, {}), S("http", "DELETE", a, TRUE, {"unique_prefix"}) >>

\* Only reads were planned: the chain is added behind them.
Reading == << S("http", "GET", a, FALSE, {}) >>

\* Nobody approved these; the reason of the first two names a token.
Talking == << [S("http", "PUT", a, TRUE, {}) EXCEPT !.benign = TRUE],
              [S("http", "DELETE", a, TRUE, {}) EXCEPT !.benign = TRUE], S("http", "POST", a, FALSE, {}) >>

Base == [policy |-> "write_allowed", crud |-> FALSE, suite |-> FALSE, coverage |-> "none",
         schema |-> << >>, focus |-> << >>, plan |-> << >>, cases |-> << >>, budget |-> 0,
         retries |-> 0, login |-> FALSE, headers |-> FALSE, url |-> TRUE,
         generated |-> FALSE, free |-> FALSE]

MCScenarios ==
  { [Base EXCEPT !.crud = TRUE, !.schema = Crud(a), !.budget = n, !.retries = 1] : n \in {0, 4} }
  \cup { [Base EXCEPT !.crud = TRUE, !.schema = Crud(a), !.login = TRUE, !.headers = TRUE, !.budget = n] : n \in {0, 6} }
  \cup { [Base EXCEPT !.crud = TRUE, !.schema = Crud(r), !.plan = Reading] : r \in {a, b} }
  \cup { [Base EXCEPT !.crud = TRUE, !.schema = Crud(b)], [Base EXCEPT !.crud = TRUE, !.schema = Searched(a)] }
  \cup { [Base EXCEPT !.policy = p, !.cases = SomeCases, !.suite = s, !.retries = 1, !.budget = n] :
           p \in Policies, s \in BOOLEAN, n \in {0, 3} }
  \cup { [Base EXCEPT !.policy = p, !.schema = Guarded, !.headers = h, !.login = h, !.retries = 1,
            !.budget = n, !.coverage = g, !.focus = SubSeq(Guarded, 1, 2)] :
           p \in Policies, h \in BOOLEAN, n \in {0, 2}, g \in {"all", "focused"} }
  \cup { [Base EXCEPT !.policy = p, !.schema = Guarded, !.budget = 2] : p \in Policies }
  \cup { [Base EXCEPT !.schema = Exports], [Base EXCEPT !.plan = Talking],
          [Base EXCEPT !.cases = Securing, !.generated = TRUE, !.login = TRUE, !.headers = TRUE] }
  \cup { [Base EXCEPT !.policy = p, !.plan = Plan, !.schema = Crud(a), !.cases = SubSeq(SomeCases, 3, 4)] : p \in Policies }
  \cup { [Base EXCEPT !.schema = Crud(a), !.cases = Asserted(as), !.generated = g] :
           as \in Asserting, g \in BOOLEAN }
  \cup { [Base EXCEPT !.policy = p, !.schema = Crud(a), !.cases = Strays, !.generated = TRUE, !.free = f] :
           p \in Policies, f \in BOOLEAN }
  \cup { Base, [Base EXCEPT !.url = FALSE] }
=============================================================================
