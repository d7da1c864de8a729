--------------------------- MODULE SuiteStore_proofs ---------------------------
(***************************************************************************)
(* Theorems about SuiteStore: where secrets go, what the runs made from a   *)
(* suite's run have of it, and what the suite's run has of the suite.       *)
(***************************************************************************)
EXTENDS SuiteStore, SequenceTheorems, FiniteSetTheorems, FunctionTheorems, WellFoundedInduction, TLAPS

-----------------------------------------------------------------------------
(* Lists.                                                                  *)

LEMMA ListOf ==
  ASSUME NEW n \in Nat, NEW f, f = [i \in 1 .. n |-> f[i]]
  PROVE  IsList(f) /\ Len(f) = n /\ DOMAIN f = 1 .. n /\ <<>> \o f = f
<1> DEFINE S == {f[i] : i \in 1 .. n}
<1>1. f \in [1 .. n -> S] /\ DOMAIN f = 1 .. n
  OBVIOUS
<1>2. f \in Seq(S)
  BY <1>1, IsASeq
<1>3. Len(f) = n
  BY <1>1, <1>2, LenProperties
<1>4. <<>> \o f = f
  BY <1>2, ConcatEmptySeq
<1> QED
  BY <1>1, <1>3, <1>4 DEF IsList

LEMMA ListDomain == ASSUME NEW s, IsList(s) PROVE DOMAIN s = 1 .. Len(s)
BY DEF IsList

LEMMA AppendList ==
  ASSUME NEW s, NEW x, IsList(s)
  PROVE  /\ IsList(Append(s, x)) /\ Len(Append(s, x)) = Len(s) + 1
         /\ \A i \in 1 .. Len(s) + 1 : Append(s, x)[i] = IF i <= Len(s) THEN s[i] ELSE x
<1> DEFINE S == {s[i] : i \in 1 .. Len(s)} \cup {x}
<1>1. s \in [1 .. Len(s) -> S] /\ Len(s) \in Nat
  BY DEF IsList
<1>2. s \in Seq(S)
  BY <1>1
<1>3. /\ Append(s, x) \in Seq(S) /\ Len(Append(s, x)) = Len(s) + 1
      /\ \A i \in 1 .. Len(s) : Append(s, x)[i] = s[i]
      /\ Append(s, x)[Len(s) + 1] = x
  BY <1>2, AppendProperties
<1>4. IsList(Append(s, x))
  <2> DEFINE a == Append(s, x)
  <2>1. a \in [1 .. Len(a) -> S] /\ Len(a) \in Nat
    BY <1>3, LenProperties
  <2> HIDE DEF a
  <2> QED
    BY <2>1 DEF IsList, a
<1>5. \A i \in 1 .. Len(s) + 1 : i \in 1 .. Len(s) \/ i = Len(s) + 1
  BY <1>1
<1> QED
  BY <1>1, <1>3, <1>4, <1>5

-----------------------------------------------------------------------------
(* Redaction.                                                              *)

LEMMA Values == None # Secret /\ Hidden # Secret
BY Zenon DEF None, Secret, Hidden

LEMMA TextTwice ==
  ASSUME NEW u
  PROVE  /\ RedactedText(RedactedText(u)) = RedactedText(u) /\ RedactedText(u) # "http?token"
         /\ RedactedText(u) = None <=> u = None
<1>1. None \notin {"http?token", "http?hidden"}
  BY Zenon DEF None
<1> QED
  BY <1>1 DEF RedactedText

LEMMA ValueSafe == ASSUME NEW v PROVE RedactedValue(v) # Secret /\ RedactedValue(RedactedValue(v)) = RedactedValue(v)
BY DEF RedactedValue, Secret, Hidden

LEMMA CommandFields ==
  ASSUME NEW c, IsCommand(c)
  PROVE  LoggedCommand(c) =
           [name |-> c.name, arg |-> RedactedText(c.arg),
            val |-> IF Typing(c) /\ c.form = "plain" /\ c.val # None THEN Hidden ELSE c.val, form |-> c.form]
<1> DEFINE c1 == [c EXCEPT !.arg = RedactedText(@)]
           v == IF Typing(c) /\ c.form = "plain" /\ c.val # None THEN Hidden ELSE c.val
<1>1. c1 = [name |-> c.name, arg |-> RedactedText(c.arg), val |-> c.val, form |-> c.form]
  BY DEF IsCommand
<1>2. LoggedCommand(c) = [c1 EXCEPT !.val = IF Typing(c) /\ c.form = "plain" /\ @ # None THEN Hidden ELSE @]
  BY Zenon DEF LoggedCommand
<1> HIDE DEF c1
<1>3. LoggedCommand(c) = [name |-> c.name, arg |-> RedactedText(c.arg), val |-> v, form |-> c.form]
  BY <1>1, <1>2
<1> QED
  BY <1>3

LEMMA CommandSafe ==
  ASSUME NEW c, IsCommand(c)
  PROVE  LET l == LoggedCommand(c)
         IN  /\ IsCommand(l) /\ LoggedCommand(l) = l /\ l.name = c.name
             /\ l.arg # "http?token" /\ (Typing(l) /\ l.form = "plain" => l.val # Secret)
<1> DEFINE L(x) == [name |-> x.name, arg |-> RedactedText(x.arg),
                    val |-> IF Typing(x) /\ x.form = "plain" /\ x.val # None THEN Hidden ELSE x.val, form |-> x.form]
<1>1. ASSUME NEW x, IsCommand(x) PROVE LoggedCommand(x) = L(x)
  BY <1>1, CommandFields
<1>2. IsCommand(L(c)) /\ L(L(c)) = L(c) /\ L(c).name = c.name /\ L(c).arg # "http?token"
  BY TextTwice DEF IsCommand, Typing
<1>3. Typing(L(c)) /\ L(c).form = "plain" => L(c).val # Secret
  BY Values DEF Typing
<1> HIDE DEF L
<1> QED
  BY <1>1, <1>2, <1>3

LEMMA SavedCommandSafe ==
  ASSUME NEW c, IsCommand(c)
  PROVE  LET s == SavedCommand(c)
         IN  /\ IsCommand(s) /\ s.arg # "http?token" /\ (Typing(s) /\ s.form = "plain" => s.val # Secret)
             /\ Typing(s) /\ Hinted(s) => s.val # Secret
<1> DEFINE t == LoggedCommand(c)
<1>1. IsCommand(t) /\ t.arg # "http?token" /\ (Typing(t) /\ t.form = "plain" => t.val # Secret)
  BY CommandSafe
<1>2. /\ Typing(t) /\ Hinted(t) /\ t.val # None => SavedCommand(c) = [t EXCEPT !.val = Hidden]
      /\ Typing(t) /\ Hinted(t) /\ t.val = None => SavedCommand(c) = [t EXCEPT !.arg = Hidden]
      /\ ~(Typing(t) /\ Hinted(t)) => SavedCommand(c) = t
  BY DEF SavedCommand
<1> HIDE DEF t
<1>3. CASE Typing(t) /\ Hinted(t) /\ t.val # None
  <2>1. SavedCommand(c) = [name |-> t.name, arg |-> t.arg, val |-> Hidden, form |-> t.form]
    BY <1>1, <1>2, <1>3 DEF IsCommand
  <2> QED
    BY <1>1, <2>1, Values DEF IsCommand
<1>4. CASE Typing(t) /\ Hinted(t) /\ t.val = None
  <2>1. SavedCommand(c) = [name |-> t.name, arg |-> Hidden, val |-> None, form |-> t.form]
    BY <1>1, <1>2, <1>4 DEF IsCommand
  <2>2. Hidden # "http?token"
    BY Zenon DEF Hidden
  <2> QED
    BY <2>1, <2>2, Values DEF IsCommand
<1>5. CASE ~(Typing(t) /\ Hinted(t))
  BY <1>1, <1>2, <1>5
<1> QED
  BY <1>3, <1>4, <1>5

(* What is done to each entry of a list makes a list of the same length.    *)
LEMMA MapList ==
  ASSUME NEW s, IsList(s), NEW f, f = [i \in DOMAIN s |-> f[i]]
  PROVE  IsList(f) /\ Len(f) = Len(s) /\ DOMAIN s = 1 .. Len(s) /\ DOMAIN f = 1 .. Len(s) /\ <<>> \o f = f
<1>1. Len(s) \in Nat /\ DOMAIN s = 1 .. Len(s)
  BY ListDomain DEF IsList
<1>2. f = [i \in 1 .. Len(s) |-> f[i]]
  BY <1>1
<1> QED
  BY <1>1, <1>2, ListOf

LEMMA CommandsSafe ==
  ASSUME NEW s, AreCommands(s)
  PROVE  /\ AreCommands(RedactedCommands(s)) /\ LoggedCommands(RedactedCommands(s))
         /\ RedactedCommands(RedactedCommands(s)) = RedactedCommands(s)
         /\ RedactedCommands(s) = [i \in DOMAIN s |-> LoggedCommand(s[i])]
<1> DEFINE f == [i \in DOMAIN s |-> LoggedCommand(s[i])]
<1>1. f = [i \in DOMAIN s |-> f[i]]
  OBVIOUS
<1>2. \A i \in DOMAIN s : f[i] = LoggedCommand(s[i])
  OBVIOUS
<1> HIDE DEF f
<1>3. IsList(f) /\ Len(f) = Len(s) /\ DOMAIN s = 1 .. Len(s) /\ DOMAIN f = 1 .. Len(s) /\ <<>> \o f = f
  BY <1>1, MapList DEF AreCommands
<1>4. RedactedCommands(s) = f
  BY <1>3 DEF RedactedCommands, f
<1>5. \A i \in 1 .. Len(s) : /\ IsCommand(f[i]) /\ LoggedCommand(f[i]) = f[i] /\ f[i].arg # "http?token"
                             /\ Typing(f[i]) /\ f[i].form = "plain" => f[i].val # Secret
  BY <1>2, <1>3, CommandSafe DEF AreCommands
<1>6. AreCommands(f) /\ LoggedCommands(f)
  BY <1>3, <1>5 DEF AreCommands, LoggedCommands
<1>7. [i \in DOMAIN f |-> LoggedCommand(f[i])] = f
  BY <1>1, <1>3, <1>5
<1>8. RedactedCommands(f) = f
  BY <1>3, <1>7 DEF RedactedCommands
<1> QED
  BY <1>4, <1>6, <1>8 DEF f

LEMMA SavedCommandsSafe ==
  ASSUME NEW s, AreCommands(s), NEW f, f = [i \in DOMAIN s |-> SavedCommand(s[i])]
  PROVE  AreCommands(f) /\ SavedCommands(f)
<1>1. f = [i \in DOMAIN s |-> f[i]]
  OBVIOUS
<1>2. \A i \in DOMAIN s : f[i] = SavedCommand(s[i])
  OBVIOUS
<1>3. IsList(f) /\ Len(f) = Len(s) /\ DOMAIN s = 1 .. Len(s) /\ DOMAIN f = 1 .. Len(s)
  BY <1>1, MapList DEF AreCommands
<1>4. \A i \in 1 .. Len(s) : /\ IsCommand(f[i]) /\ f[i].arg # "http?token"
                             /\ Typing(f[i]) /\ f[i].form = "plain" => f[i].val # Secret
                             /\ Typing(f[i]) /\ Hinted(f[i]) => f[i].val # Secret
  BY <1>2, <1>3, SavedCommandSafe DEF AreCommands
<1> QED
  BY <1>3, <1>4 DEF AreCommands, SavedCommands, LoggedCommands

LEMMA ActionFields ==
  ASSUME NEW a, IsAction(a)
  PROVE  RedactedAction(a) = [type |-> a.type, arg |-> RedactedText(a.arg), val |-> RedactedText(a.val)]
<1> DEFINE a1 == [a EXCEPT !.arg = RedactedText(@)]
<1>1. a1 = [type |-> a.type, arg |-> RedactedText(a.arg), val |-> a.val]
  BY DEF IsAction
<1>2. RedactedAction(a) = [a1 EXCEPT !.val = RedactedText(@)]
  BY <1>1 DEF RedactedAction, IsAction
<1> HIDE DEF a1
<1> QED
  BY <1>1, <1>2

LEMMA ActionsSafe ==
  ASSUME NEW s, AreActions(s)
  PROVE  /\ AreActions(RedactedActions(s)) /\ RedactedActions(RedactedActions(s)) = RedactedActions(s)
         /\ RedactedActions(s) = [i \in DOMAIN s |-> RedactedAction(s[i])]
<1> DEFINE f == [i \in DOMAIN s |-> RedactedAction(s[i])]
           R(a) == [type |-> a.type, arg |-> RedactedText(a.arg), val |-> RedactedText(a.val)]
<1>1. f = [i \in DOMAIN s |-> f[i]]
  OBVIOUS
<1>2. \A i \in DOMAIN s : f[i] = RedactedAction(s[i])
  OBVIOUS
<1> HIDE DEF f
<1>3. IsList(f) /\ Len(f) = Len(s) /\ DOMAIN s = 1 .. Len(s) /\ DOMAIN f = 1 .. Len(s) /\ <<>> \o f = f
  BY <1>1, MapList DEF AreActions
<1>4. RedactedActions(s) = f
  BY <1>3 DEF RedactedActions, f
<1>5. ASSUME NEW a, IsAction(a) PROVE IsAction(RedactedAction(a)) /\ RedactedAction(RedactedAction(a)) = RedactedAction(a)
  <2>1. RedactedAction(a) = R(a)
    BY <1>5, ActionFields
  <2>2. IsAction(R(a)) /\ R(R(a)) = R(a)
    BY TextTwice DEF IsAction
  <2>3. RedactedAction(R(a)) = R(R(a))
    BY <2>2, ActionFields
  <2> QED
    BY <2>1, <2>2, <2>3
<1>6. \A i \in 1 .. Len(s) : IsAction(f[i]) /\ RedactedAction(f[i]) = f[i]
  BY <1>2, <1>3, <1>5 DEF AreActions
<1>7. AreActions(f)
  BY <1>3, <1>6 DEF AreActions
<1>8. [i \in DOMAIN f |-> RedactedAction(f[i])] = f
  BY <1>1, <1>3, <1>6
<1>9. RedactedActions(f) = f
  BY <1>3, <1>8 DEF RedactedActions
<1> QED
  BY <1>4, <1>7, <1>9 DEF f

LEMMA RequestFields ==
  ASSUME NEW t, IsTemplate(t)
  PROVE  RedactedRequest(t) =
           [method |-> t.method, url |-> RedactedText(t.url), base |-> RedactedText(t.base),
            headers |-> t.headers, body |-> RedactedValue(t.body)]
<1> DEFINE t1 == [t EXCEPT !.url = RedactedText(@)]
<1>1. t1 = [method |-> t.method, url |-> RedactedText(t.url), base |-> t.base,
            headers |-> t.headers, body |-> t.body]
  BY DEF IsTemplate
<1> HIDE DEF t1
<1> DEFINE t2 == [t1 EXCEPT !.base = RedactedText(@)]
<1>2. t2 = [method |-> t.method, url |-> RedactedText(t.url),
            base |-> RedactedText(t.base), headers |-> t.headers, body |-> t.body]
  BY <1>1
<1> HIDE DEF t2
<1> DEFINE t3 == [t2 EXCEPT !.body = RedactedValue(@)]
<1>3. t3 = [method |-> t.method, url |-> RedactedText(t.url),
            base |-> RedactedText(t.base), headers |-> t.headers,
            body |-> RedactedValue(t.body)]
  BY <1>2
<1> HIDE DEF t3
<1>4. RedactedRequest(t) = t3
  BY <1>1, <1>2 DEF t1, t2, t3, RedactedRequest, IsTemplate
<1> QED
  BY <1>3, <1>4

LEMMA RequestSafe ==
  ASSUME NEW t, IsTemplate(t)
  PROVE  /\ IsTemplate(RedactedRequest(t)) /\ RedactedRequest(t).body # Secret
         /\ RedactedRequest(RedactedRequest(t)) = RedactedRequest(t)
<1> DEFINE R(x) == [method |-> x.method, url |-> RedactedText(x.url), base |-> RedactedText(x.base),
                    headers |-> x.headers, body |-> RedactedValue(x.body)]
<1>1. ASSUME NEW x, IsTemplate(x) PROVE RedactedRequest(x) = R(x)
  BY <1>1, RequestFields
<1>2. IsTemplate(R(t)) /\ R(R(t)) = R(t) /\ R(t).body # Secret
  BY TextTwice, ValueSafe DEF IsTemplate
<1> QED
  BY <1>1, <1>2

LEMMA DataFields ==
  ASSUME NEW d, IsData(d)
  PROVE  RedactedData(d) =
           [request |-> RedactedRequest(d.request), url |-> RedactedText(d.url), target |->
            RedactedText(d.target), base |-> RedactedText(d.base), commands |->
            RedactedCommands(d.commands)]
<1> DEFINE d1 == [d EXCEPT !.request = RedactedRequest(@)]
<1>1. d1 = [request |-> RedactedRequest(d.request), url |-> d.url, target |-> d.target,
            base |-> d.base, commands |-> d.commands]
  BY DEF IsData
<1> HIDE DEF d1
<1> DEFINE d2 == [d1 EXCEPT !.url = RedactedText(@)]
<1>2. d2 = [request |-> RedactedRequest(d.request), url |-> RedactedText(d.url),
            target |-> d.target, base |-> d.base, commands |-> d.commands]
  BY <1>1
<1> HIDE DEF d2
<1> DEFINE d3 == [d2 EXCEPT !.target = RedactedText(@)]
<1>3. d3 = [request |-> RedactedRequest(d.request), url |-> RedactedText(d.url),
            target |-> RedactedText(d.target), base |-> d.base, commands |-> d.commands]
  BY <1>2
<1> HIDE DEF d3
<1> DEFINE d4 == [d3 EXCEPT !.base = RedactedText(@)]
<1>4. d4 = [request |-> RedactedRequest(d.request), url |-> RedactedText(d.url),
            target |-> RedactedText(d.target), base |-> RedactedText(d.base),
            commands |-> d.commands]
  BY <1>3
<1> HIDE DEF d4
<1> DEFINE d5 == [d4 EXCEPT !.commands = RedactedCommands(@)]
<1>5. d5 = [request |-> RedactedRequest(d.request), url |-> RedactedText(d.url),
            target |-> RedactedText(d.target), base |-> RedactedText(d.base),
            commands |-> RedactedCommands(d.commands)]
  BY <1>4
<1> HIDE DEF d5
<1>6. RedactedData(d) = d5
  BY <1>1, <1>2, <1>3, <1>4 DEF d1, d2, d3, d4, d5, RedactedData, IsData
<1> QED
  BY <1>5, <1>6

LEMMA DataSafe ==
  ASSUME NEW d, IsData(d)
  PROVE  /\ IsData(RedactedData(d)) /\ RedactedData(RedactedData(d)) = RedactedData(d)
<1> DEFINE R(x) == [request |-> RedactedRequest(x.request), url |-> RedactedText(x.url),
                    target |-> RedactedText(x.target), base |-> RedactedText(x.base),
                    commands |-> RedactedCommands(x.commands)]
<1>1. ASSUME NEW x, IsData(x) PROVE RedactedData(x) = R(x)
  BY <1>1, DataFields
<1>2. IsData(R(d)) /\ R(R(d)) = R(d)
  BY TextTwice, RequestSafe, CommandsSafe DEF IsData
<1> QED
  BY <1>1, <1>2

LEMMA CaseFields ==
  ASSUME NEW x, IsCase(x)
  PROVE  RedactedCase(x) =
           [type |-> x.type, category |-> x.category, request |-> RedactedRequest(x.request),
            url |-> RedactedText(x.url), target |-> RedactedText(x.target),
            base |-> RedactedText(x.base), commands |-> RedactedCommands(x.commands),
            actions |-> RedactedActions(x.actions), data |-> RedactedData(x.data)]
<1> DEFINE x1 == [x EXCEPT !.request = RedactedRequest(@)]
<1>1. x1 = [type |-> x.type, category |-> x.category, request |-> RedactedRequest(x.request),
            url |-> x.url, target |-> x.target, base |-> x.base, commands |-> x.commands,
            actions |-> x.actions, data |-> x.data]
  BY DEF IsCase
<1> HIDE DEF x1
<1> DEFINE x2 == [x1 EXCEPT !.url = RedactedText(@)]
<1>2. x2 = [type |-> x.type, category |-> x.category, request |-> RedactedRequest(x.request),
            url |-> RedactedText(x.url), target |-> x.target, base |-> x.base,
            commands |-> x.commands, actions |-> x.actions, data |-> x.data]
  BY <1>1
<1> HIDE DEF x2
<1> DEFINE x3 == [x2 EXCEPT !.target = RedactedText(@)]
<1>3. x3 = [type |-> x.type, category |-> x.category, request |-> RedactedRequest(x.request),
            url |-> RedactedText(x.url), target |-> RedactedText(x.target), base |-> x.base,
            commands |-> x.commands, actions |-> x.actions, data |-> x.data]
  BY <1>2
<1> HIDE DEF x3
<1> DEFINE x4 == [x3 EXCEPT !.base = RedactedText(@)]
<1>4. x4 = [type |-> x.type, category |-> x.category, request |-> RedactedRequest(x.request),
            url |-> RedactedText(x.url), target |-> RedactedText(x.target),
            base |-> RedactedText(x.base), commands |-> x.commands, actions |-> x.actions,
            data |-> x.data]
  BY <1>3
<1> HIDE DEF x4
<1> DEFINE x5 == [x4 EXCEPT !.commands = RedactedCommands(@)]
<1>5. x5 = [type |-> x.type, category |-> x.category, request |-> RedactedRequest(x.request),
            url |-> RedactedText(x.url), target |-> RedactedText(x.target),
            base |-> RedactedText(x.base), commands |-> RedactedCommands(x.commands),
            actions |-> x.actions, data |-> x.data]
  BY <1>4
<1> HIDE DEF x5
<1> DEFINE x6 == [x5 EXCEPT !.actions = RedactedActions(@)]
<1>6. x6 = [type |-> x.type, category |-> x.category, request |-> RedactedRequest(x.request),
            url |-> RedactedText(x.url), target |-> RedactedText(x.target),
            base |-> RedactedText(x.base), commands |-> RedactedCommands(x.commands),
            actions |-> RedactedActions(x.actions), data |-> x.data]
  BY <1>5
<1> HIDE DEF x6
<1> DEFINE x7 == [x6 EXCEPT !.data = RedactedData(@)]
<1>7. x7 = [type |-> x.type, category |-> x.category, request |-> RedactedRequest(x.request),
            url |-> RedactedText(x.url), target |-> RedactedText(x.target),
            base |-> RedactedText(x.base), commands |-> RedactedCommands(x.commands),
            actions |-> RedactedActions(x.actions), data |-> RedactedData(x.data)]
  BY <1>6
<1> HIDE DEF x7
<1>8. RedactedCase(x) = x7
  BY <1>1, <1>2, <1>3, <1>4, <1>5, <1>6 DEF x1, x2, x3, x4, x5, x6, x7, RedactedCase, IsCase
<1> QED
  BY <1>7, <1>8

LEMMA CaseSafe ==
  ASSUME NEW x, IsCase(x)
  PROVE  /\ IsCase(RedactedCase(x)) /\ RedactedCase(RedactedCase(x)) = RedactedCase(x)
         /\ RedactedCase(x).request.body # Secret /\ LoggedCommands(RedactedCase(x).commands)
<1> DEFINE R(y) == [type |-> y.type, category |-> y.category, request |-> RedactedRequest(y.request),
                    url |-> RedactedText(y.url), target |-> RedactedText(y.target),
                    base |-> RedactedText(y.base), commands |-> RedactedCommands(y.commands),
                    actions |-> RedactedActions(y.actions), data |-> RedactedData(y.data)]
<1>1. ASSUME NEW y, IsCase(y) PROVE RedactedCase(y) = R(y)
  BY <1>1, CaseFields
<1>2. /\ IsCase(R(x)) /\ R(R(x)) = R(x)
      /\ R(x).request.body # Secret /\ LoggedCommands(R(x).commands)
  BY TextTwice, RequestSafe, CommandsSafe, ActionsSafe, DataSafe DEF IsCase
<1> QED
  BY <1>1, <1>2

LEMMA CasesSafe ==
  ASSUME NEW s, AreCases(s)
  PROVE  /\ AreCases(Redacted(s)) /\ Redacted(Redacted(s)) = Redacted(s)
         /\ \A i \in DOMAIN Redacted(s) : Redacted(s)[i].request.body # Secret /\ LoggedCommands(Redacted(s)[i].commands)
<1> DEFINE f == [i \in DOMAIN s |-> RedactedCase(s[i])]
<1>1. Len(s) \in Nat /\ DOMAIN s = 1 .. Len(s)
  BY ListDomain DEF AreCases, IsList
<1>2. f = [i \in 1 .. Len(s) |-> f[i]]
  BY <1>1
<1> HIDE DEF f
<1>3. IsList(f) /\ Len(f) = Len(s) /\ DOMAIN f = 1 .. Len(s) /\ <<>> \o f = f
  BY <1>1, <1>2, ListOf
<1>4. Redacted(s) = f
  BY <1>3 DEF Redacted, f
<1>5. \A i \in 1 .. Len(s) : /\ f[i] = RedactedCase(s[i]) /\ IsCase(f[i]) /\ RedactedCase(f[i]) = f[i]
                             /\ f[i].request.body # Secret /\ LoggedCommands(f[i].commands)
  BY <1>1, CaseSafe DEF AreCases, f
<1>6. [i \in DOMAIN f |-> RedactedCase(f[i])] = f
  BY <1>2, <1>3, <1>5
<1>7. Redacted(f) = f
  BY <1>3, <1>6 DEF Redacted
<1> QED
  BY <1>3, <1>4, <1>5, <1>7 DEF AreCases

LEMMA ContextFields ==
  ASSUME NEW c, IsContext(c)
  PROVE  RedactedContext(c) =
           [source |-> RedactedText(c.source), input |-> c.input, seed |-> RedactedText(c.seed),
            options |-> c.options,
            setup |-> <<>> \o [i \in DOMAIN c.setup |-> RedactedValue(c.setup[i])],
            auth |-> RedactedHeaders(c.auth), custom |-> RedactedHeaders(c.custom),
            cases |-> RedactedCases(c.cases)]
<1> DEFINE f1 == [c EXCEPT !.source = RedactedText(@)]
<1>1. f1 = [source |-> RedactedText(c.source), input |-> c.input, seed |-> c.seed,
            options |-> c.options, setup |-> c.setup, auth |-> c.auth, custom |-> c.custom,
            cases |-> c.cases]
  BY DEF IsContext
<1> HIDE DEF f1
<1> DEFINE f2 == [f1 EXCEPT !.seed = RedactedText(@)]
<1>2. f2 = [source |-> RedactedText(c.source), input |-> c.input, seed |-> RedactedText(c.seed),
            options |-> c.options, setup |-> c.setup, auth |-> c.auth, custom |-> c.custom,
            cases |-> c.cases]
  BY <1>1
<1> HIDE DEF f2
<1> DEFINE f3 == [f2 EXCEPT !.setup = <<>> \o [i \in DOMAIN @ |-> RedactedValue(@[i])]]
<1>3. f3 = [source |-> RedactedText(c.source), input |-> c.input, seed |-> RedactedText(c.seed),
            options |-> c.options,
            setup |-> <<>> \o [i \in DOMAIN c.setup |-> RedactedValue(c.setup[i])],
            auth |-> c.auth, custom |-> c.custom, cases |-> c.cases]
  BY <1>2
<1> HIDE DEF f3
<1> DEFINE f4 == [f3 EXCEPT !.auth = RedactedHeaders(@)]
<1>4. f4 = [source |-> RedactedText(c.source), input |-> c.input, seed |-> RedactedText(c.seed),
            options |-> c.options,
            setup |-> <<>> \o [i \in DOMAIN c.setup |-> RedactedValue(c.setup[i])],
            auth |-> RedactedHeaders(c.auth), custom |-> c.custom, cases |-> c.cases]
  BY <1>3
<1> HIDE DEF f4
<1> DEFINE f5 == [f4 EXCEPT !.custom = RedactedHeaders(@)]
<1>5. f5 = [source |-> RedactedText(c.source), input |-> c.input, seed |-> RedactedText(c.seed),
            options |-> c.options,
            setup |-> <<>> \o [i \in DOMAIN c.setup |-> RedactedValue(c.setup[i])],
            auth |-> RedactedHeaders(c.auth), custom |-> RedactedHeaders(c.custom),
            cases |-> c.cases]
  BY <1>4
<1> HIDE DEF f5
<1> DEFINE f6 == [f5 EXCEPT !.cases = RedactedCases(@)]
<1>6. f6 = [source |-> RedactedText(c.source), input |-> c.input, seed |-> RedactedText(c.seed),
            options |-> c.options,
            setup |-> <<>> \o [i \in DOMAIN c.setup |-> RedactedValue(c.setup[i])],
            auth |-> RedactedHeaders(c.auth), custom |-> RedactedHeaders(c.custom),
            cases |-> RedactedCases(c.cases)]
  BY <1>5
<1> HIDE DEF f6
<1>7. RedactedContext(c) = f6
  BY <1>1, <1>2, <1>3, <1>4, <1>5 DEF f1, f2, f3, f4, f5, f6, RedactedContext, IsContext
<1> QED
  BY <1>6, <1>7

LEMMA NothingGood == IsList(<<>>) /\ AreCases(<<>>) /\ IsContext(NoContext) /\ IsLog(NoLog)
<1>1. IsList(<<>>) /\ Len(<<>>) = 0
  BY DEF IsList
<1>2. AreCases(<<>>)
  BY <1>1 DEF AreCases
<1>3. IsContext(NoContext)
  BY <1>1, <1>2 DEF IsContext, NoContext, NoCases
<1> QED
  BY <1>1, <1>2, <1>3 DEF IsLog, NoLog

LEMMA SetupSafe ==
  ASSUME NEW s, IsList(s)
  PROVE  LET t == <<>> \o [i \in DOMAIN s |-> RedactedValue(s[i])]
         IN  IsList(t) /\ \A i \in DOMAIN t : t[i] # Secret
<1> DEFINE f == [i \in DOMAIN s |-> RedactedValue(s[i])]
<1>1. Len(s) \in Nat /\ DOMAIN s = 1 .. Len(s)
  BY ListDomain DEF IsList
<1>2. f = [i \in 1 .. Len(s) |-> f[i]]
  BY <1>1
<1>3. \A i \in 1 .. Len(s) : f[i] # Secret
  BY <1>1, ValueSafe
<1> HIDE DEF f
<1>4. IsList(f) /\ DOMAIN f = 1 .. Len(s) /\ <<>> \o f = f
  BY <1>1, <1>2, ListOf
<1>5. IsList(<<>> \o f) /\ \A i \in DOMAIN (<<>> \o f) : (<<>> \o f)[i] # Secret
  BY <1>3, <1>4
<1> QED
  BY <1>5 DEF f

LEMMA HeadersSafe ==
  ASSUME NEW g
  PROVE  \A h \in DOMAIN RedactedHeaders(g) :
           ~(RedactedHeaders(g)[h] = Secret \/ (h \in SensitiveHeaders /\ RedactedHeaders(g)[h] # Hidden))
BY ValueSafe, Values DEF RedactedHeaders

LEMMA CasesFields ==
  ASSUME NEW a, NEW u, NEW t
  PROVE  RedactedCases([api_cases |-> a, ui_cases |-> u, test_cases |-> t])
           = [api_cases |-> Redacted(a), ui_cases |-> Redacted(u), test_cases |-> Redacted(t)]
BY DEF RedactedCases, Redacted

(* A redacted context is one, and has no secret that a log must not have.  *)
LEMMA ContextSafe ==
  ASSUME NEW c, IsContext(c)
  PROVE  /\ IsContext(RedactedContext(c)) /\ ~LoggedSecrets(RedactedContext(c))
         /\ RedactedContext(c).cases = [api_cases |-> Redacted(c.cases.api_cases), ui_cases |-> Redacted(c.cases.ui_cases),
                                        test_cases |-> Redacted(c.cases.test_cases)]
<1> DEFINE r == RedactedContext(c)
           k == [api_cases |-> Redacted(c.cases.api_cases), ui_cases |-> Redacted(c.cases.ui_cases),
                 test_cases |-> Redacted(c.cases.test_cases)]
           s == <<>> \o [i \in DOMAIN c.setup |-> RedactedValue(c.setup[i])]
<1>1. RedactedCases(c.cases) = k
  BY CasesFields DEF IsContext
<1>2. IsList(s) /\ \A i \in DOMAIN s : s[i] # Secret
  BY SetupSafe DEF IsContext
<1> HIDE DEF s
<1>3. r = [source |-> RedactedText(c.source), input |-> c.input, seed |-> RedactedText(c.seed), options |-> c.options,
           setup |-> s, auth |-> RedactedHeaders(c.auth), custom |-> RedactedHeaders(c.custom), cases |-> k]
  BY ContextFields, <1>1 DEF s
<1>4. AreCases(c.cases.api_cases) /\ AreCases(c.cases.ui_cases) /\ AreCases(c.cases.test_cases)
  BY DEF IsContext
<1>5. \A n \in DOMAIN k : /\ AreCases(k[n])
                          /\ \A i \in DOMAIN k[n] : k[n][i].request.body # Secret /\ LoggedCommands(k[n][i].commands)
  BY <1>4, CasesSafe
<1>6. AreCases(k.api_cases) /\ AreCases(k.ui_cases) /\ AreCases(k.test_cases)
  BY <1>4, CasesSafe
<1> HIDE DEF r, k
<1>7. /\ r.setup = s /\ r.cases = k
      /\ r.auth = RedactedHeaders(c.auth) /\ r.custom = RedactedHeaders(c.custom)
  BY <1>3
<1>8. IsContext(r)
  <2>1. k = [api_cases |-> k.api_cases, ui_cases |-> k.ui_cases, test_cases |-> k.test_cases]
    BY DEF k
  <2> QED
    BY <1>2, <1>3, <1>6, <2>1 DEF IsContext
<1>9. ~LoggedSecrets(r)
  BY <1>2, <1>5, <1>7, HeadersSafe DEF LoggedSecrets
<1> QED
  BY <1>7, <1>8, <1>9 DEF r, k

-----------------------------------------------------------------------------
(* What a run is started with, and what its log begins with.               *)

LEMMA OverEmptyContext ==
  ASSUME NEW new, NEW old, IsContext(new), IsContext(old)
  PROVE  /\ IsContext(OverEmpty(new, old, NoContext))
         /\ OverEmpty(new, old, NoContext).cases = IF new.cases = NoCases THEN old.cases ELSE new.cases
<1> DEFINE o == OverEmpty(new, old, NoContext)
           D == {"source", "input", "seed", "options", "setup", "auth", "custom", "cases"}
<1>1. DOMAIN new = D
  BY DEF IsContext
<1>2. o = [k \in D |-> IF new[k] = NoContext[k] THEN old[k] ELSE new[k]]
  BY <1>1 DEF OverEmpty
<1>3. /\ o = [source |-> o.source, input |-> o.input, seed |-> o.seed, options |-> o.options, setup |-> o.setup,
              auth |-> o.auth, custom |-> o.custom, cases |-> o.cases]
      /\ o.setup \in {new.setup, old.setup} /\ o.cases \in {new.cases, old.cases}
      /\ o.cases = IF new.cases = NoContext.cases THEN old.cases ELSE new.cases
  BY <1>2
<1>4. NoContext.cases = NoCases
  BY DEF NoContext
<1> HIDE DEF o
<1>5. IsContext(o)
  BY <1>3 DEF IsContext
<1> QED
  BY <1>3, <1>4, <1>5 DEF o

LEMMA PayloadFields ==
  ASSUME NEW c, NEW l, IsLog(l)
  PROVE  LogPayload(c, l) = [context |-> RedactedContext(OverEmpty(c, l.context, NoContext)), cancelled |-> l.cancelled,
                             runtime |-> l.runtime, continuation |-> l.continuation, from |-> l.from]
BY DEF LogPayload, IsLog

LEMMA StartFields ==
  ASSUME NEW c, IsContext(c)
  PROVE  IsContext(StartState(c)) /\ StartState(c).cases = c.cases
<1>1. StartState(c) = [source |-> c.source, input |-> c.input, seed |-> c.seed, options |-> c.options, setup |-> c.setup,
                       auth |-> MergedHeaders(c.auth, c.custom), custom |-> c.custom, cases |-> c.cases]
  BY DEF StartState, IsContext
<1> QED
  BY <1>1 DEF IsContext

(* The first log of a worker: nothing in it is secret, and its cases are    *)
(* those the worker was sent, redacted.                                    *)
LEMMA StartedLog ==
  ASSUME NEW c, NEW l, IsContext(c), IsLog(l)
  PROVE  LET new == LogPayload(StartState(c), l)
             cs  == IF c.cases = NoCases THEN l.context.cases ELSE c.cases
         IN  /\ IsLog(new) /\ ~LoggedSecrets(new.context)
             /\ new.continuation = l.continuation /\ new.from = l.from
             /\ new.context.cases.api_cases = Redacted(cs.api_cases)
             /\ new.context.cases.ui_cases = Redacted(cs.ui_cases)
<1> DEFINE o == OverEmpty(StartState(c), l.context, NoContext)
           new == LogPayload(StartState(c), l)
<1>1. IsContext(o) /\ o.cases = IF c.cases = NoCases THEN l.context.cases ELSE c.cases
  BY StartFields, OverEmptyContext DEF IsLog
<1>2. new = [context |-> RedactedContext(o), cancelled |-> l.cancelled, runtime |-> l.runtime,
             continuation |-> l.continuation, from |-> l.from]
  BY PayloadFields
<1> HIDE DEF o, new
<1> DEFINE k == RedactedContext(o)
<1>3. /\ IsContext(k) /\ ~LoggedSecrets(k)
      /\ k.cases.api_cases = Redacted(o.cases.api_cases) /\ k.cases.ui_cases = Redacted(o.cases.ui_cases)
  <2>1. /\ IsContext(k) /\ ~LoggedSecrets(k)
        /\ k.cases = [api_cases |-> Redacted(o.cases.api_cases), ui_cases |-> Redacted(o.cases.ui_cases),
                       test_cases |-> Redacted(o.cases.test_cases)]
    BY <1>1, ContextSafe
  <2> HIDE DEF k
  <2> QED
    BY <2>1
<1>4. IsLog(new) /\ new.context = RedactedContext(o) /\ new.continuation = l.continuation /\ new.from = l.from
  BY <1>2, <1>3 DEF IsLog
<1> QED
  BY <1>1, <1>3, <1>4 DEF new

LEMMA RerunFields ==
  ASSUME NEW log, NEW target, IsContext(log.context)
  PROVE  RerunContext(log, target) =
           [source |-> SourceOf(log, target), input |-> log.context.input,
            seed |-> log.context.seed, options |-> log.context.options,
            setup |-> log.context.setup, auth |-> Rehydratable(log.context.auth),
            custom |-> Rehydratable(log.context.custom),
            cases |-> [log.context.cases EXCEPT !.test_cases = <<>>]]
<1> DEFINE f1 == [log.context EXCEPT !.auth = Rehydratable(@)]
<1>1. f1 = [source |-> log.context.source, input |-> log.context.input,
            seed |-> log.context.seed, options |-> log.context.options,
            setup |-> log.context.setup, auth |-> Rehydratable(log.context.auth),
            custom |-> log.context.custom, cases |-> log.context.cases]
  BY DEF IsContext
<1> HIDE DEF f1
<1> DEFINE f2 == [f1 EXCEPT !.custom = Rehydratable(@)]
<1>2. f2 = [source |-> log.context.source, input |-> log.context.input,
            seed |-> log.context.seed, options |-> log.context.options,
            setup |-> log.context.setup, auth |-> Rehydratable(log.context.auth),
            custom |-> Rehydratable(log.context.custom), cases |-> log.context.cases]
  BY <1>1
<1> HIDE DEF f2
<1> DEFINE f3 == [f2 EXCEPT !.source = SourceOf(log, target)]
<1>3. f3 = [source |-> SourceOf(log, target), input |-> log.context.input,
            seed |-> log.context.seed, options |-> log.context.options,
            setup |-> log.context.setup, auth |-> Rehydratable(log.context.auth),
            custom |-> Rehydratable(log.context.custom), cases |-> log.context.cases]
  BY <1>2
<1> HIDE DEF f3
<1> DEFINE f4 == [f3 EXCEPT !.cases = [@ EXCEPT !.test_cases = <<>>]]
<1>4. f4 = [source |-> SourceOf(log, target), input |-> log.context.input,
            seed |-> log.context.seed, options |-> log.context.options,
            setup |-> log.context.setup, auth |-> Rehydratable(log.context.auth),
            custom |-> Rehydratable(log.context.custom),
            cases |-> [log.context.cases EXCEPT !.test_cases = <<>>]]
  BY <1>3
<1> HIDE DEF f4
<1>5. RerunContext(log, target) = f4
  BY <1>1, <1>2, <1>3 DEF f1, f2, f3, f4, RerunContext, IsContext
<1> QED
  BY <1>4, <1>5

(* No header that a rerun takes from a log is sensitive, secret or hidden.  *)
LEMMA RerunSafe ==
  ASSUME NEW log, NEW target, IsContext(log.context)
  PROVE  LET c == RerunContext(log, target)
         IN  /\ IsContext(c)
             /\ c.cases.api_cases = log.context.cases.api_cases /\ c.cases.ui_cases = log.context.cases.ui_cases
             /\ \A headers \in {c.auth, c.custom} : \A h \in DOMAIN headers :
                  h \notin SensitiveHeaders /\ headers[h] \notin {Secret, Hidden}
<1> DEFINE k == log.context
           c == RerunContext(log, target)
           cs == [k.cases EXCEPT !.test_cases = <<>>]
<1>1. c = [source |-> SourceOf(log, target), input |-> k.input, seed |-> k.seed, options |-> k.options,
           setup |-> k.setup, auth |-> Rehydratable(k.auth), custom |-> Rehydratable(k.custom), cases |-> cs]
  BY RerunFields
<1>2. cs = [api_cases |-> k.cases.api_cases, ui_cases |-> k.cases.ui_cases, test_cases |-> <<>>]
  BY DEF IsContext
<1>3. IsList(k.setup) /\ AreCases(k.cases.api_cases) /\ AreCases(k.cases.ui_cases)
  BY DEF IsContext
<1>4. ASSUME NEW headers
      PROVE  \A h \in DOMAIN Rehydratable(headers) :
               h \notin SensitiveHeaders /\ Rehydratable(headers)[h] \notin {Secret, Hidden}
  BY DEF Rehydratable, Restrict
<1> HIDE DEF c, cs
<1>5. c.auth = Rehydratable(k.auth) /\ c.custom = Rehydratable(k.custom) /\ c.cases = cs /\ c.setup = k.setup
  BY <1>1
<1>6. IsContext(c)
  BY <1>1, <1>2, <1>3, NothingGood DEF IsContext
<1>7. cs.api_cases = k.cases.api_cases /\ cs.ui_cases = k.cases.ui_cases
  BY <1>2
<1> QED
  BY <1>4, <1>5, <1>6, <1>7 DEF c

LEMMA SupplementedSafe ==
  ASSUME NEW c, NEW text, IsContext(c)
  PROVE  LET s == Supplemented(c, text)
         IN  IsContext(s) /\ s.cases = c.cases /\ s.auth = c.auth /\ s.custom = c.custom
<1> DEFINE more == Append(c.setup, text)
<1>1. Supplemented(c, text) = [c EXCEPT !.setup = more]
  BY DEF Supplemented
<1>2. IsList(Append(c.setup, text))
  BY AppendList DEF IsContext
<1> HIDE DEF more
<1>3. [c EXCEPT !.setup = more] =
        [source |-> c.source, input |-> c.input, seed |-> c.seed, options |-> c.options, setup |-> more,
         auth |-> c.auth, custom |-> c.custom, cases |-> c.cases]
  BY DEF IsContext
<1>4. IsList(more)
  BY <1>2 DEF more
<1> QED
  BY <1>1, <1>3, <1>4 DEF IsContext

LEMMA StrippedFields ==
  ASSUME NEW c, IsContext(c)
  PROVE  [c EXCEPT !.auth = NoHeaders, !.custom = NoHeaders, !.cases = NoCases] =
           [source |-> c.source, input |-> c.input, seed |-> c.seed, options |-> c.options,
            setup |-> c.setup, auth |-> NoHeaders, custom |-> NoHeaders, cases |-> NoCases]
<1> DEFINE f1 == [c EXCEPT !.auth = NoHeaders]
<1>1. f1 = [source |-> c.source, input |-> c.input, seed |-> c.seed, options |-> c.options,
            setup |-> c.setup, auth |-> NoHeaders, custom |-> c.custom, cases |-> c.cases]
  BY DEF IsContext
<1> HIDE DEF f1
<1> DEFINE f2 == [f1 EXCEPT !.custom = NoHeaders]
<1>2. f2 = [source |-> c.source, input |-> c.input, seed |-> c.seed, options |-> c.options,
            setup |-> c.setup, auth |-> NoHeaders, custom |-> NoHeaders, cases |-> c.cases]
  BY <1>1
<1> HIDE DEF f2
<1> DEFINE f3 == [f2 EXCEPT !.cases = NoCases]
<1>3. f3 = [source |-> c.source, input |-> c.input, seed |-> c.seed, options |-> c.options,
            setup |-> c.setup, auth |-> NoHeaders, custom |-> NoHeaders, cases |-> NoCases]
  BY <1>2
<1> HIDE DEF f3
<1>4. [c EXCEPT !.auth = NoHeaders, !.custom = NoHeaders, !.cases = NoCases] = f3
  BY <1>1, <1>2 DEF f1, f2, f3, IsContext
<1> QED
  BY <1>3, <1>4

LEMMA SeedFields ==
  ASSUME NEW c, NEW run, NEW k, k = RedactedContext([c EXCEPT !.auth = NoHeaders, !.custom = NoHeaders, !.cases = NoCases])
  PROVE  Seeded(c, run) = [context |-> k, cancelled |-> NoLog.cancelled, runtime |-> "continuation_running",
                           continuation |-> None, from |-> run]
<1>0. NoLog = [context |-> NoLog.context, cancelled |-> NoLog.cancelled, runtime |-> NoLog.runtime,
               continuation |-> None, from |-> NoLog.from]
  BY DEF NoLog
<1> DEFINE f1 == [NoLog EXCEPT !.context = k]
<1>1. f1 = [context |-> k, cancelled |-> NoLog.cancelled, runtime |-> NoLog.runtime, continuation |-> None, from |-> NoLog.from]
  BY <1>0
<1> HIDE DEF f1
<1> DEFINE f2 == [f1 EXCEPT !.runtime = "continuation_running"]
<1>2. f2 = [context |-> k, cancelled |-> NoLog.cancelled, runtime |-> "continuation_running", continuation |-> None, from |-> NoLog.from]
  BY <1>1
<1> HIDE DEF f2
<1> DEFINE f3 == [f2 EXCEPT !.from = run]
<1>3. f3 = [context |-> k, cancelled |-> NoLog.cancelled, runtime |-> "continuation_running", continuation |-> None, from |-> run]
  BY <1>2
<1> HIDE DEF f3
<1>4. Seeded(c, run) = f3
  BY <1>1, <1>2 DEF Seeded, f1, f2, f3
<1> QED
  BY <1>3, <1>4

(* The log a continuation begins with names its source and has no cases.    *)
LEMMA SeededSafe ==
  ASSUME NEW c, NEW run, IsContext(c)
  PROVE  LET l == Seeded(c, run)
         IN  /\ IsLog(l) /\ ~LoggedSecrets(l.context) /\ l.context.cases = NoCases
             /\ l.from = run /\ l.continuation = None
<1> DEFINE bare == [c EXCEPT !.auth = NoHeaders, !.custom = NoHeaders, !.cases = NoCases]
           k == RedactedContext(bare)
           l == Seeded(c, run)
<1>1. bare = [source |-> c.source, input |-> c.input, seed |-> c.seed, options |-> c.options, setup |-> c.setup,
              auth |-> NoHeaders, custom |-> NoHeaders, cases |-> NoCases]
  BY StrippedFields, Zenon
<1>2. l = [context |-> k, cancelled |-> NoLog.cancelled, runtime |-> "continuation_running", continuation |-> None, from |-> run]
  BY SeedFields, Zenon
<1> HIDE DEF bare
<1>3. IsContext(bare) /\ bare.cases = NoCases
  BY <1>1, NothingGood DEF IsContext, NoCases
<1>4. IsContext(k) /\ ~LoggedSecrets(k)
  BY <1>3, ContextSafe
<1>5. Redacted(<<>>) = <<>>
  BY NothingGood, CasesSafe, ListDomain DEF Redacted
<1>6. k.cases = NoCases
  BY <1>3, <1>5, ContextSafe DEF NoCases
<1> HIDE DEF k, l
<1> QED
  BY <1>2, <1>4, <1>6 DEF IsLog, l

-----------------------------------------------------------------------------
(* Rows and payloads of cases.                                             *)

DataIsSafe(data) ==
  /\ data.request.headers \cap SensitiveHeaders = {} /\ data.request.body # Secret
  /\ SafeUrls(data.request) /\ SafeUrls(data) /\ data.target \notin {"http?token", "user@http"}
  /\ SavedCommands(data.commands)

LEMMA AddressSafe ==
  ASSUME NEW u
  PROVE  /\ RedactedUrl(u) \notin {"http?token", "user@http"} /\ BaseUrl(u) \notin {"http?token", "user@http"}
<1>1. None \notin {"http?token", "user@http"}
  BY Zenon DEF None
<1> QED
  BY <1>1 DEF RedactedUrl, BaseUrl

LEMMA PartsGood ==
  ASSUME NEW x, IsCase(x)
  PROVE  IsTemplate(Template(x)) /\ AreCommands(Commands(x))
<1>1. ASSUME NEW u, NEW b PROVE IsTemplate([NoTemplate EXCEPT !.url = u, !.base = b])
  <2> DEFINE f1 == [NoTemplate EXCEPT !.url = u]
             f2 == [f1 EXCEPT !.base = b]
  <2>1. f1 = [method |-> NoTemplate.method, url |-> u, base |-> NoTemplate.base,
              headers |-> NoTemplate.headers, body |-> NoTemplate.body]
    BY DEF NoTemplate
  <2> HIDE DEF f1
  <2>2. f2 = [method |-> NoTemplate.method, url |-> u, base |-> b,
              headers |-> NoTemplate.headers, body |-> NoTemplate.body]
    BY <2>1
  <2>3. f2 = [NoTemplate EXCEPT !.url = u, !.base = b]
    BY Zenon DEF f1
  <2> HIDE DEF f2
  <2>4. IsTemplate(f2)
    BY <2>2 DEF IsTemplate
  <2> QED
    BY <2>3, <2>4
<1>2. IsTemplate(FromMapping(x))
  <2>1. CASE x.request # NoTemplate
    BY <2>1 DEF FromMapping, IsCase
  <2>2. CASE x.request = NoTemplate
    BY <2>2, <1>1, Zenon DEF FromMapping
  <2> QED
    BY <2>1, <2>2
<1>3. IsTemplate(FromMapping(x.data))
  <2>1. CASE x.data.request # NoTemplate
    BY <2>1 DEF FromMapping, IsCase, IsData
  <2>2. CASE x.data.request = NoTemplate
    BY <2>2, <1>1, Zenon DEF FromMapping
  <2> QED
    BY <2>1, <2>2
<1>4. IsTemplate(Template(x))
  BY <1>2, <1>3, Zenon DEF Template
<1>5. AreCommands(Commands(x))
  BY DEF Commands, IsCase, IsData
<1> QED
  BY <1>4, <1>5

LEMMA MergedGood ==
  ASSUME NEW x, NEW edit, IsCase(x),
         "request" \in DOMAIN edit => IsTemplate(edit.request),
         "commands" \in DOMAIN edit => AreCommands(edit.commands),
         "actions" \in DOMAIN edit => AreActions(edit.actions),
         "data" \in DOMAIN edit => IsData(edit.data)
  PROVE  IsCase(Merged(x, edit))
<1> DEFINE D == {"type", "category", "request", "url", "target", "base", "commands", "actions", "data"}
           m == Merged(x, edit)
<1>1. m = [k \in D |-> IF k \in DOMAIN edit THEN edit[k] ELSE x[k]]
  BY DEF Merged, IsCase
<1>2. m = [type |-> m.type, category |-> m.category, request |-> m.request, url |-> m.url, target |-> m.target,
           base |-> m.base, commands |-> m.commands, actions |-> m.actions, data |-> m.data]
  BY <1>1
<1>3. /\ m.request = IF "request" \in DOMAIN edit THEN edit.request ELSE x.request
      /\ m.commands = IF "commands" \in DOMAIN edit THEN edit.commands ELSE x.commands
      /\ m.actions = IF "actions" \in DOMAIN edit THEN edit.actions ELSE x.actions
      /\ m.data = IF "data" \in DOMAIN edit THEN edit.data ELSE x.data
  BY <1>1
<1> HIDE DEF m
<1>4. IsTemplate(m.request) /\ AreCommands(m.commands) /\ AreActions(m.actions) /\ IsData(m.data)
  BY <1>3, Zenon DEF IsCase
<1>5. IsCase(m)
  BY <1>2, <1>4 DEF IsCase
<1> QED
  BY <1>5 DEF m

(* What is saved of a case has nothing that must not be stored.            *)
LEMMA SavedSafe ==
  ASSUME NEW x, NEW source, NEW run, NEW target, IsCase(x)
  PROVE  LET row == SavedRow(x, source, run, target)
         IN  row.run = run /\ IsData(row.data) /\ DataIsSafe(row.data)
<1> DEFINE row == SavedRow(x, source, run, target)
           t == SafeTemplate(Template(x), target)
           s == [i \in DOMAIN Commands(x) |-> SavedCommand(Commands(x)[i])]
<1>1. PICK kind : row.data = SafeData(x, kind, target) /\ row.run = run
  BY DEF SavedRow, Row
<1> DEFINE d == SafeData(x, kind, target)
<1>2. IsTemplate(t) /\ t.headers \cap SensitiveHeaders = {} /\ t.body # Secret /\ SafeUrls(t)
  BY AddressSafe, ValueSafe DEF SafeTemplate, IsTemplate, SafeHeaders, SafeUrls
<1>3. AreCommands(s) /\ SavedCommands(s)
  BY PartsGood, SavedCommandsSafe
<1>4. d.request = t /\ d.commands = s
  BY DEF SafeData
<1>5. {d.url, d.base} \cap {"http?token", "user@http"} = {} /\ d.target \notin {"http?token", "user@http"}
  <2>1. d.url \notin {"http?token", "user@http"} /\ d.target \notin {"http?token", "user@http"}
    BY AddressSafe DEF SafeData, FirstUrl
  <2>2. d.base \notin {"http?token", "user@http"}
    <3>1. d.base \in {RedactedUrl(x.data.base), BaseUrl(target), RedactedUrl(x.base)}
      BY DEF SafeData
    <3> QED
      BY <3>1, AddressSafe
  <2> QED
    BY <2>1, <2>2
<1>6. d = [request |-> d.request, url |-> d.url, target |-> d.target, base |-> d.base, commands |-> d.commands]
  BY DEF SafeData
<1> HIDE DEF row, t, s, d
<1>7. IsData(d)
  BY <1>2, <1>3, <1>4, <1>6 DEF IsData
<1>8. DataIsSafe(d)
  BY <1>2, <1>3, <1>4, <1>5 DEF DataIsSafe, SafeUrls
<1> QED
  BY <1>1, <1>7, <1>8 DEF row, d

LEMMA PayloadCase ==
  ASSUME NEW x, IsCase(x)
  PROVE  [x EXCEPT !.type = Kind(x), !.request = Template(x), !.commands = Commands(x)] =
           [type |-> Kind(x), category |-> x.category, request |-> Template(x), url |-> x.url,
            target |-> x.target, base |-> x.base, commands |-> Commands(x), actions |-> x.actions,
            data |-> x.data]
<1> DEFINE f1 == [x EXCEPT !.type = Kind(x)]
<1>1. f1 = [type |-> Kind(x), category |-> x.category, request |-> x.request, url |-> x.url,
            target |-> x.target, base |-> x.base, commands |-> x.commands, actions |-> x.actions,
            data |-> x.data]
  BY DEF IsCase
<1> HIDE DEF f1
<1> DEFINE f2 == [f1 EXCEPT !.request = Template(x)]
<1>2. f2 = [type |-> Kind(x), category |-> x.category, request |-> Template(x), url |-> x.url,
            target |-> x.target, base |-> x.base, commands |-> x.commands, actions |-> x.actions,
            data |-> x.data]
  BY <1>1
<1> HIDE DEF f2
<1> DEFINE f3 == [f2 EXCEPT !.commands = Commands(x)]
<1>3. f3 = [type |-> Kind(x), category |-> x.category, request |-> Template(x), url |-> x.url,
            target |-> x.target, base |-> x.base, commands |-> Commands(x), actions |-> x.actions,
            data |-> x.data]
  BY <1>2
<1> HIDE DEF f3
<1>4. [x EXCEPT !.type = Kind(x), !.request = Template(x), !.commands = Commands(x)] = f3
  BY <1>1, <1>2 DEF f1, f2, f3, IsCase
<1> QED
  BY <1>3, <1>4

LEMMA LoadedGood ==
  ASSUME NEW row, IsData(row.data)
  PROVE  LET x == Loaded(row)
         IN  /\ IsCase(x) /\ x.data = row.data
             /\ x.type = None /\ x.request = NoTemplate /\ x.url = None /\ x.base = None
<1> DEFINE n == IF row.category = None THEN "api" ELSE row.category
           f1 == [NoCase EXCEPT !.category = n]
           f2 == [f1 EXCEPT !.data = row.data]
<1>0. /\ NoCase = [type |-> NoCase.type, category |-> NoCase.category, request |-> NoTemplate, url |-> NoCase.url,
                  target |-> NoCase.target, base |-> NoCase.base, commands |-> <<>>, actions |-> <<>>,
            data |-> NoCase.data]
  BY DEF NoCase
<1> HIDE DEF n
<1>1. f1 = [type |-> NoCase.type, category |-> n, request |-> NoTemplate, url |-> NoCase.url,
            target |-> NoCase.target, base |-> NoCase.base, commands |-> <<>>, actions |-> <<>>,
            data |-> NoCase.data]
  BY <1>0
<1> HIDE DEF f1
<1>2. f2 = [type |-> NoCase.type, category |-> n, request |-> NoTemplate, url |-> NoCase.url,
            target |-> NoCase.target, base |-> NoCase.base, commands |-> <<>>, actions |-> <<>>,
            data |-> row.data]
  BY <1>1
<1>3. Loaded(row) = f2
  BY Zenon DEF Loaded, f1, n
<1> HIDE DEF f2
<1>4. IsTemplate(NoTemplate)
  BY DEF IsTemplate, NoTemplate
<1>5. AreCommands(<<>>) /\ AreActions(<<>>)
  <2>1. Len(<<>>) = 0 /\ IsList(<<>>)
    BY NothingGood
  <2> QED
    BY <2>1 DEF AreCommands, AreActions
<1>6. IsCase(f2)
  BY <1>2, <1>4, <1>5 DEF IsCase
<1>7. NoCase.type = None /\ NoCase.url = None /\ NoCase.base = None
  BY DEF NoCase
<1> QED
  BY <1>2, <1>3, <1>6, <1>7

LEMMA PayloadGood ==
  ASSUME NEW id, NEW row, IsData(row.data)
  PROVE  IsCase(Payload(id, row).case)
<1> DEFINE x == Loaded(row)
           y == [x EXCEPT !.type = Kind(x), !.request = Template(x), !.commands = Commands(x)]
<1>1. IsCase(x)
  BY LoadedGood
<1>2. Payload(id, row).case = y
  BY DEF Payload
<1> HIDE DEF x
<1>3. y = [type |-> Kind(x), category |-> x.category, request |-> Template(x), url |-> x.url, target |-> x.target,
           base |-> x.base, commands |-> Commands(x), actions |-> x.actions,
            data |-> x.data]
  BY <1>1, PayloadCase, Zenon
<1> HIDE DEF y
<1>4. IsCase(y)
  BY <1>1, <1>3, PartsGood DEF IsCase
<1> QED
  BY <1>2, <1>4

LEMMA CasesOfGood ==
  ASSUME NEW ps, IsList(ps), \A i \in 1 .. Len(ps) : IsCase(ps[i].case)
  PROVE  AreCases(CasesOf(ps))
<1> DEFINE f == [i \in DOMAIN ps |-> ps[i].case]
<1>1. Len(ps) \in Nat /\ DOMAIN ps = 1 .. Len(ps)
  BY ListDomain DEF IsList
<1>2. f = [i \in 1 .. Len(ps) |-> f[i]]
  BY <1>1
<1>3. \A i \in 1 .. Len(ps) : IsCase(f[i])
  BY <1>1
<1> HIDE DEF f
<1>4. IsList(f) /\ Len(f) = Len(ps) /\ <<>> \o f = f
  BY <1>1, <1>2, ListOf
<1>5. AreCases(<<>> \o f)
  BY <1>3, <1>4 DEF AreCases
<1> QED
  BY <1>5 DEF CasesOf, f

-----------------------------------------------------------------------------
(* Planning.                                                               *)

LEMMA Names == None \notin Supported /\ None \notin Pseudo /\ "snapshot" \in Supported /\ Supported \cap Pseudo = {}
<1>1. None \notin Supported
  BY Zenon DEF None, Supported
<1>2. None \notin Pseudo
  BY Zenon DEF None, Pseudo
<1>3. Supported \cap Pseudo = {}
  BY DEF Supported, Pseudo
<1> QED
  BY <1>1, <1>2, <1>3 DEF Supported

(* A normal command is one that normalization leaves alone, and redaction   *)
(* changes nothing that normalization looks at.                            *)
LEMMA NormalGood ==
  ASSUME NEW c, IsCommand(c)
  PROVE  /\ IsCommand(Normal(c)) /\ Normal(Normal(c)) = Normal(c)
         /\ LoggedCommand(Normal(LoggedCommand(c))) = LoggedCommand(Normal(c))
<1> DEFINE l == LoggedCommand(c)
           shot == Cmd("snapshot", None, None)
<1>1. IsCommand(l) /\ LoggedCommand(l) = l /\ l.name = c.name
  BY CommandSafe
<1>2. shot.name = "snapshot" /\ IsCommand(shot) /\ Dropped.name = None /\ IsCommand(Dropped)
  BY DEF Cmd, Dropped, IsCommand
<1> HIDE DEF l, shot
<1>3. ASSUME NEW x
      PROVE  /\ x.name \in Supported => Normal(x) = x
             /\ x.name \notin Supported /\ x.name \in Pseudo => Normal(x) = shot
             /\ x.name \notin Supported /\ x.name \notin Pseudo => Normal(x) = Dropped
  BY Names DEF Normal, shot
<1>4. Normal(shot) = shot /\ Normal(Dropped) = Dropped
  BY <1>2, <1>3, Names
<1>5. IsCommand(Normal(c)) /\ Normal(Normal(c)) = Normal(c)
  BY <1>2, <1>3, <1>4
<1>6. LoggedCommand(Normal(l)) = LoggedCommand(Normal(c))
  <2>1. CASE c.name \in Supported
    <3>1. Normal(l) = l /\ Normal(c) = c
      BY <1>1, <1>3, <2>1
    <3> QED
      BY <1>1, <3>1 DEF l
  <2>2. CASE c.name \notin Supported
    <3>1. Normal(l) = Normal(c)
      BY <1>1, <1>3, <2>2
    <3> QED
      BY <3>1
  <2> QED
    BY <2>1, <2>2
<1> QED
  BY <1>5, <1>6 DEF l

LEMMA NormalizedGood ==
  ASSUME NEW s, AreCommands(s)
  PROVE  /\ AreCommands(Normalized(s)) /\ Normalized(Normalized(s)) = Normalized(s)
         /\ Normalized(s) = [i \in DOMAIN s |-> Normal(s[i])]
         /\ RedactedCommands(Normalized(RedactedCommands(s))) = RedactedCommands(Normalized(s))
<1> DEFINE N(x) == [i \in DOMAIN x |-> Normal(x[i])]
           L(x) == [i \in DOMAIN x |-> LoggedCommand(x[i])]
<1>1. ASSUME NEW x, AreCommands(x) PROVE AreCommands(N(x)) /\ Normalized(x) = N(x) /\ DOMAIN N(x) = DOMAIN x
  <2> DEFINE f == N(x)
  <2>1. f = [i \in DOMAIN x |-> f[i]]
    OBVIOUS
  <2>2. \A i \in DOMAIN x : f[i] = Normal(x[i])
    OBVIOUS
  <2>3. Normalized(x) = <<>> \o f
    BY DEF Normalized
  <2> HIDE DEF f, N
  <2>4. IsList(f) /\ Len(f) = Len(x) /\ DOMAIN x = 1 .. Len(x) /\ DOMAIN f = 1 .. Len(x) /\ <<>> \o f = f
    BY <1>1, <2>1, MapList DEF AreCommands
  <2>5. AreCommands(f)
    BY <1>1, <2>2, <2>4, NormalGood DEF AreCommands
  <2>6. AreCommands(f) /\ Normalized(x) = f /\ DOMAIN f = DOMAIN x
    BY <2>3, <2>4, <2>5
  <2> QED
    BY <2>6 DEF f
<1>2. \A i \in DOMAIN s : IsCommand(s[i])
  BY ListDomain DEF AreCommands
<1>3. N(N(s)) = N(s)
  BY <1>2, NormalGood
<1>4. AreCommands(RedactedCommands(s)) /\ RedactedCommands(s) = L(s)
  BY CommandsSafe
<1>5. L(N(L(s))) = L(N(s))
  BY <1>2, NormalGood
<1>6. AreCommands(N(s)) /\ AreCommands(N(L(s)))
  BY <1>1, <1>4
<1>7. RedactedCommands(N(s)) = L(N(s)) /\ RedactedCommands(N(L(s))) = L(N(L(s)))
  BY <1>6, CommandsSafe
<1>8. Normalized(s) = N(s) /\ Normalized(N(s)) = N(N(s)) /\ Normalized(L(s)) = N(L(s))
  BY <1>1, <1>4, <1>6
<1> HIDE DEF N, L
<1>9. /\ AreCommands(Normalized(s)) /\ Normalized(Normalized(s)) = Normalized(s) /\ Normalized(s) = N(s)
      /\ RedactedCommands(Normalized(RedactedCommands(s))) = RedactedCommands(Normalized(s))
  BY <1>3, <1>4, <1>5, <1>6, <1>7, <1>8
<1> QED
  BY <1>9 DEF N

LEMMA ActionGood ==
  ASSUME NEW c
  PROVE  IsAction(ActionOf(c))
BY DEF ActionOf, Action, NoAction, IsAction

LEMMA ActionHides ==
  ASSUME NEW a, IsAction(a)
  PROVE  WithoutValue(RedactedAction(a)) =
           [type |-> a.type, arg |-> RedactedText(a.arg), val |-> IF a.val = None THEN None ELSE Hidden]
<1>1. RedactedAction(a) = [type |-> a.type, arg |-> RedactedText(a.arg), val |-> RedactedText(a.val)]
  BY ActionFields
<1>2. RedactedText(a.val) = None <=> a.val = None
  BY TextTwice
<1> QED
  BY <1>1, <1>2 DEF WithoutValue

(* What an action says apart from its value is in the redacted command.    *)
LEMMA ActionSeen ==
  ASSUME NEW c, IsCommand(c)
  PROVE  WithoutValue(RedactedAction(ActionOf(Normal(LoggedCommand(c)))))
           = WithoutValue(RedactedAction(ActionOf(Normal(c))))
<1> DEFINE l == LoggedCommand(c)
           H(a) == [type |-> a.type, arg |-> RedactedText(a.arg), val |-> IF a.val = None THEN None ELSE Hidden]
<1>1. ASSUME NEW x PROVE WithoutValue(RedactedAction(ActionOf(x))) = H(ActionOf(x))
  BY ActionGood, ActionHides
<1>2. l.name = c.name /\ l.arg = RedactedText(c.arg) /\ (l.val = None <=> c.val = None)
  <2>1. Hidden # None
    BY Zenon DEF Hidden, None
  <2> QED
    BY <2>1, CommandFields
<1> HIDE DEF l
<1>3. CASE c.name \notin Supported
  <2>1. Normal(l) = Normal(c)
    BY <1>2, <1>3 DEF Normal
  <2> QED
    BY <2>1 DEF l
<1>4. CASE c.name \in Supported
  <2>1. Normal(l) = l /\ Normal(c) = c
    BY <1>2, <1>4, Names DEF Normal
  <2>2. RedactedText(l.arg) = RedactedText(c.arg) /\ (l.arg = None <=> c.arg = None)
    BY <1>2, TextTwice
  <2>3. H(ActionOf(l)) = H(ActionOf(c))
    <3>1. CASE c.name \in {"open", "goto"}
      BY <1>2, <2>2, <3>1 DEF ActionOf, Action, NoAction, Typing
    <3>2. CASE c.name \in {"snapshot", "screenshot"}
      BY <1>2, <2>2, <3>2 DEF ActionOf, Action, NoAction, Typing
    <3>3. CASE c.name = "click"
      BY <1>2, <2>2, <3>3 DEF ActionOf, Action, NoAction, Typing
    <3>4. CASE c.name \in {"fill", "type"}
      BY <1>2, <2>2, <3>4 DEF ActionOf, Action, NoAction, Typing
    <3>5. CASE c.name \notin {"open", "goto", "snapshot", "screenshot", "click", "fill", "type"}
      BY <1>2, <2>2, <3>5 DEF ActionOf, Action, NoAction, Typing
    <3> QED
      BY <3>1, <3>2, <3>3, <3>4, <3>5
  <2>4. H(ActionOf(Normal(l))) = H(ActionOf(Normal(c)))
    BY <2>1, <2>3
  <2> HIDE DEF H
  <2> QED
    BY <1>1, <2>4 DEF l
<1> QED
  BY <1>3, <1>4

NoValues(s) == <<>> \o [i \in DOMAIN s |-> WithoutValue(s[i])]

LEMMA ActionsGood ==
  ASSUME NEW s, AreCommands(s)
  PROVE  /\ AreActions(ActionsOf(s)) /\ ActionsOf(Normalized(s)) = ActionsOf(s)
         /\ NoValues(RedactedActions(ActionsOf(RedactedCommands(s)))) = NoValues(RedactedActions(ActionsOf(s)))
<1> DEFINE A(x) == [i \in DOMAIN x |-> ActionOf(Normal(x[i]))]
           N(x) == [i \in DOMAIN x |-> Normal(x[i])]
           L(x) == [i \in DOMAIN x |-> LoggedCommand(x[i])]
           R(x) == [i \in DOMAIN x |-> RedactedAction(x[i])]
           W(x) == [i \in DOMAIN x |-> WithoutValue(x[i])]
<1>1. ASSUME NEW x, AreCommands(x) PROVE AreActions(A(x)) /\ ActionsOf(x) = A(x)
  <2> DEFINE f == A(x)
  <2>1. f = [i \in DOMAIN x |-> f[i]]
    OBVIOUS
  <2>2. \A i \in DOMAIN x : f[i] = ActionOf(Normal(x[i]))
    OBVIOUS
  <2>3. ActionsOf(x) = <<>> \o f
    BY DEF ActionsOf
  <2> HIDE DEF f, A
  <2>4. IsList(f) /\ Len(f) = Len(x) /\ DOMAIN x = 1 .. Len(x) /\ DOMAIN f = 1 .. Len(x) /\ <<>> \o f = f
    BY <1>1, <2>1, MapList DEF AreCommands
  <2>5. AreActions(f)
    BY <2>2, <2>4, ActionGood DEF AreActions
  <2>6. AreActions(f) /\ ActionsOf(x) = f
    BY <2>3, <2>4, <2>5
  <2> QED
    BY <2>6 DEF f
<1>2. \A i \in DOMAIN s : IsCommand(s[i])
  BY ListDomain DEF AreCommands
<1>3. A(N(s)) = A(s)
  BY <1>2, NormalGood
<1>4. W(R(A(L(s)))) = W(R(A(s)))
  BY <1>2, ActionSeen
<1>5. AreCommands(RedactedCommands(s)) /\ RedactedCommands(s) = L(s)
  BY CommandsSafe
<1>6. AreCommands(Normalized(s)) /\ Normalized(s) = N(s)
  BY NormalizedGood
<1>7. RedactedActions(A(s)) = R(A(s)) /\ RedactedActions(A(L(s))) = R(A(L(s)))
  BY <1>1, <1>5, ActionsSafe
<1>8. NoValues(R(A(s))) = <<>> \o W(R(A(s))) /\ NoValues(R(A(L(s)))) = <<>> \o W(R(A(L(s))))
  BY Zenon DEF NoValues
<1>9. ActionsOf(s) = A(s) /\ ActionsOf(N(s)) = A(N(s)) /\ ActionsOf(L(s)) = A(L(s)) /\ AreActions(A(s))
  BY <1>1, <1>5, <1>6
<1> HIDE DEF A, N, L, R, W
<1> QED
  BY <1>3, <1>4, <1>5, <1>6, <1>7, <1>8, <1>9

LEMMA HasActionsKept ==
  ASSUME NEW s, AreActions(s)
  PROVE  (\E i \in DOMAIN RedactedActions(s) : RedactedActions(s)[i] # NoAction)
           <=> (\E i \in DOMAIN s : s[i] # NoAction)
<1>1. RedactedActions(s) = [i \in DOMAIN s |-> RedactedAction(s[i])]
  BY ActionsSafe
<1>2. ASSUME NEW a, IsAction(a) PROVE RedactedAction(a) = NoAction <=> a = NoAction
  <2>1. RedactedAction(a) = [type |-> a.type, arg |-> RedactedText(a.arg), val |-> RedactedText(a.val)]
    BY <1>2, ActionFields
  <2>2. (RedactedText(a.arg) = None <=> a.arg = None) /\ (RedactedText(a.val) = None <=> a.val = None)
    BY TextTwice
  <2> QED
    BY <1>2, <2>1, <2>2 DEF IsAction, NoAction, Action
<1>3. \A i \in DOMAIN s : IsAction(s[i])
  BY ListDomain DEF AreActions
<1> QED
  BY <1>1, <1>2, <1>3

(* The actions a planned case has.                                         *)
Acts(x) == IF HasActions(x) THEN x.actions ELSE ActionsOf(x.commands)

LEMMA PlannedFields ==
  ASSUME NEW x, IsCase(x)
  PROVE  /\ Planned(x) = [type |-> x.type, category |-> x.category, request |-> x.request, url |-> x.url,
                          target |-> x.target, base |-> x.base, commands |-> Normalized(x.commands),
                          actions |-> Acts(x), data |-> x.data]
         /\ IsCase(Planned(x)) /\ AreActions(Acts(x))
<1> DEFINE x1 == [x EXCEPT !.commands = Normalized(@)]
<1>1. x1 = [type |-> x.type, category |-> x.category, request |-> x.request, url |-> x.url,
            target |-> x.target, base |-> x.base, commands |-> Normalized(x.commands),
            actions |-> x.actions, data |-> x.data]
  BY DEF IsCase
<1>2. Planned(x) = [x1 EXCEPT !.actions = IF HasActions(x) THEN @ ELSE ActionsOf(x.commands)]
  BY Zenon DEF Planned
<1> HIDE DEF x1
<1>3. Planned(x) = [type |-> x.type, category |-> x.category, request |-> x.request, url |-> x.url,
                    target |-> x.target, base |-> x.base, commands |-> Normalized(x.commands),
                    actions |-> Acts(x), data |-> x.data]
  BY <1>1, <1>2 DEF Acts
<1>4. AreActions(Acts(x))
  BY ActionsGood DEF Acts, IsCase
<1>5. AreCommands(Normalized(x.commands))
  BY NormalizedGood DEF IsCase
<1>6. IsCase(Planned(x))
  BY <1>3, <1>4, <1>5 DEF IsCase
<1> QED
  BY <1>3, <1>4, <1>6

LEMMA SeenFields ==
  ASSUME NEW x, IsCase(x)
  PROVE  Seen(x) = [type |-> x.type, category |-> x.category, request |-> RedactedRequest(x.request),
                    url |-> RedactedText(x.url), target |-> RedactedText(x.target), base |-> RedactedText(x.base),
                    commands |-> RedactedCommands(Normalized(x.commands)),
                    actions |-> NoValues(RedactedActions(Acts(x))), data |-> RedactedData(x.data)]
<1> DEFINE q == Planned(x)
           p == RedactedCase(q)
<1>1. /\ q = [type |-> x.type, category |-> x.category, request |-> x.request, url |-> x.url,
              target |-> x.target, base |-> x.base, commands |-> Normalized(x.commands),
              actions |-> Acts(x), data |-> x.data]
      /\ IsCase(q)
  BY PlannedFields
<1> HIDE DEF q
<1>2. p = [type |-> q.type, category |-> q.category, request |-> RedactedRequest(q.request),
           url |-> RedactedText(q.url), target |-> RedactedText(q.target), base |-> RedactedText(q.base),
           commands |-> RedactedCommands(q.commands), actions |-> RedactedActions(q.actions),
           data |-> RedactedData(q.data)]
  BY <1>1, CaseFields
<1>3. Seen(x) = [p EXCEPT !.actions = NoValues(@)]
  <2> DEFINE z == p.actions
  <2>1. Seen(x) = [p EXCEPT !.actions = <<>> \o [i \in DOMAIN z |-> WithoutValue(z[i])]]
    BY <1>2 DEF Seen, q
  <2>2. NoValues(z) = <<>> \o [i \in DOMAIN z |-> WithoutValue(z[i])]
    BY Zenon DEF NoValues
  <2> HIDE DEF p
  <2> QED
    BY <2>1, <2>2
<1> HIDE DEF p
<1> QED
  BY <1>1, <1>2, <1>3

(* What is seen of a case is what is seen of it in a log and of the case as *)
(* planned.                                                                *)
LEMMA SeenKept ==
  ASSUME NEW x, IsCase(x)
  PROVE  Seen(RedactedCase(x)) = Seen(x) /\ Seen(Planned(x)) = Seen(x)
<1> DEFINE S(y) == [type |-> y.type, category |-> y.category, request |-> RedactedRequest(y.request),
                    url |-> RedactedText(y.url), target |-> RedactedText(y.target), base |-> RedactedText(y.base),
                    commands |-> RedactedCommands(Normalized(y.commands)),
                    actions |-> NoValues(RedactedActions(Acts(y))), data |-> RedactedData(y.data)]
           r == RedactedCase(x)
           p == Planned(x)
<1>1. IsTemplate(x.request) /\ AreCommands(x.commands) /\ AreActions(x.actions) /\ IsData(x.data)
  BY DEF IsCase
<1>2. /\ r = [type |-> x.type, category |-> x.category, request |-> RedactedRequest(x.request),
              url |-> RedactedText(x.url), target |-> RedactedText(x.target), base |-> RedactedText(x.base),
              commands |-> RedactedCommands(x.commands), actions |-> RedactedActions(x.actions),
              data |-> RedactedData(x.data)]
      /\ IsCase(r)
  BY CaseFields, CaseSafe
<1>3. /\ p = [type |-> x.type, category |-> x.category, request |-> x.request, url |-> x.url,
              target |-> x.target, base |-> x.base, commands |-> Normalized(x.commands),
              actions |-> Acts(x), data |-> x.data]
      /\ IsCase(p)
  BY PlannedFields
<1>4. Seen(x) = S(x) /\ Seen(r) = S(r) /\ Seen(p) = S(p)
  BY <1>2, <1>3, SeenFields, Zenon
<1> HIDE DEF r, p
<1>5. NoValues(RedactedActions(Acts(r))) = NoValues(RedactedActions(Acts(x)))
  <2>1. HasActions(r) <=> HasActions(x)
    BY <1>1, <1>2, HasActionsKept DEF HasActions
  <2>2. CASE HasActions(x)
    <3>1. Acts(x) = x.actions /\ Acts(r) = RedactedActions(x.actions)
      BY <1>2, <2>1, <2>2 DEF Acts
    <3> QED
      BY <1>1, <3>1, ActionsSafe
  <2>3. CASE ~HasActions(x)
    <3>1. Acts(x) = ActionsOf(x.commands) /\ Acts(r) = ActionsOf(RedactedCommands(x.commands))
      BY <1>2, <2>1, <2>3 DEF Acts
    <3> QED
      BY <1>1, <3>1, ActionsGood
  <2> QED
    BY <2>2, <2>3
<1>6. Acts(p) = Acts(x)
  <2>1. CASE HasActions(p)
    BY <1>3, <2>1 DEF Acts
  <2>2. CASE ~HasActions(p)
    <3>1. ~HasActions(x)
      BY <1>3, <2>2 DEF HasActions, Acts
    <3>2. Acts(x) = ActionsOf(x.commands) /\ Acts(p) = ActionsOf(Normalized(x.commands))
      BY <1>3, <2>2, <3>1 DEF Acts
    <3> QED
      BY <1>1, <3>2, ActionsGood
  <2> QED
    BY <2>1, <2>2
<1>7. S(r) = S(x)
  <2>1. /\ r.type = x.type /\ r.category = x.category
        /\ RedactedRequest(r.request) = RedactedRequest(x.request)
        /\ RedactedText(r.url) = RedactedText(x.url) /\ RedactedText(r.target) = RedactedText(x.target)
        /\ RedactedText(r.base) = RedactedText(x.base)
        /\ RedactedCommands(Normalized(r.commands)) = RedactedCommands(Normalized(x.commands))
        /\ RedactedData(r.data) = RedactedData(x.data)
    BY <1>1, <1>2, RequestSafe, TextTwice, NormalizedGood, DataSafe
  <2> QED
    BY <1>5, <2>1, Zenon
<1>8. S(p) = S(x)
  <2>1. /\ p.type = x.type /\ p.category = x.category /\ p.request = x.request /\ p.url = x.url
        /\ p.target = x.target /\ p.base = x.base /\ p.data = x.data
        /\ Normalized(p.commands) = Normalized(x.commands)
    BY <1>1, <1>3, NormalizedGood
  <2> QED
    BY <1>6, <2>1, Zenon
<1>9. Seen(r) = Seen(x) /\ Seen(p) = Seen(x)
  BY <1>4, <1>7, <1>8, Zenon
<1> QED
  BY <1>9 DEF r, p

LEMMA PlannedGood ==
  ASSUME NEW s, AreCases(s)
  PROVE  /\ AreCases(PlannedCases(s)) /\ AllSeen(PlannedCases(s)) = AllSeen(s)
         /\ AllSeen(Redacted(s)) = AllSeen(s)
<1> DEFINE f == [i \in DOMAIN s |-> Planned(s[i])]
           g == [i \in DOMAIN s |-> RedactedCase(s[i])]
<1>1. f = [i \in DOMAIN s |-> f[i]] /\ g = [i \in DOMAIN s |-> g[i]]
  OBVIOUS
<1>2. \A i \in DOMAIN s : f[i] = Planned(s[i]) /\ g[i] = RedactedCase(s[i])
  OBVIOUS
<1>3. PlannedCases(s) = <<>> \o f /\ Redacted(s) = <<>> \o g
  BY Zenon DEF PlannedCases, Redacted
<1> HIDE DEF f, g
<1>4. /\ IsList(f) /\ Len(f) = Len(s) /\ DOMAIN s = 1 .. Len(s) /\ DOMAIN f = 1 .. Len(s) /\ <<>> \o f = f
      /\ DOMAIN g = 1 .. Len(s) /\ <<>> \o g = g
  BY <1>1, MapList DEF AreCases
<1>5. \A i \in 1 .. Len(s) : IsCase(s[i])
  BY DEF AreCases
<1>6. AreCases(f)
  BY <1>2, <1>4, <1>5, PlannedFields DEF AreCases
<1>7. \A i \in 1 .. Len(s) : Seen(f[i]) = Seen(s[i]) /\ Seen(g[i]) = Seen(s[i])
  BY <1>2, <1>4, <1>5, SeenKept
<1>8. /\ [i \in DOMAIN f |-> Seen(f[i])] = [i \in DOMAIN s |-> Seen(s[i])]
      /\ [i \in DOMAIN g |-> Seen(g[i])] = [i \in DOMAIN s |-> Seen(s[i])]
  BY <1>4, <1>7
<1>9. AllSeen(f) = AllSeen(s) /\ AllSeen(g) = AllSeen(s)
  BY <1>8, Zenon DEF AllSeen
<1> QED
  BY <1>3, <1>4, <1>6, <1>9

LEMMA JoinedGood ==
  ASSUME NEW s, NEW t, AreCases(s), AreCases(t)
  PROVE  AreCases(s \o t)
<1> DEFINE S == {s[i] : i \in 1 .. Len(s)} \cup {t[i] : i \in 1 .. Len(t)}
<1>1. s \in [1 .. Len(s) -> S] /\ Len(s) \in Nat /\ t \in [1 .. Len(t) -> S] /\ Len(t) \in Nat
  BY DEF AreCases, IsList
<1>2. s \in Seq(S) /\ t \in Seq(S)
  BY <1>1
<1>3. \A x \in S : IsCase(x)
  BY DEF AreCases
<1> HIDE DEF S
<1>4. s \o t \in Seq(S)
  BY <1>2
<1> DEFINE u == s \o t
<1>5. Len(u) \in Nat /\ u \in [1 .. Len(u) -> S]
  BY <1>4, LenProperties
<1> HIDE DEF u
<1>6. AreCases(u)
  BY <1>3, <1>5 DEF AreCases, IsList
<1> QED
  BY <1>6 DEF u

-----------------------------------------------------------------------------
(* The inductive invariant: each row of a run by itself, the links between  *)
(* them, the rows of cases, and what a request has read.                   *)

Clean(c) ==
  \A headers \in {c.auth, c.custom} : \A h \in DOMAIN headers :
    h \notin SensitiveHeaders /\ headers[h] \notin {Secret, Hidden}

(* A suite's run and its successors have the suite's cases: in what their   *)
(* worker was sent, and then in the log, until it plans anew.              *)
Carries(x) ==
  x.suite # NoSuite =>
    /\ x.status = "queued" => ~x.began
    /\ x.status = "running" => x.began
    /\ ~x.began => x.log.context.cases = NoCases /\ x.replanned = {}
    /\ x.began /\ x.replanned = {} =>
         /\ x.log.context.cases.api_cases = Redacted(x.context.cases.api_cases)
         /\ AllSeen(x.log.context.cases.ui_cases) = AllSeen(x.context.cases.ui_cases)
    /\ x.logged => /\ Redacted(x.context.cases.api_cases) = Redacted(CasesOf(x.suite.api))
                   /\ AllSeen(x.context.cases.ui_cases) = AllSeen(CasesOf(x.suite.ui))

GoodRun(r, x) ==
  /\ IsRun(x) /\ Carries(x)
  /\ r \notin DOMAIN Runs \/ x.began => ~LoggedSecrets(x.log.context)
  /\ x.origin # None => Clean(x.context)
  /\ x.log.from # None => x.log.from = x.origin

RunsInv == /\ DOMAIN runs = RunIds
           /\ \A r \in RunIds : runs[r] \in {Free, Gone} \/ GoodRun(r, runs[r])
LinkInv ==
  \A r \in Live(runs) :
    LET k == runs[r].log.continuation
    IN  k # None => /\ k \in RunIds /\ runs[k] # Free
                    /\ k \in Live(runs) => runs[k].origin = r /\ runs[k].log.from = r
CasesInv ==
  /\ DOMAIN cases = CaseIds
  /\ \A id \in Live(cases) : /\ IsData(cases[id].data)
                             /\ cases[id].run # None => DataIsSafe(cases[id].data)
PayloadsGood(ps) == IsList(ps) /\ \A i \in 1 .. Len(ps) : IsCase(ps[i].case)
ReqInv == /\ DOMAIN req = Clients
          /\ \A c \in Clients : req[c].op = "run" =>
               /\ req[c] = [op |-> "run", asked |-> req[c].asked, at |-> req[c].at, read |-> req[c].read,
                            api |-> req[c].api, ui |-> req[c].ui]
               /\ PayloadsGood(req[c].api) /\ PayloadsGood(req[c].ui)
IInv == RunsInv /\ LinkInv /\ CasesInv /\ ReqInv

LEMMA NoSecretInNothing == ~LoggedSecrets(NoContext)
<1>1. /\ NoContext.setup = <<>> /\ NoContext.auth = NoHeaders /\ NoContext.custom = NoHeaders
      /\ NoContext.cases = NoCases
  BY DEF NoContext
<1>2. DOMAIN NoHeaders = {}
  BY DEF NoHeaders
<1>3. \A s \in DOMAIN NoCases : NoCases[s] = <<>>
  BY DEF NoCases
<1>4. DOMAIN <<>> = {}
  BY NothingGood, ListDomain DEF IsList
<1> QED
  BY <1>1, <1>2, <1>3, <1>4 DEF LoggedSecrets

LEMMA RunRowFields ==
  ASSUME NEW target, NEW context
  PROVE  LET b == RunRow(target, context)
         IN  /\ b = [status |-> "queued", target |-> target, context |-> context, log |-> NoLog, suite |-> NoSuite,
                     origin |-> None, began |-> b.began, logged |-> b.logged, replanned |-> {}]
             /\ ~b.began
BY DEF RunRow

LEMMA AgainFields ==
  ASSUME NEW run, NEW target, NEW context, NEW log
  PROVE  Again(run, target, context, log) =
           [status |-> "queued", target |-> target, context |-> context, log |-> log,
            suite |-> runs[run].suite, origin |-> run, began |-> RunRow(target, context).began,
            logged |-> (runs[run].logged /\ runs[run].began /\ runs[run].replanned = {}),
            replanned |-> {}]
<1> DEFINE f1 == [RunRow(target, context) EXCEPT !.log = log]
<1>1. f1 = [status |-> "queued", target |-> target, context |-> context, log |-> log,
            suite |-> NoSuite, origin |-> None, began |-> RunRow(target, context).began,
            logged |-> RunRow(target, context).logged, replanned |-> {}]
  BY RunRowFields
<1> HIDE DEF f1
<1> DEFINE f2 == [f1 EXCEPT !.suite = runs[run].suite]
<1>2. f2 = [status |-> "queued", target |-> target, context |-> context, log |-> log,
            suite |-> runs[run].suite, origin |-> None, began |-> RunRow(target, context).began,
            logged |-> RunRow(target, context).logged, replanned |-> {}]
  BY <1>1
<1> HIDE DEF f2
<1> DEFINE f3 == [f2 EXCEPT !.origin = run]
<1>3. f3 = [status |-> "queued", target |-> target, context |-> context, log |-> log,
            suite |-> runs[run].suite, origin |-> run, began |-> RunRow(target, context).began,
            logged |-> RunRow(target, context).logged, replanned |-> {}]
  BY <1>2
<1> HIDE DEF f3
<1> DEFINE f4 == [f3 EXCEPT !.logged = (runs[run].logged /\ runs[run].began /\ runs[run].replanned = {})]
<1>4. f4 = [status |-> "queued", target |-> target, context |-> context, log |-> log,
            suite |-> runs[run].suite, origin |-> run, began |-> RunRow(target, context).began,
            logged |-> (runs[run].logged /\ runs[run].began /\ runs[run].replanned = {}),
            replanned |-> {}]
  BY <1>3
<1> HIDE DEF f4
<1>5. Again(run, target, context, log) = f4
  BY <1>1, <1>2, <1>3, RunRowFields DEF f1, f2, f3, f4, Again
<1> QED
  BY <1>4, <1>5

(* New ids are among the unused ones.                                      *)
LEMMA NewIdsUnused ==
  ASSUME NEW rows, IsFiniteSet(DOMAIN rows), NEW k \in Nat, k <= Cardinality(Unused(rows))
  PROVE  IsList(NewIds(rows, k)) /\ Len(NewIds(rows, k)) = k /\ \A i \in 1 .. k : NewIds(rows, k)[i] \in Unused(rows)
<1> DEFINE U == Unused(rows)
           n == Cardinality(U)
           s == SetToSeq(U)
           ids == SubSeq(s, 1, k)
<1>1. IsFiniteSet(U)
  BY FS_Subset DEF Unused
<1>2. n \in Nat
  BY <1>1, FS_CardinalityType
<1>3. \E f : f \in [1 .. n -> U] /\ IsInjective(f)
  <2>1. PICK f : f \in Bijection(1 .. n, U)
    BY <1>1, <1>2, FS_CardinalityType DEF ExistsBijection
  <2>2. f \in [1 .. n -> U] /\ IsInjective(f)
    BY <2>1 DEF Bijection, Injection, IsInjective
  <2> QED
    BY <2>2
<1>4. s \in [1 .. n -> U]
  BY <1>3, Zenon DEF SetToSeq
<1>5. s \in Seq(U) /\ Len(s) = n
  BY <1>2, <1>4
<1> HIDE DEF s
<1>6. ids \in Seq(U) /\ Len(ids) = k /\ \A i \in 1 .. k : ids[i] = s[i]
  <2>1. k <= Len(s) /\ Len(s) \in Nat
    BY <1>2, <1>5
  <2> QED
    BY <1>5, <2>1, SubSeqProperties
<1> HIDE DEF ids
<1>7. IsList(ids) /\ \A i \in 1 .. k : ids[i] \in U
  BY <1>6, LenProperties DEF IsList
<1> QED
  BY <1>6, <1>7 DEF NewIds, ids, s

LEMMA NewIdIsUnused ==
  ASSUME NEW rows, IsFiniteSet(DOMAIN rows), Unused(rows) # {}
  PROVE  NewId(rows) \in Unused(rows)
<1>1. IsFiniteSet(Unused(rows))
  BY FS_Subset DEF Unused
<1>2. 1 <= Cardinality(Unused(rows))
  <2>1. Cardinality(Unused(rows)) \in Nat /\ Cardinality(Unused(rows)) # 0
    BY <1>1, FS_CardinalityType, FS_EmptySet
  <2> QED
    BY <2>1
<1> QED
  BY <1>2, NewIdsUnused DEF NewId

LEMMA NewIdUnused ==
  ASSUME RunsInv, Unused(runs) # {}
  PROVE  NewId(runs) \in Unused(runs)
BY NewIdIsUnused, IdsAssumption DEF RunsInv

LEMMA LiveRun ==
  ASSUME RunsInv, NEW r \in Live(runs)
  PROVE  r \in RunIds /\ GoodRun(r, runs[r])
BY DEF RunsInv, Live

(* A row given to an id that is the next one leaves the others what they are. *)
LEMMA Placed ==
  ASSUME RunsInv, NEW new, NEW x, GoodRun(new, x), runs' = [runs EXCEPT ![new] = x]
  PROVE  RunsInv'
BY DEF RunsInv

-----------------------------------------------------------------------------
(* Rows of runs: every way in which one is made or changed.                *)

(* A run made from another, as a rerun or with help.                       *)
LEMMA SuccessorGood ==
  ASSUME RunsInv, NEW run \in Live(runs), NEW new, NEW target, NEW context, NEW log,
         IsContext(context), Clean(context), IsLog(log), ~LoggedSecrets(log.context),
         context.cases.api_cases = runs[run].log.context.cases.api_cases,
         context.cases.ui_cases = runs[run].log.context.cases.ui_cases,
         log.context.cases = NoCases, log.from \in {None, run}
  PROVE  GoodRun(new, Again(run, target, context, log))
<1> DEFINE a == Again(run, target, context, log)
           x == runs[run]
           b == RunRow(target, context)
<1>1. a = [status |-> "queued", target |-> target, context |-> context, log |-> log, suite |-> x.suite,
           origin |-> run, began |-> b.began, logged |-> (x.logged /\ x.began /\ x.replanned = {}),
           replanned |-> {}]
  BY AgainFields
<1>2. ~b.began
  BY RunRowFields
<1>3. GoodRun(run, x)
  BY LiveRun
<1> HIDE DEF a, b, x
<1>4. /\ a.status = "queued" /\ a.context = context /\ a.log = log /\ a.suite = x.suite /\ a.origin = run
      /\ a.began = b.began /\ a.replanned = {}
  BY <1>1
<1>5. a.logged => x.logged /\ x.began /\ x.replanned = {}
  BY <1>1, Zenon
<1>6. IsRun(a)
  BY <1>1, <1>4 DEF IsRun
<1>7. Carries(a)
  <2> SUFFICES ASSUME a.suite # NoSuite, a.logged
               PROVE  /\ Redacted(a.context.cases.api_cases) = Redacted(CasesOf(a.suite.api))
                      /\ AllSeen(a.context.cases.ui_cases) = AllSeen(CasesOf(a.suite.ui))
    BY <1>2, <1>4 DEF Carries
  <2>1. x.logged /\ x.began /\ x.replanned = {}
    BY <1>5
  <2>2. /\ x.log.context.cases.api_cases = Redacted(x.context.cases.api_cases)
        /\ AllSeen(x.log.context.cases.ui_cases) = AllSeen(x.context.cases.ui_cases)
        /\ Redacted(x.context.cases.api_cases) = Redacted(CasesOf(x.suite.api))
        /\ AllSeen(x.context.cases.ui_cases) = AllSeen(CasesOf(x.suite.ui))
    BY <1>3, <1>4, <2>1 DEF GoodRun, Carries
  <2>3. AreCases(x.context.cases.api_cases)
    BY <1>3 DEF GoodRun, IsRun, IsContext
  <2>4. Redacted(Redacted(x.context.cases.api_cases)) = Redacted(x.context.cases.api_cases)
    BY <2>3, CasesSafe
  <2> QED
    BY <1>4, <2>2, <2>4 DEF x
<1> QED
  BY <1>4, <1>6, <1>7 DEF GoodRun, a

LEMMA ContextGood ==
  ASSUME RunsInv, NEW run \in Live(runs)
  PROVE  /\ IsContext(Context(run)) /\ Clean(Context(run))
         /\ Context(run).cases.api_cases = runs[run].log.context.cases.api_cases
         /\ Context(run).cases.ui_cases = runs[run].log.context.cases.ui_cases
<1>1. IsContext(runs[run].log.context)
  BY LiveRun DEF GoodRun, IsRun, IsLog
<1> QED
  BY <1>1, RerunSafe DEF Context, Clean

LEMMA RerunGood ==
  ASSUME RunsInv, NEW run \in Live(runs), NEW new, NEW target
  PROVE  GoodRun(new, Again(run, target, Context(run), NoLog))
<1>1. /\ IsLog(NoLog) /\ ~LoggedSecrets(NoLog.context) /\ NoLog.context.cases = NoCases /\ NoLog.from = None
  <2>1. NoLog.context = NoContext /\ NoLog.from = None
    BY DEF NoLog
  <2>2. NoContext.cases = NoCases
    BY DEF NoContext
  <2> QED
    BY <2>1, <2>2, NothingGood, NoSecretInNothing
<1> QED
  BY <1>1, ContextGood, SuccessorGood

LEMMA HelpedGood ==
  ASSUME RunsInv, NEW run \in Live(runs), NEW new, NEW target, NEW text
  PROVE  LET c == Supplemented(Context(run), text)
         IN  GoodRun(new, Again(run, target, c, Seeded(c, run)))
<1> DEFINE c == Supplemented(Context(run), text)
           l == Seeded(c, run)
<1>1. /\ IsContext(c) /\ Clean(c)
      /\ c.cases.api_cases = runs[run].log.context.cases.api_cases
      /\ c.cases.ui_cases = runs[run].log.context.cases.ui_cases
  BY ContextGood, SupplementedSafe DEF Clean
<1> HIDE DEF c
<1>2. IsLog(l) /\ ~LoggedSecrets(l.context) /\ l.context.cases = NoCases /\ l.from = run
  BY <1>1, SeededSafe
<1> HIDE DEF l
<1>3. GoodRun(new, Again(run, target, c, l))
  BY <1>1, <1>2, SuccessorGood
<1> QED
  BY <1>3 DEF c, l

LEMMA ContinuedLog ==
  ASSUME NEW row, NEW new, NEW l, IsLog(l), NEW mark
  PROVE  [l EXCEPT !.cancelled = mark, !.runtime = "continued", !.continuation = new] =
           [context |-> l.context, cancelled |-> mark, runtime |-> "continued",
            continuation |-> new, from |-> l.from]
<1> DEFINE f1 == [l EXCEPT !.cancelled = mark]
<1>1. f1 = [context |-> l.context, cancelled |-> mark, runtime |-> l.runtime,
            continuation |-> l.continuation, from |-> l.from]
  BY DEF IsLog
<1> HIDE DEF f1
<1> DEFINE f2 == [f1 EXCEPT !.runtime = "continued"]
<1>2. f2 = [context |-> l.context, cancelled |-> mark, runtime |-> "continued",
            continuation |-> l.continuation, from |-> l.from]
  BY <1>1
<1> HIDE DEF f2
<1> DEFINE f3 == [f2 EXCEPT !.continuation = new]
<1>3. f3 = [context |-> l.context, cancelled |-> mark, runtime |-> "continued",
            continuation |-> new, from |-> l.from]
  BY <1>2
<1> HIDE DEF f3
<1>4. [l EXCEPT !.cancelled = mark, !.runtime = "continued", !.continuation = new] = f3
  BY <1>1, <1>2 DEF f1, f2, f3, IsLog
<1> QED
  BY <1>3, <1>4

(* The source of a continuation: its log says so, its cases stay.           *)
LEMMA ContinuedFields ==
  ASSUME NEW row, NEW new, IsRun(row)
  PROVE  LET d == Continued(row, new)
         IN  /\ IsRun(d) /\ d.status = IF row.status \in Active THEN "cancelled" ELSE row.status
             /\ d.context = row.context /\ d.suite = row.suite /\ d.origin = row.origin /\ d.target = row.target
             /\ d.began = row.began /\ d.logged = row.logged /\ d.replanned = row.replanned
             /\ d.log.context = row.log.context /\ d.log.from = row.log.from /\ d.log.continuation = new
<1> DEFINE st == IF row.status \in Active THEN "cancelled" ELSE row.status
           mark == (row.log.cancelled \/ row.status \in Active)
           l == row.log
           f1 == [row EXCEPT !.status = st]
           l2 == [l EXCEPT !.cancelled = mark]
           f2 == [f1 EXCEPT !.log = l2]
           l3 == [l2 EXCEPT !.runtime = "continued"]
           f3 == [f2 EXCEPT !.log = l3]
           l4 == [l3 EXCEPT !.continuation = new]
           f4 == [f3 EXCEPT !.log = l4]
<1>0. IsLog(l)
  BY DEF IsRun
<1> HIDE DEF st, mark
<1>1. f1 = [status |-> st, target |-> row.target, context |-> row.context, log |-> l, suite |-> row.suite,
            origin |-> row.origin, began |-> row.began, logged |-> row.logged, replanned |-> row.replanned]
  BY DEF IsRun
<1>2. l2 = [context |-> l.context, cancelled |-> mark, runtime |-> l.runtime, continuation |-> l.continuation, from |-> l.from]
  BY <1>0 DEF IsLog
<1> HIDE DEF f1, l2
<1>3. f2 = [status |-> st, target |-> row.target, context |-> row.context, log |-> l2, suite |-> row.suite,
            origin |-> row.origin, began |-> row.began, logged |-> row.logged, replanned |-> row.replanned]
  BY <1>1
<1>4. l3 = [context |-> l.context, cancelled |-> mark, runtime |-> "continued", continuation |-> l.continuation, from |-> l.from]
  BY <1>2
<1> HIDE DEF f2, l3
<1>5. f3 = [status |-> st, target |-> row.target, context |-> row.context, log |-> l3, suite |-> row.suite,
            origin |-> row.origin, began |-> row.began, logged |-> row.logged, replanned |-> row.replanned]
  BY <1>3
<1>6. l4 = [context |-> l.context, cancelled |-> mark, runtime |-> "continued", continuation |-> new, from |-> l.from]
  BY <1>4
<1> HIDE DEF f3, l4
<1>7. f4 = [status |-> st, target |-> row.target, context |-> row.context, log |-> l4, suite |-> row.suite,
            origin |-> row.origin, began |-> row.began, logged |-> row.logged, replanned |-> row.replanned]
  BY <1>5
<1> HIDE DEF f4, l
<1>8. Continued(row, new) = f4
  <2>1. [f1 EXCEPT !.log.cancelled = mark] = f2
    BY <1>1 DEF f2, l2
  <2>2. [f2 EXCEPT !.log.runtime = "continued"] = f3
    BY <1>3 DEF f3, l3
  <2>3. [f3 EXCEPT !.log.continuation = new] = f4
    BY <1>5 DEF f4, l4
  <2>4. Continued(row, new) =
          [[[f1 EXCEPT !.log.cancelled = mark] EXCEPT !.log.runtime = "continued"] EXCEPT !.log.continuation = new]
    BY Zenon DEF Continued, f1, st, mark
  <2> QED
    BY <2>1, <2>2, <2>3, <2>4, Zenon
<1>9. IsLog(l4)
  BY <1>0, <1>6 DEF IsLog
<1>10. IsRun(f4)
  BY <1>7, <1>9 DEF IsRun
<1>11. l4.context = row.log.context /\ l4.from = row.log.from /\ l4.continuation = new
  BY <1>6 DEF l
<1>12. /\ f4.status = st /\ f4.context = row.context /\ f4.suite = row.suite /\ f4.origin = row.origin
       /\ f4.target = row.target /\ f4.began = row.began /\ f4.logged = row.logged
       /\ f4.replanned = row.replanned /\ f4.log = l4
  BY <1>7
<1>13. /\ IsRun(f4) /\ f4.status = st
       /\ f4.context = row.context /\ f4.suite = row.suite /\ f4.origin = row.origin /\ f4.target = row.target
       /\ f4.began = row.began /\ f4.logged = row.logged /\ f4.replanned = row.replanned
       /\ f4.log.context = row.log.context /\ f4.log.from = row.log.from /\ f4.log.continuation = new
  BY <1>10, <1>11, <1>12
<1> QED
  BY <1>8, <1>13, Zenon DEF st

LEMMA ContinuedGood ==
  ASSUME RunsInv, NEW run \in Live(runs), NEW new
  PROVE  GoodRun(run, Continued(runs[run], new))
<1> DEFINE x == runs[run]
           d == Continued(x, new)
<1>1. GoodRun(run, x)
  BY LiveRun
<1> HIDE DEF x
<1>2. /\ IsRun(d) /\ d.status = IF x.status \in Active THEN "cancelled" ELSE x.status
      /\ d.context = x.context /\ d.suite = x.suite /\ d.origin = x.origin
      /\ d.began = x.began /\ d.logged = x.logged /\ d.replanned = x.replanned
      /\ d.log.context = x.log.context /\ d.log.from = x.log.from
  <2>1. IsRun(x)
    BY <1>1 DEF GoodRun
  <2> QED
    BY <2>1, ContinuedFields
<1> HIDE DEF d
<1>3. d.status \notin Active
  BY <1>2 DEF Active
<1>4. Carries(d)
  BY <1>1, <1>2, <1>3 DEF GoodRun, Carries, Active
<1>5. GoodRun(run, d)
  BY <1>1, <1>2, <1>4 DEF GoodRun
<1> QED
  BY <1>5 DEF d, x

(* A run whose worker begins.                                              *)
LEMMA StartedGood ==
  ASSUME RunsInv, NEW run \in Live(runs), runs[run].status = "queued", NEW x, NEW t, t = TRUE,
         x = [status |-> "running", target |-> runs[run].target, context |-> runs[run].context,
              log |-> LogPayload(StartState(runs[run].context), runs[run].log), suite |-> runs[run].suite,
              origin |-> runs[run].origin, began |-> t, logged |-> runs[run].logged,
              replanned |-> runs[run].replanned]
  PROVE  /\ GoodRun(run, x)
         /\ x.log.continuation = runs[run].log.continuation /\ x.log.from = runs[run].log.from
<1> DEFINE y == runs[run]
           c == y.context
           new == LogPayload(StartState(c), y.log)
           cs == IF c.cases = NoCases THEN y.log.context.cases ELSE c.cases
<1>1. GoodRun(run, y)
  BY LiveRun
<1>2. IsContext(c) /\ IsLog(y.log)
  BY <1>1 DEF GoodRun, IsRun
<1>3. /\ IsLog(new) /\ ~LoggedSecrets(new.context)
      /\ new.continuation = y.log.continuation /\ new.from = y.log.from
      /\ new.context.cases.api_cases = Redacted(cs.api_cases)
      /\ new.context.cases.ui_cases = Redacted(cs.ui_cases)
  BY <1>2, StartedLog
<1>4. /\ x = [status |-> "running", target |-> y.target, context |-> c, log |-> new, suite |-> y.suite,
              origin |-> y.origin, began |-> t, logged |-> y.logged, replanned |-> y.replanned]
      /\ y.status = "queued"
  BY Zenon
<1> HIDE DEF y, c, new
<1>5. /\ x.status = "running" /\ x.context = c /\ x.log = new /\ x.suite = y.suite /\ x.origin = y.origin
      /\ x.logged = y.logged /\ x.replanned = y.replanned
  BY <1>4
<1>6. x.began
  <2>1. x.began = t
    BY <1>4
  <2> QED
    BY <2>1, Zenon
<1>7. IsRun(x)
  BY <1>2, <1>3, <1>4, <1>5 DEF IsRun
<1>8. Carries(x)
  <2> SUFFICES ASSUME x.suite # NoSuite
               PROVE  /\ new.context.cases.api_cases = Redacted(c.cases.api_cases)
                      /\ AllSeen(new.context.cases.ui_cases) = AllSeen(c.cases.ui_cases)
                      /\ x.logged => /\ Redacted(c.cases.api_cases) = Redacted(CasesOf(x.suite.api))
                                     /\ AllSeen(c.cases.ui_cases) = AllSeen(CasesOf(x.suite.ui))
    BY <1>5, <1>6 DEF Carries
  <2>1. Carries(y) /\ y.suite # NoSuite
    BY <1>1, <1>5 DEF GoodRun
  <2>2. y.log.context.cases = NoCases
    BY <1>4, <2>1 DEF Carries
  <2>3. cs = c.cases
    BY <2>2
  <2>4. AllSeen(Redacted(c.cases.ui_cases)) = AllSeen(c.cases.ui_cases)
    BY <1>2, PlannedGood DEF IsContext
  <2> QED
    BY <1>3, <1>5, <2>1, <2>3, <2>4 DEF Carries, c
<1> QED
  BY <1>1, <1>3, <1>5, <1>7, <1>8 DEF GoodRun, c, y

(* The run of a suite.                                                     *)
LEMMA SuiteRunGood ==
  ASSUME NEW r, NEW new, PayloadsGood(r.api), PayloadsGood(r.ui)
  PROVE  LET x == SuiteRun(r)
         IN  /\ GoodRun(new, x) /\ x.log.continuation = None /\ x.log.from = None
             /\ x.status = "queued" /\ x.target = TargetOf(r) /\ x.origin = None
             /\ x.suite.asked = r.asked /\ x.suite.api = r.api /\ x.suite.ui = r.ui /\ x.suite # NoSuite
<1> DEFINE a == CasesOf(r.api)
           u == CasesOf(r.ui)
           seed == UiSeed(r.ui)
           input == IF seed = None THEN None ELSE "url"
           k1 == [NoCases EXCEPT !.api_cases = a]
           k2 == [k1 EXCEPT !.ui_cases = u]
           c1 == [NoContext EXCEPT !.source = Suite]
           c2 == [c1 EXCEPT !.seed = seed]
           c3 == [c2 EXCEPT !.input = input]
           c4 == [c3 EXCEPT !.cases = k2]
           c == SuiteContext(r.api, r.ui)
           d == [asked |-> r.asked, api |-> r.api, ui |-> r.ui, type |-> TestType(r.api, r.ui), agent |-> AgentType(r.api, r.ui)]
           b == RunRow(TargetOf(r), c)
           x == SuiteRun(r)
<1>1. AreCases(a) /\ AreCases(u)
  BY CasesOfGood DEF PayloadsGood
<1>2. d.asked = r.asked /\ d.api = r.api /\ d.ui = r.ui /\ d # NoSuite
  <2>1. DOMAIN d # DOMAIN NoSuite
    BY DEF NoSuite
  <2> QED
    BY <2>1
<1>3. x = [b EXCEPT !.suite = d]
  BY Zenon DEF SuiteRun
<1>4. /\ b = [status |-> "queued", target |-> TargetOf(r), context |-> c, log |-> NoLog, suite |-> NoSuite,
              origin |-> None, began |-> b.began, logged |-> b.logged, replanned |-> {}]
      /\ ~b.began
  BY RunRowFields, Zenon
<1>5. c = c4
  BY Zenon DEF SuiteContext
<1> HIDE DEF a, u, seed, input
<1>6. k1 = [api_cases |-> a, ui_cases |-> <<>>, test_cases |-> <<>>]
  BY DEF NoCases
<1> HIDE DEF k1
<1>7. k2 = [api_cases |-> a, ui_cases |-> u, test_cases |-> <<>>]
  BY <1>6
<1> HIDE DEF k2
<1>8. c1 = [source |-> Suite, input |-> None, seed |-> None, options |-> None, setup |-> <<>>,
            auth |-> NoHeaders, custom |-> NoHeaders, cases |-> NoCases]
  BY DEF NoContext
<1> HIDE DEF c1
<1>9. c2 = [source |-> Suite, input |-> None, seed |-> seed, options |-> None, setup |-> <<>>,
            auth |-> NoHeaders, custom |-> NoHeaders, cases |-> NoCases]
  BY <1>8
<1> HIDE DEF c2
<1>10. c3 = [source |-> Suite, input |-> input, seed |-> seed, options |-> None, setup |-> <<>>,
             auth |-> NoHeaders, custom |-> NoHeaders, cases |-> NoCases]
  BY <1>9
<1> HIDE DEF c3
<1>11. c4 = [source |-> Suite, input |-> input, seed |-> seed, options |-> None, setup |-> <<>>,
             auth |-> NoHeaders, custom |-> NoHeaders, cases |-> k2]
  BY <1>10
<1> HIDE DEF c4, c, b, d, x
<1>12. IsContext(c)
  BY <1>1, <1>5, <1>7, <1>11, NothingGood DEF IsContext
<1>13. c.cases.api_cases = a /\ c.cases.ui_cases = u
  BY <1>5, <1>7, <1>11
<1>14. x = [status |-> "queued", target |-> TargetOf(r), context |-> c, log |-> NoLog, suite |-> d,
            origin |-> None, began |-> b.began, logged |-> b.logged, replanned |-> {}]
  BY <1>3, <1>4
<1>15. /\ x.status = "queued" /\ x.context = c /\ x.log = NoLog /\ x.suite = d /\ x.origin = None /\ x.began = b.began
       /\ x.target = TargetOf(r) /\ x.replanned = {}
  BY <1>14
<1>16. /\ NoLog.context = NoContext /\ NoLog.from = None /\ NoLog.continuation = None
  BY DEF NoLog
<1>17. NoContext.cases = NoCases
  BY DEF NoContext
<1>18. IsRun(x)
  BY <1>12, <1>14, <1>15, NothingGood DEF IsRun
<1>19. Carries(x)
  BY <1>2, <1>4, <1>13, <1>15, <1>16, <1>17 DEF Carries, a, u
<1>20. GoodRun(new, x)
  BY <1>15, <1>16, <1>18, <1>19, NoSecretInNothing DEF GoodRun
<1> QED
  BY <1>2, <1>15, <1>16, <1>20 DEF x

-----------------------------------------------------------------------------
(* The steps.                                                              *)

LEMMA InitHolds == Init => IInv
<1> SUFFICES ASSUME Init PROVE IInv
  OBVIOUS
<1>1. \A r \in DOMAIN Runs : GoodRun(r, Runs[r]) /\ Runs[r].log.continuation = None
  <2> SUFFICES ASSUME NEW r \in DOMAIN Runs
               PROVE  GoodRun(r, Runs[r]) /\ Runs[r].log.continuation = None
    OBVIOUS
  <2>1. /\ IsRun(Runs[r]) /\ Runs[r].suite = NoSuite /\ Runs[r].origin = None
        /\ Runs[r].log.continuation = None /\ Runs[r].log.from = None /\ ~Runs[r].began
    BY RunsAssumption, Zenon DEF NoSuite
  <2> QED
    BY <2>1 DEF GoodRun, Carries
<1>2. RunsInv
  BY <1>1 DEF Init, RunsInv
<1>3. LinkInv
  BY <1>1 DEF Init, LinkInv, Live
<1>4. CasesInv
  BY DEF Init, CasesInv, Live
<1>5. ReqInv
  <2>1. Idle.op # "run"
    BY DEF Idle
  <2> QED
    BY <2>1 DEF Init, ReqInv
<1> QED
  BY <1>2, <1>3, <1>4, <1>5 DEF IInv

(* A record is not the mark of an id without a row.                        *)
LEMMA NotEmpty == ASSUME NEW x, IsRun(x) PROVE x \notin {Free, Gone}
<1>1. DOMAIN x = {"status", "target", "context", "log", "suite", "origin", "began", "logged", "replanned"}
  BY DEF IsRun
<1>2. DOMAIN Free = {"state"} /\ DOMAIN Gone = {"state"}
  BY DEF Free, Gone
<1> QED
  BY <1>1, <1>2

LEMMA FreeIsNotGone == Free # Gone
BY DEF Free, Gone

(* A new row with a log of its own joins the links.                        *)
LEMMA LinksWithNew ==
  ASSUME RunsInv, LinkInv, NEW new \in Unused(runs), NEW x, GoodRun(new, x), x.log.continuation = None,
         runs' = [runs EXCEPT ![new] = x]
  PROVE  LinkInv'
<1>1. new \in RunIds /\ runs[new] = Free
  BY DEF Unused, RunsInv
<1>2. x \notin {Free, Gone}
  BY NotEmpty DEF GoodRun
<1>3. DOMAIN runs' = RunIds /\ runs'[new] = x /\ \A r \in RunIds : r # new => runs'[r] = runs[r]
  BY <1>1 DEF RunsInv
<1>4. new \notin Live(runs) /\ Live(runs') = Live(runs) \cup {new}
  BY <1>1, <1>2, <1>3 DEF Live, RunsInv
<1> SUFFICES ASSUME NEW r \in Live(runs'), runs'[r].log.continuation # None
             PROVE  LET k == runs'[r].log.continuation
                    IN  /\ k \in RunIds /\ runs'[k] # Free
                        /\ k \in Live(runs') => runs'[k].origin = r /\ runs'[k].log.from = r
  BY DEF LinkInv
<1>5. r # new /\ r \in Live(runs) /\ runs'[r] = runs[r]
  BY <1>3, <1>4 DEF Live, RunsInv
<1> DEFINE k == runs[r].log.continuation
<1>6. /\ k \in RunIds /\ runs[k] # Free
      /\ k \in Live(runs) => runs[k].origin = r /\ runs[k].log.from = r
  BY <1>5 DEF LinkInv
<1> HIDE DEF k
<1>7. k # new /\ runs'[k] = runs[k]
  BY <1>1, <1>3, <1>6
<1>8. /\ k \in RunIds /\ runs'[k] # Free
      /\ k \in Live(runs') => runs'[k].origin = r /\ runs'[k].log.from = r
  BY <1>4, <1>6, <1>7
<1> QED
  BY <1>5, <1>8 DEF k

(* A row that changes keeps its links, or is deleted.                      *)
LEMMA LinksKept ==
  ASSUME RunsInv, LinkInv, NEW run \in Live(runs), NEW x, x # Free,
         x # Gone => /\ x.log.continuation = runs[run].log.continuation
                     /\ x.log.from = runs[run].log.from /\ x.origin = runs[run].origin,
         runs' = [runs EXCEPT ![run] = x]
  PROVE  LinkInv'
<1>1. run \in RunIds /\ runs[run] \notin {Free, Gone}
  BY DEF Live, RunsInv
<1>2. DOMAIN runs' = RunIds /\ runs'[run] = x /\ \A r \in RunIds : r # run => runs'[r] = runs[r]
  BY <1>1 DEF RunsInv
<1>3. Live(runs') \subseteq Live(runs) /\ (x = Gone => run \notin Live(runs'))
  BY <1>1, <1>2 DEF Live, RunsInv
<1> SUFFICES ASSUME NEW r \in Live(runs'), runs'[r].log.continuation # None
             PROVE  LET k == runs'[r].log.continuation
                    IN  /\ k \in RunIds /\ runs'[k] # Free
                        /\ k \in Live(runs') => runs'[k].origin = r /\ runs'[k].log.from = r
  BY DEF LinkInv
<1>4. r \in Live(runs) /\ r \in RunIds /\ runs'[r].log.continuation = runs[r].log.continuation
  BY <1>2, <1>3 DEF Live, RunsInv
<1> DEFINE k == runs[r].log.continuation
<1>5. /\ k \in RunIds /\ runs[k] # Free
      /\ k \in Live(runs) => runs[k].origin = r /\ runs[k].log.from = r
  BY <1>4 DEF LinkInv
<1> HIDE DEF k
<1>6. runs'[k] # Free
  BY <1>2, <1>5
<1>7. k \in Live(runs') => runs'[k].origin = runs[k].origin /\ runs'[k].log.from = runs[k].log.from
  BY <1>2, <1>3, <1>5
<1>8. /\ k \in RunIds /\ runs'[k] # Free
      /\ k \in Live(runs') => runs'[k].origin = r /\ runs'[k].log.from = r
  BY <1>3, <1>5, <1>6, <1>7
<1> QED
  BY <1>4, <1>8 DEF k

(* A continuation: its source names it, and it names its source.           *)
LEMMA LinksWithContinuation ==
  ASSUME RunsInv, LinkInv, NEW run \in Live(runs), NEW new \in Unused(runs), NEW d, NEW x,
         IsRun(d), d.log.continuation = new, d.log.from = runs[run].log.from, d.origin = runs[run].origin,
         IsRun(x), x.log.continuation = None, x.log.from = run, x.origin = run,
         runs' = [runs EXCEPT ![run] = d, ![new] = x]
  PROVE  LinkInv'
<1>1. run \in RunIds /\ new \in RunIds /\ run # new /\ runs[new] = Free /\ runs[run] \notin {Free, Gone}
  BY DEF Live, Unused, RunsInv
<1>2. /\ DOMAIN runs' = RunIds /\ runs'[run] = d /\ runs'[new] = x
      /\ \A r \in RunIds : r \notin {run, new} => runs'[r] = runs[r]
  BY <1>1 DEF RunsInv
<1>3. d \notin {Free, Gone} /\ x \notin {Free, Gone}
  BY NotEmpty
<1>4. new \notin Live(runs) /\ Live(runs') = Live(runs) \cup {new}
  BY <1>1, <1>2, <1>3 DEF Live, RunsInv
<1> SUFFICES ASSUME NEW r \in Live(runs'), runs'[r].log.continuation # None
             PROVE  LET k == runs'[r].log.continuation
                    IN  /\ k \in RunIds /\ runs'[k] # Free
                        /\ k \in Live(runs') => runs'[k].origin = r /\ runs'[k].log.from = r
  BY DEF LinkInv
<1>5. r # new
  BY <1>2
<1>6. CASE r = run
  BY <1>1, <1>2, <1>3, <1>6
<1>7. CASE r # run
  <2>1. r \in Live(runs) /\ r \in RunIds /\ runs'[r] = runs[r]
    BY <1>2, <1>4, <1>5, <1>7 DEF Live, RunsInv
  <2> DEFINE k == runs[r].log.continuation
  <2>2. /\ k \in RunIds /\ runs[k] # Free
        /\ k \in Live(runs) => runs[k].origin = r /\ runs[k].log.from = r
    BY <2>1 DEF LinkInv
  <2> HIDE DEF k
  <2>3. k # new
    BY <1>1, <2>2
  <2>4. runs'[k] # Free
    BY <1>2, <1>3, <2>2, <2>3
  <2>5. k \in Live(runs') => runs'[k].origin = runs[k].origin /\ runs'[k].log.from = runs[k].log.from
    BY <1>2, <2>2, <2>3
  <2>6. /\ k \in RunIds /\ runs'[k] # Free
        /\ k \in Live(runs') => runs'[k].origin = r /\ runs'[k].log.from = r
    BY <1>4, <2>2, <2>3, <2>4, <2>5
  <2> QED
    BY <2>1, <2>6 DEF k
<1> QED
  BY <1>6, <1>7

LEMMA BothPlaced ==
  ASSUME RunsInv, NEW run, NEW new, NEW d, NEW x, GoodRun(run, d), GoodRun(new, x),
         runs' = [runs EXCEPT ![run] = d, ![new] = x]
  PROVE  RunsInv'
<1> DEFINE f == [runs EXCEPT ![run] = d]
<1>1. DOMAIN f = RunIds /\ \A r \in RunIds : f[r] \in {Free, Gone} \/ GoodRun(r, f[r])
  BY DEF RunsInv
<1>2. runs' = [f EXCEPT ![new] = x]
  OBVIOUS
<1> HIDE DEF f
<1>3. DOMAIN runs' = RunIds /\ \A r \in RunIds : runs'[r] \in {Free, Gone} \/ GoodRun(r, runs'[r])
  BY <1>1, <1>2
<1> QED
  BY <1>3 DEF RunsInv

LEMMA StartedFields ==
  ASSUME NEW y, NEW t, NEW new, IsRun(y)
  PROVE  [[[y EXCEPT !.status = "running"] EXCEPT !.began = t] EXCEPT !.log = new] =
           [status |-> "running", target |-> y.target, context |-> y.context, log |-> new,
            suite |-> y.suite, origin |-> y.origin, began |-> t, logged |-> y.logged, replanned |-> y.replanned]
<1> DEFINE f1 == [y EXCEPT !.status = "running"]
<1>1. f1 = [status |-> "running", target |-> y.target, context |-> y.context, log |-> y.log,
            suite |-> y.suite, origin |-> y.origin, began |-> y.began, logged |-> y.logged, replanned |-> y.replanned]
  BY DEF IsRun
<1> HIDE DEF f1
<1> DEFINE f2 == [f1 EXCEPT !.began = t]
<1>2. f2 = [status |-> "running", target |-> y.target, context |-> y.context, log |-> y.log,
            suite |-> y.suite, origin |-> y.origin, began |-> t, logged |-> y.logged, replanned |-> y.replanned]
  BY <1>1
<1> HIDE DEF f2
<1> DEFINE f3 == [f2 EXCEPT !.log = new]
<1>3. f3 = [status |-> "running", target |-> y.target, context |-> y.context, log |-> new,
            suite |-> y.suite, origin |-> y.origin, began |-> t, logged |-> y.logged, replanned |-> y.replanned]
  BY <1>2
<1> HIDE DEF f3
<1>4. [[[y EXCEPT !.status = "running"] EXCEPT !.began = t] EXCEPT !.log = new] = f3
  BY <1>1, <1>2 DEF f1, f2, f3
<1> QED
  BY <1>3, <1>4

(* The row of a run is written by its worker.                              *)
Rewritten(run) ==
  \E x : /\ runs' = [runs EXCEPT ![run] = x] /\ x \notin {Free, Gone} /\ x.status = "running"
         /\ x.target = runs[run].target /\ x.suite = runs[run].suite /\ x.origin = runs[run].origin

LEMMA StartStep ==
  ASSUME RunsInv, LinkInv, NEW run, StartRun(run)
  PROVE  RunsInv' /\ LinkInv' /\ Rewritten(run)
<1> DEFINE y == runs[run]
           new == LogPayload(StartState(runs[run].context), runs[run].log)
           y1 == [y EXCEPT !.status = "running"]
           y2 == [y1 EXCEPT !.began = TRUE]
           y3 == [y2 EXCEPT !.log = new]
           f1 == [runs EXCEPT ![run] = y1]
           f2 == [f1 EXCEPT ![run] = y2]
           f3 == [f2 EXCEPT ![run] = y3]
<1>1. run \in Live(runs) /\ y.status = "queued" /\ GoodRun(run, y) /\ run \in RunIds /\ DOMAIN runs = RunIds
  BY LiveRun DEF StartRun, RunsInv
<1>2. runs' = [[[runs EXCEPT ![run].status = "running"] EXCEPT ![run].began = TRUE] EXCEPT ![run].log = new]
  BY Zenon DEF StartRun
<1>3. [runs EXCEPT ![run].status = "running"] = f1
  BY <1>1
<1> HIDE DEF new
<1> PICK t : t = TRUE
  OBVIOUS
<1>4. y3 = [status |-> "running", target |-> y.target, context |-> y.context, log |-> new, suite |-> y.suite,
            origin |-> y.origin, began |-> t, logged |-> y.logged, replanned |-> y.replanned]
  <2>1. IsRun(y)
    BY <1>1 DEF GoodRun
  <2> HIDE DEF y
  <2> QED
    BY <2>1, StartedFields, Zenon
<1> HIDE DEF y1
<1>5. f1[run] = y1 /\ DOMAIN f1 = RunIds
  BY <1>1
<1>6. [f1 EXCEPT ![run].began = TRUE] = f2
  BY <1>5
<1> HIDE DEF f1, y2
<1>8. f2[run] = y2 /\ DOMAIN f2 = RunIds
  BY <1>1, <1>5
<1>9. [f2 EXCEPT ![run].log = new] = f3
  BY <1>8
<1> HIDE DEF y3
<1>11. runs' = f3
  BY <1>2, <1>3, <1>6, <1>9, Zenon
<1>12. f3 = [runs EXCEPT ![run] = y3]
  BY <1>1, <1>5, <1>8 DEF f1
<1>13. GoodRun(run, y3) /\ y3.log.continuation = y.log.continuation /\ y3.log.from = y.log.from
  BY <1>1, <1>4, StartedGood, Zenon DEF new
<1>14. y3.origin = y.origin
  BY <1>4
<1>15. y3 \notin {Free, Gone}
  BY <1>13, NotEmpty DEF GoodRun
<1> HIDE DEF f3, f2
<1>16. runs' = [runs EXCEPT ![run] = y3]
  BY <1>11, <1>12
<1>17. RunsInv'
  BY <1>13, <1>16, Placed
<1>18. LinkInv'
  BY <1>1, <1>13, <1>14, <1>15, <1>16, LinksKept
<1>19. y3.status = "running" /\ y3.target = y.target /\ y3.suite = y.suite
  BY <1>4
<1> QED
  BY <1>14, <1>15, <1>16, <1>17, <1>18, <1>19 DEF Rewritten

(* A worker that plans.                                                    *)
AreLists(k) == /\ k = [api_cases |-> k.api_cases, ui_cases |-> k.ui_cases, test_cases |-> k.test_cases]
               /\ AreCases(k.api_cases) /\ AreCases(k.ui_cases) /\ AreCases(k.test_cases)

LEMMA RewrittenLog ==
  ASSUME NEW l, NEW k, IsLog(l), AreLists(k)
  PROVE  LET new == WithCases(l, k)
         IN  /\ IsLog(new) /\ ~LoggedSecrets(new.context)
             /\ new.continuation = l.continuation /\ new.from = l.from
             /\ new.context.cases.api_cases = Redacted(k.api_cases)
             /\ new.context.cases.ui_cases = Redacted(k.ui_cases)
<1> DEFINE c == l.context
           o == [c EXCEPT !.cases = k]
           r == RedactedContext(o)
           new == WithCases(l, k)
<1>1. IsContext(c)
  BY DEF IsLog
<1>2. new = [context |-> r, cancelled |-> l.cancelled, runtime |-> l.runtime,
             continuation |-> l.continuation, from |-> l.from]
  BY DEF WithCases, IsLog
<1> HIDE DEF c
<1>3. o = [source |-> c.source, input |-> c.input, seed |-> c.seed, options |-> c.options, setup |-> c.setup,
           auth |-> c.auth, custom |-> c.custom, cases |-> k]
  BY <1>1 DEF IsContext
<1> HIDE DEF o
<1>4. IsContext(o) /\ o.cases = k
  BY <1>1, <1>3 DEF IsContext, AreLists
<1>5. /\ IsContext(r) /\ ~LoggedSecrets(r)
      /\ r.cases = [api_cases |-> Redacted(k.api_cases), ui_cases |-> Redacted(k.ui_cases),
                    test_cases |-> Redacted(k.test_cases)]
  BY <1>4, ContextSafe
<1> HIDE DEF r, new
<1>6. /\ new.context = r /\ new.continuation = l.continuation /\ new.from = l.from /\ IsLog(new)
  BY <1>2, <1>5 DEF IsLog
<1> QED
  BY <1>5, <1>6 DEF new

LEMMA PlanningGood ==
  ASSUME NEW c, NEW k, IsContext(c), AreLists(k)
  PROVE  LET p == AfterPlanning(c, k)
         IN  AreLists(p) /\ p.api_cases = k.api_cases /\ AllSeen(p.ui_cases) = AllSeen(c.cases.ui_cases)
<1> DEFINE u == PlannedCases(c.cases.ui_cases)
           t == IF k.api_cases = <<>> THEN k.test_cases ELSE k.api_cases \o c.cases.ui_cases
           k1 == [k EXCEPT !.ui_cases = u]
           p == AfterPlanning(c, k)
<1>1. AreCases(c.cases.ui_cases)
  BY DEF IsContext
<1>2. AreCases(u) /\ AllSeen(u) = AllSeen(c.cases.ui_cases)
  BY <1>1, PlannedGood
<1>3. AreCases(t)
  BY <1>1, JoinedGood DEF AreLists
<1>4. p = [k1 EXCEPT !.test_cases = IF k.api_cases = <<>> THEN @ ELSE k.api_cases \o c.cases.ui_cases]
  BY Zenon DEF AfterPlanning
<1> HIDE DEF u
<1>5. k1 = [api_cases |-> k.api_cases, ui_cases |-> u, test_cases |-> k.test_cases]
  BY DEF AreLists
<1> HIDE DEF k1, p
<1>6. p = [api_cases |-> k.api_cases, ui_cases |-> u, test_cases |-> t]
  BY <1>4, <1>5
<1> HIDE DEF t
<1>7. AreLists(p) /\ p.api_cases = k.api_cases /\ p.ui_cases = u
  BY <1>2, <1>3, <1>6 DEF AreLists
<1> QED
  BY <1>2, <1>7 DEF p

LEMMA ReplanningGood ==
  ASSUME NEW k, AreLists(k), NEW list \in {"api_cases", "ui_cases"}, NEW made, AreCases(made),
         NEW written \in AfterReplan(k, list, made)
  PROVE  AreLists(written)
<1> DEFINE v == IF list = "ui_cases" THEN PlannedCases(made) ELSE made
           new == [k EXCEPT ![list] = v]
<1>1. AreCases(v)
  BY PlannedGood
<1>2. \/ written = [new EXCEPT !.test_cases = new.api_cases \o new.ui_cases]
      \/ written = [new EXCEPT !.test_cases = new.api_cases]
  BY Zenon DEF AfterReplan
<1> HIDE DEF v
<1>3. AreLists(new)
  <2>1. CASE list = "api_cases"
    <3>1. new = [api_cases |-> v, ui_cases |-> k.ui_cases, test_cases |-> k.test_cases]
      <4>1. new = [k EXCEPT !.api_cases = v]
        BY <2>1
      <4> HIDE DEF new
      <4> QED
        BY <4>1 DEF AreLists
    <3> HIDE DEF new
    <3> QED
      BY <1>1, <3>1 DEF AreLists
  <2>2. CASE list = "ui_cases"
    <3>1. new = [api_cases |-> k.api_cases, ui_cases |-> v, test_cases |-> k.test_cases]
      <4>1. new = [k EXCEPT !.ui_cases = v]
        BY <2>2
      <4> HIDE DEF new
      <4> QED
        BY <4>1 DEF AreLists
    <3> HIDE DEF new
    <3> QED
      BY <1>1, <3>1 DEF AreLists
  <2> QED
    BY <2>1, <2>2
<1> HIDE DEF new
<1>4. PICK t : written = [new EXCEPT !.test_cases = t] /\ AreCases(t)
  <2>1. AreCases(new.api_cases \o new.ui_cases) /\ AreCases(new.api_cases)
    BY <1>3, JoinedGood DEF AreLists
  <2> QED
    BY <1>2, <2>1
<1>5. written = [api_cases |-> new.api_cases, ui_cases |-> new.ui_cases, test_cases |-> t]
  BY <1>3, <1>4 DEF AreLists
<1> QED
  BY <1>3, <1>4, <1>5 DEF AreLists

(* Until a list is planned anew, what is written says what was there.      *)
LEMMA RewrittenGood ==
  ASSUME RunsInv, NEW run \in Live(runs), runs[run].status = "running", NEW k, AreLists(k), NEW x, NEW lists,
         x = [status |-> runs[run].status, target |-> runs[run].target, context |-> runs[run].context,
              log |-> WithCases(runs[run].log, k), suite |-> runs[run].suite, origin |-> runs[run].origin,
              began |-> runs[run].began, logged |-> runs[run].logged, replanned |-> lists],
         \/ lists # {}
         \/ /\ lists = runs[run].replanned /\ k.api_cases = runs[run].log.context.cases.api_cases
            /\ AllSeen(k.ui_cases) = AllSeen(runs[run].context.cases.ui_cases)
  PROVE  /\ GoodRun(run, x)
         /\ x.log.continuation = runs[run].log.continuation /\ x.log.from = runs[run].log.from
<1> DEFINE y == runs[run]
           new == WithCases(y.log, k)
<1>1. GoodRun(run, y) /\ y.status = "running"
  BY LiveRun
<1>2. IsContext(y.context) /\ IsLog(y.log)
  BY <1>1 DEF GoodRun, IsRun
<1>3. /\ IsLog(new) /\ ~LoggedSecrets(new.context)
      /\ new.continuation = y.log.continuation /\ new.from = y.log.from
      /\ new.context.cases.api_cases = Redacted(k.api_cases)
      /\ new.context.cases.ui_cases = Redacted(k.ui_cases)
  BY <1>2, RewrittenLog
<1>4. /\ x = [status |-> y.status, target |-> y.target, context |-> y.context, log |-> new, suite |-> y.suite,
              origin |-> y.origin, began |-> y.began, logged |-> y.logged, replanned |-> lists]
      /\ \/ lists # {}
         \/ /\ lists = y.replanned /\ k.api_cases = y.log.context.cases.api_cases
            /\ AllSeen(k.ui_cases) = AllSeen(y.context.cases.ui_cases)
  BY Zenon
<1> HIDE DEF y, new
<1>5. /\ x.status = "running" /\ x.context = y.context /\ x.log = new /\ x.suite = y.suite /\ x.origin = y.origin
      /\ x.replanned = lists
  BY <1>1, <1>4
<1>6. x.began = y.began /\ x.logged = y.logged
  BY <1>4
<1>7. IsRun(x)
  BY <1>2, <1>3, <1>4, <1>5 DEF IsRun
<1>8. Carries(x)
  <2> SUFFICES ASSUME x.suite # NoSuite PROVE Carries(x)
    BY DEF Carries
  <2>1. Carries(y) /\ y.suite # NoSuite
    BY <1>1, <1>5 DEF GoodRun
  <2>2. y.began
    BY <1>1, <2>1 DEF Carries
  <2>3. x.began
    BY <1>6, <2>2, Zenon
  <2>4. ASSUME lists = {}
        PROVE  /\ new.context.cases.api_cases = Redacted(y.context.cases.api_cases)
               /\ AllSeen(new.context.cases.ui_cases) = AllSeen(y.context.cases.ui_cases)
    <3>1. /\ k.api_cases = Redacted(y.context.cases.api_cases)
          /\ AllSeen(k.ui_cases) = AllSeen(y.context.cases.ui_cases)
      BY <1>4, <2>1, <2>2, <2>4 DEF Carries
    <3>2. Redacted(k.api_cases) = Redacted(y.context.cases.api_cases)
      BY <1>2, <3>1, CasesSafe DEF IsContext
    <3>3. AllSeen(Redacted(k.ui_cases)) = AllSeen(k.ui_cases)
      BY PlannedGood DEF AreLists
    <3> QED
      BY <1>3, <3>1, <3>2, <3>3
  <2>5. x.logged => /\ Redacted(y.context.cases.api_cases) = Redacted(CasesOf(y.suite.api))
                    /\ AllSeen(y.context.cases.ui_cases) = AllSeen(CasesOf(y.suite.ui))
    <3>1. x.logged => y.logged
      BY <1>6, Zenon
    <3> QED
      BY <2>1, <3>1 DEF Carries
  <2> QED
    BY <1>5, <2>3, <2>4, <2>5 DEF Carries
<1>9. /\ GoodRun(run, x) /\ x.log.continuation = y.log.continuation /\ x.log.from = y.log.from
  BY <1>1, <1>3, <1>5, <1>7, <1>8 DEF GoodRun
<1> QED
  BY <1>9 DEF y

LEMMA RewrittenFields ==
  ASSUME NEW y, NEW new, NEW lists, IsRun(y)
  PROVE  /\ [[y EXCEPT !.log = new] EXCEPT !.replanned = lists] =
             [status |-> y.status, target |-> y.target, context |-> y.context, log |-> new, suite |-> y.suite,
              origin |-> y.origin, began |-> y.began, logged |-> y.logged, replanned |-> lists]
         /\ [y EXCEPT !.log = new] =
             [status |-> y.status, target |-> y.target, context |-> y.context, log |-> new, suite |-> y.suite,
              origin |-> y.origin, began |-> y.began, logged |-> y.logged, replanned |-> y.replanned]
<1> DEFINE f1 == [y EXCEPT !.log = new]
<1>1. f1 = [status |-> y.status, target |-> y.target, context |-> y.context, log |-> new, suite |-> y.suite,
            origin |-> y.origin, began |-> y.began, logged |-> y.logged, replanned |-> y.replanned]
  BY DEF IsRun
<1> HIDE DEF f1
<1>2. [f1 EXCEPT !.replanned = lists] =
        [status |-> y.status, target |-> y.target, context |-> y.context, log |-> new, suite |-> y.suite,
         origin |-> y.origin, began |-> y.began, logged |-> y.logged, replanned |-> lists]
  BY <1>1
<1> QED
  BY <1>1, <1>2 DEF f1

LEMMA RewriteStep ==
  ASSUME RunsInv, LinkInv, NEW run \in Live(runs), runs[run].status = "running", NEW x,
         GoodRun(run, x), x.log.continuation = runs[run].log.continuation, x.log.from = runs[run].log.from,
         x.status = "running", x.target = runs[run].target, x.suite = runs[run].suite, x.origin = runs[run].origin,
         runs' = [runs EXCEPT ![run] = x]
  PROVE  RunsInv' /\ LinkInv' /\ Rewritten(run)
<1>1. x \notin {Free, Gone}
  BY NotEmpty DEF GoodRun
<1>2. RunsInv'
  BY Placed
<1>3. LinkInv'
  BY <1>1, LinksKept
<1>4. Rewritten(run)
  BY <1>1 DEF Rewritten
<1> QED
  BY <1>2, <1>3, <1>4

LEMMA PlanStep ==
  ASSUME RunsInv, LinkInv, NEW run, Plan(run)
  PROVE  RunsInv' /\ LinkInv' /\ Rewritten(run)
<1> DEFINE y == runs[run]
           k == AfterPlanning(y.context, Logged(run))
           new == WithCases(y.log, k)
           x == [y EXCEPT !.log = new]
<1>1. run \in Live(runs) /\ y.status = "running" /\ GoodRun(run, y) /\ run \in RunIds /\ DOMAIN runs = RunIds
  BY LiveRun DEF Plan, RunsInv
<1>2. runs' = [runs EXCEPT ![run] = x]
  BY <1>1 DEF Plan
<1>3. IsRun(y) /\ IsContext(y.context) /\ IsLog(y.log)
  BY <1>1 DEF GoodRun, IsRun
<1>4. AreLists(Logged(run)) /\ Logged(run) = y.log.context.cases
  BY <1>3 DEF IsLog, IsContext, AreLists, Logged
<1>5. /\ AreLists(k) /\ k.api_cases = y.log.context.cases.api_cases
      /\ AllSeen(k.ui_cases) = AllSeen(y.context.cases.ui_cases)
  BY <1>3, <1>4, PlanningGood
<1> HIDE DEF k, new
<1>6. x = [status |-> y.status, target |-> y.target, context |-> y.context, log |-> new, suite |-> y.suite,
           origin |-> y.origin, began |-> y.began, logged |-> y.logged, replanned |-> y.replanned]
  BY <1>3, RewrittenFields, Zenon
<1> HIDE DEF x
<1>7. GoodRun(run, x) /\ x.log.continuation = y.log.continuation /\ x.log.from = y.log.from
  BY <1>1, <1>5, <1>6, RewrittenGood, Zenon DEF new
<1>8. x.status = "running" /\ x.target = y.target /\ x.suite = y.suite /\ x.origin = y.origin
  BY <1>1, <1>6
<1> QED
  BY <1>1, <1>2, <1>7, <1>8, RewriteStep

LEMMA ReplanStep ==
  ASSUME RunsInv, LinkInv, NEW run, NEW list \in {"api_cases", "ui_cases"}, NEW made \in Generated,
         Replan(run, list, made)
  PROVE  RunsInv' /\ LinkInv' /\ Rewritten(run)
<1> DEFINE y == runs[run]
           lists == y.replanned \cup {list}
<1>1. run \in Live(runs) /\ y.status = "running" /\ GoodRun(run, y) /\ run \in RunIds /\ DOMAIN runs = RunIds
  BY LiveRun DEF Replan, RunsInv
<1>2. PICK k \in AfterReplan(Logged(run), list, made) :
        runs' = [runs EXCEPT ![run].log = WithCases(@, k), ![run].replanned = @ \cup {list}]
  BY Zenon DEF Replan
<1> DEFINE new == WithCases(y.log, k)
           x1 == [y EXCEPT !.log = new]
           x == [x1 EXCEPT !.replanned = lists]
<1>3. IsRun(y) /\ IsContext(y.context) /\ IsLog(y.log)
  BY <1>1 DEF GoodRun, IsRun
<1>4. AreLists(Logged(run))
  BY <1>3 DEF IsLog, IsContext, AreLists, Logged
<1>5. AreLists(k)
  BY <1>4, GeneratedAssumption, ReplanningGood
<1>6. x1 = [status |-> y.status, target |-> y.target, context |-> y.context, log |-> new, suite |-> y.suite,
            origin |-> y.origin, began |-> y.began, logged |-> y.logged, replanned |-> y.replanned]
  <2> HIDE DEF new, y
  <2> QED
    BY <1>3, RewrittenFields, Zenon
<1>7. x = [status |-> y.status, target |-> y.target, context |-> y.context, log |-> new, suite |-> y.suite,
           origin |-> y.origin, began |-> y.began, logged |-> y.logged, replanned |-> lists]
  <2> HIDE DEF new, lists, y
  <2> QED
    BY <1>3, RewrittenFields, Zenon
<1>8. runs' = [runs EXCEPT ![run] = x]
  <2> DEFINE f1 == [runs EXCEPT ![run] = x1]
             f2 == [f1 EXCEPT ![run] = x]
  <2>1. [runs EXCEPT ![run].log = WithCases(@, k)] = f1
    BY <1>1
  <2>2. runs' = [[runs EXCEPT ![run].log = WithCases(@, k)] EXCEPT ![run].replanned = @ \cup {list}]
    BY <1>2, Zenon
  <2>3. f1[run] = x1 /\ DOMAIN f1 = RunIds
    BY <1>1
  <2> HIDE DEF new
  <2>4. x1.replanned = y.replanned
    BY <1>6
  <2> HIDE DEF f1, x1
  <2>5. [f1 EXCEPT ![run].replanned = @ \cup {list}] = f2
    BY <2>3, <2>4
  <2>6. f2 = [runs EXCEPT ![run] = x]
    BY <1>1, <2>3 DEF f1
  <2> HIDE DEF x, f2
  <2> QED
    BY <2>1, <2>2, <2>5, <2>6
<1> HIDE DEF x
<1>9. GoodRun(run, x) /\ x.log.continuation = y.log.continuation /\ x.log.from = y.log.from
  <2>1. lists # {}
    OBVIOUS
  <2> HIDE DEF lists
  <2> QED
    BY <1>1, <1>5, <1>7, <2>1, RewrittenGood, Zenon
<1>10. x.status = "running" /\ x.target = y.target /\ x.suite = y.suite /\ x.origin = y.origin
  <2> HIDE DEF new, lists, y
  <2> QED
    BY <1>1, <1>7
<1> QED
  BY <1>1, <1>8, <1>9, <1>10, RewriteStep

LEMMA RerunStep ==
  ASSUME RunsInv, LinkInv, NEW run, Rerun(run)
  PROVE  RunsInv' /\ LinkInv'
<1> DEFINE new == NewId(runs)
           x == Again(run, RerunTarget(Context(run), runs[run].target), Context(run), NoLog)
<1>1. run \in Live(runs) /\ Unused(runs) # {} /\ runs' = [runs EXCEPT ![new] = x]
  BY DEF Rerun
<1>2. new \in Unused(runs)
  BY <1>1, NewIdUnused
<1>3. GoodRun(new, x)
  BY <1>1, RerunGood
<1>4. x.log.continuation = None
  <2>1. x.log = NoLog
    BY AgainFields
  <2>2. NoLog.continuation = None
    BY DEF NoLog
  <2> QED
    BY <2>1, <2>2
<1> HIDE DEF new, x
<1> QED
  BY <1>1, <1>2, <1>3, <1>4, Placed, LinksWithNew

LEMMA InterveneStep ==
  ASSUME RunsInv, LinkInv, NEW run, NEW text, Intervene(run, text)
  PROVE  RunsInv' /\ LinkInv'
<1> DEFINE new == NewId(runs)
           c == Supplemented(Context(run), text)
           l == Seeded(c, run)
           target == ContinuationTarget(c, runs[run].target)
           x == Again(run, target, c, l)
           d == Continued(runs[run], new)
<1>1. run \in Live(runs) /\ Unused(runs) # {} /\ runs' = [runs EXCEPT ![run] = d, ![new] = x]
  BY DEF Intervene
<1>2. new \in Unused(runs)
  BY <1>1, NewIdUnused
<1>3. GoodRun(run, d)
  BY <1>1, ContinuedGood
<1>4. GoodRun(new, x)
  BY <1>1, HelpedGood
<1>5. /\ d.log.continuation = new /\ d.log.from = runs[run].log.from /\ d.origin = runs[run].origin
  <2>1. IsRun(runs[run])
    BY <1>1, LiveRun DEF GoodRun
  <2> QED
    BY <2>1, ContinuedFields
<1>6. x.log = l /\ x.origin = run
  BY AgainFields
<1>7. l.from = run /\ l.continuation = None
  <2>1. IsContext(c)
    BY <1>1, ContextGood, SupplementedSafe
  <2> HIDE DEF c
  <2> QED
    BY <2>1, SeededSafe
<1> HIDE DEF new, x, d, l
<1>8. RunsInv'
  BY <1>1, <1>3, <1>4, BothPlaced
<1>9. LinkInv'
  BY <1>1, <1>2, <1>3, <1>4, <1>5, <1>6, <1>7, LinksWithContinuation DEF GoodRun
<1> QED
  BY <1>8, <1>9

LEMMA DeleteRunStep ==
  ASSUME RunsInv, LinkInv, NEW run, DeleteRun(run)
  PROVE  RunsInv' /\ LinkInv'
<1>1. run \in Live(runs) /\ runs' = [runs EXCEPT ![run] = Gone]
  BY DEF DeleteRun
<1>2. RunsInv'
  BY <1>1 DEF RunsInv
<1>3. LinkInv'
  BY <1>1, FreeIsNotGone, LinksKept
<1> QED
  BY <1>2, <1>3

LEMMA RunSuiteStep ==
  ASSUME RunsInv, LinkInv, ReqInv, NEW c \in Clients, RunSuite(c)
  PROVE  RunsInv' /\ LinkInv'
<1>1. CASE UNCHANGED runs
  BY <1>1 DEF RunsInv, LinkInv, Live
<1>2. CASE Unused(runs) # {} /\ runs' = [runs EXCEPT ![NewId(runs)] = SuiteRun(req[c])]
  <2> DEFINE new == NewId(runs)
             x == SuiteRun(req[c])
  <2>1. PayloadsGood(req[c].api) /\ PayloadsGood(req[c].ui)
    BY DEF ReqInv, RunSuite
  <2>2. GoodRun(new, x) /\ x.log.continuation = None
    BY <2>1, SuiteRunGood
  <2>3. new \in Unused(runs)
    BY <1>2, NewIdUnused
  <2>4. runs' = [runs EXCEPT ![new] = x]
    BY <1>2
  <2> HIDE DEF new, x
  <2> QED
    BY <2>2, <2>3, <2>4, Placed, LinksWithNew
<1> QED
  BY <1>1, <1>2 DEF RunSuite

(* Rows of cases.                                                          *)
LEMMA SaveStep ==
  ASSUME RunsInv, CasesInv, NEW run, NEW accepted \in Accepted, Save(run, accepted)
  PROVE  CasesInv'
<1> DEFINE ids == NewIds(cases, Len(accepted))
           At(id) == {i \in DOMAIN accepted : ids[i] = id}
           row(i) == AcceptedRow(run, accepted[i])
<1>1. run \in Live(runs) /\ Valid(run, accepted)
  BY DEF Save
<1>2. cases' = [id \in CaseIds |-> IF At(id) = {} THEN cases[id]
                                   ELSE row(CHOOSE i \in At(id) : TRUE)]
  BY DEF Save
<1>3. ASSUME NEW i \in DOMAIN accepted
      PROVE  IsData(row(i).data) /\ DataIsSafe(row(i).data)
  <2> DEFINE sel == accepted[i]
             cs == runs[run].log.context.cases
             x == cs[sel.source][sel.index]
  <2>1. sel.index \in DOMAIN cs[sel.source]
    BY <1>1 DEF Valid, InLog
  <2>2. /\ sel.source \in {"api_cases", "ui_cases", "test_cases"}
        /\ "request" \in DOMAIN sel.edit => IsTemplate(sel.edit.request)
        /\ "commands" \in DOMAIN sel.edit => AreCommands(sel.edit.commands)
        /\ "actions" \in DOMAIN sel.edit => AreActions(sel.edit.actions)
        /\ "data" \in DOMAIN sel.edit => IsData(sel.edit.data)
    BY AcceptedAssumption, Zenon
  <2>3. IsContext(runs[run].log.context)
    BY <1>1, LiveRun DEF GoodRun, IsRun, IsLog
  <2>4. AreCases(cs[sel.source])
    BY <2>2, <2>3 DEF IsContext
  <2>5. IsCase(x)
    BY <2>1, <2>4, ListDomain DEF AreCases
  <2>6. IsCase(Merged(x, sel.edit))
    BY <2>2, <2>5, MergedGood
  <2>7. row(i) = SavedRow(Merged(x, sel.edit), sel.source, run, runs[run].target)
    BY DEF AcceptedRow
  <2> HIDE DEF x, sel, row
  <2> QED
    BY <2>6, <2>7, SavedSafe
<1> HIDE DEF row
<1>4. ASSUME NEW id \in Live(cases')
      PROVE  IsData(cases'[id].data) /\ (cases'[id].run # None => DataIsSafe(cases'[id].data))
  <2>1. id \in CaseIds
    BY <1>2 DEF Live
  <2>2. CASE At(id) = {}
    BY <1>2, <2>1, <2>2 DEF Live, CasesInv
  <2>3. CASE At(id) # {}
    <3>1. (CHOOSE i \in At(id) : TRUE) \in DOMAIN accepted
      BY <2>3
    <3> QED
      BY <1>2, <1>3, <2>1, <2>3, <3>1
  <2> QED
    BY <2>2, <2>3
<1>5. DOMAIN cases' = CaseIds
  BY <1>2
<1> QED
  BY <1>4, <1>5 DEF CasesInv

(* A row that a user writes says that it comes from no run.                *)
LEMMA UserRowStep ==
  ASSUME CasesInv, NEW id, NEW row \in UserRows, cases' = [cases EXCEPT ![id] = row]
  PROVE  CasesInv'
<1>1. row.run = None /\ IsData(row.data)
  BY RowsAssumption
<1> QED
  BY <1>1 DEF CasesInv, Live

LEMMA CasesKept == ASSUME CasesInv, UNCHANGED cases PROVE CasesInv'
BY DEF CasesInv, Live

LEMMA DeletedStep ==
  ASSUME CasesInv, NEW id, cases' = [cases EXCEPT ![id] = Gone]
  PROVE  CasesInv'
BY DEF CasesInv, Live

(* What a request has read.                                                *)
LEMMA ReqKept == ASSUME ReqInv, UNCHANGED req PROVE ReqInv'
BY DEF ReqInv

LEMMA ReqOther ==
  ASSUME ReqInv, NEW c \in Clients, NEW q, q.op # "run", req' = [req EXCEPT ![c] = q]
  PROVE  ReqInv'
BY DEF ReqInv

LEMMA ReqRead ==
  ASSUME ReqInv, NEW c \in Clients, NEW asked, NEW at, NEW read, NEW api, NEW ui,
         PayloadsGood(api), PayloadsGood(ui),
         req' = [req EXCEPT ![c] = [op |-> "run", asked |-> asked, at |-> at, read |-> read, api |-> api, ui |-> ui]]
  PROVE  ReqInv'
<1> DEFINE q == [op |-> "run", asked |-> asked, at |-> at, read |-> read, api |-> api, ui |-> ui]
<1>1. /\ q = [op |-> "run", asked |-> q.asked, at |-> q.at, read |-> q.read, api |-> q.api, ui |-> q.ui]
      /\ PayloadsGood(q.api) /\ PayloadsGood(q.ui)
  OBVIOUS
<1>2. req' = [req EXCEPT ![c] = q]
  OBVIOUS
<1> HIDE DEF q
<1>3. DOMAIN req' = Clients /\ req'[c] = q /\ \A e \in Clients : e # c => req'[e] = req[e]
  BY <1>2 DEF ReqInv
<1> QED
  BY <1>1, <1>3 DEF ReqInv

LEMMA AppendGood ==
  ASSUME NEW ps, NEW p, PayloadsGood(ps), IsCase(p.case)
  PROVE  PayloadsGood(Append(ps, p))
<1> DEFINE a == Append(ps, p)
<1>1. /\ IsList(a) /\ Len(a) = Len(ps) + 1
      /\ \A i \in 1 .. Len(ps) + 1 : a[i] = IF i <= Len(ps) THEN ps[i] ELSE p
  BY AppendList DEF PayloadsGood
<1>2. Len(ps) \in Nat
  BY DEF PayloadsGood, IsList
<1> HIDE DEF a
<1>3. ASSUME NEW i \in 1 .. Len(a) PROVE IsCase(a[i].case)
  <2>1. CASE i <= Len(ps)
    <3>1. i \in 1 .. Len(ps) /\ a[i] = ps[i]
      BY <1>1, <1>2, <2>1
    <3> QED
      BY <3>1 DEF PayloadsGood
  <2>2. CASE ~(i <= Len(ps))
    <3>1. a[i] = p
      BY <1>1, <1>2, <2>2
    <3> QED
      BY <3>1
  <2> QED
    BY <2>1, <2>2
<1> QED
  BY <1>1, <1>3 DEF PayloadsGood, a

(* A row goes to one of the two lists.                                     *)
LEMMA SortedFields ==
  ASSUME NEW r, NEW p, r = [op |-> "run", asked |-> r.asked, at |-> r.at, read |-> r.read, api |-> r.api, ui |-> r.ui],
         PayloadsGood(r.api), PayloadsGood(r.ui), IsCase(p.case)
  PROVE  \E api, ui :
           /\ PayloadsGood(api) /\ PayloadsGood(ui)
           /\ (api = Append(r.api, p) /\ ui = r.ui) \/ (api = r.api /\ ui = Append(r.ui, p))
           /\ Sorted([r EXCEPT !.at = r.at + 1, !.read = Append(r.read, p)], p)
                = [op |-> "run", asked |-> r.asked, at |-> r.at + 1, read |-> Append(r.read, p), api |-> api, ui |-> ui]
<1> DEFINE at == r.at + 1
           read == Append(r.read, p)
           api == Append(r.api, p)
           ui == Append(r.ui, p)
           f1 == [r EXCEPT !.at = at]
           f2 == [f1 EXCEPT !.read = read]
<1>1. PayloadsGood(api) /\ PayloadsGood(ui)
  BY AppendGood
<1> HIDE DEF at, read
<1>2. f1 = [op |-> "run", asked |-> r.asked, at |-> at, read |-> r.read, api |-> r.api, ui |-> r.ui]
  OBVIOUS
<1> HIDE DEF f1
<1>3. f2 = [op |-> "run", asked |-> r.asked, at |-> at, read |-> read, api |-> r.api, ui |-> r.ui]
  BY <1>2
<1>4. f2 = [r EXCEPT !.at = r.at + 1, !.read = Append(r.read, p)]
  BY Zenon DEF f1, at, read
<1> HIDE DEF f2
<1>5. f2.api = r.api /\ f2.ui = r.ui
  BY <1>3
<1>6. CASE p.case.type = "api"
  <2>1. Sorted(f2, p) = [f2 EXCEPT !.api = api]
    BY <1>5, <1>6 DEF Sorted
  <2> HIDE DEF api, ui
  <2>2. [f2 EXCEPT !.api = api] = [op |-> "run", asked |-> r.asked, at |-> at, read |-> read, api |-> api, ui |-> r.ui]
    BY <1>3
  <2> QED
    BY <1>1, <1>4, <2>1, <2>2, Zenon DEF at, read, api
<1>7. CASE p.case.type # "api"
  <2>1. Sorted(f2, p) = [f2 EXCEPT !.ui = ui]
    BY <1>5, <1>7 DEF Sorted
  <2> HIDE DEF api, ui
  <2>2. [f2 EXCEPT !.ui = ui] = [op |-> "run", asked |-> r.asked, at |-> at, read |-> read, api |-> r.api, ui |-> ui]
    BY <1>3
  <2> QED
    BY <1>1, <1>4, <2>1, <2>2, Zenon DEF at, read, ui
<1> QED
  BY <1>6, <1>7

LEMMA ReadCaseStep ==
  ASSUME CasesInv, ReqInv, NEW c \in Clients, ReadCase(c)
  PROVE  ReqInv'
<1> DEFINE r == req[c]
           id == r.asked[r.at]
           p == Payload(r.asked[r.at], cases[r.asked[r.at]])
           next == Sorted([r EXCEPT !.at = r.at + 1, !.read = Append(r.read, p)], p)
           gap == [r EXCEPT !.at = AfterMissing(r)]
<1>1. /\ r = [op |-> "run", asked |-> r.asked, at |-> r.at, read |-> r.read, api |-> r.api, ui |-> r.ui]
      /\ PayloadsGood(r.api) /\ PayloadsGood(r.ui)
  BY DEF ReqInv, ReadCase
<1>2. req' = [req EXCEPT ![c] = IF id \in Live(cases) THEN next ELSE gap]
  BY Zenon DEF ReadCase
<1>3. CASE id \in Live(cases)
  <2>1. IsCase(p.case)
    BY <1>3, PayloadGood DEF CasesInv
  <2> HIDE DEF p
  <2>2. PICK api, ui :
          /\ PayloadsGood(api) /\ PayloadsGood(ui)
          /\ (api = Append(r.api, p) /\ ui = r.ui) \/ (api = r.api /\ ui = Append(r.ui, p))
          /\ next = [op |-> "run", asked |-> r.asked, at |-> r.at + 1, read |-> Append(r.read, p), api |-> api, ui |-> ui]
    BY <1>1, <2>1, SortedFields, Zenon
  <2> HIDE DEF next, gap, id, r
  <2>3. req' = [req EXCEPT ![c] = next]
    BY <1>2, <1>3
  <2> QED
    BY <2>2, <2>3, ReqRead
<1>4. CASE id \notin Live(cases)
  <2> DEFINE at == AfterMissing(r)
  <2>1. req' = [req EXCEPT ![c] = gap]
    BY <1>2, <1>4, Zenon
  <2> HIDE DEF at, r, next
  <2>2. [r EXCEPT !.at = at] = [op |-> "run", asked |-> r.asked, at |-> at, read |-> r.read, api |-> r.api, ui |-> r.ui]
    BY <1>1
  <2>3. gap = [op |-> "run", asked |-> r.asked, at |-> at, read |-> r.read, api |-> r.api, ui |-> r.ui]
    BY <2>2 DEF at
  <2> HIDE DEF gap
  <2>4. req' = [req EXCEPT ![c] = [op |-> "run", asked |-> r.asked, at |-> at, read |-> r.read, api |-> r.api, ui |-> r.ui]]
    BY <2>1, <2>3
  <2> QED
    BY <1>1, <2>4, ReqRead
<1> QED
  BY <1>3, <1>4

LEMMA ReadSuiteStep ==
  ASSUME ReqInv, NEW c \in Clients, NEW s, ReadSuite(c, s)
  PROVE  ReqInv'
<1>1. PayloadsGood(<<>>)
  BY NothingGood DEF PayloadsGood
<1>2. req' = [req EXCEPT ![c] = [op |-> "run", asked |-> suites[s].ids, at |-> 1, read |-> <<>>, api |-> <<>>, ui |-> <<>>]]
  BY DEF ReadSuite
<1> QED
  BY <1>1, <1>2, ReqRead

-----------------------------------------------------------------------------
(* Every step keeps the invariant: which rows it may touch, action by       *)
(* action.                                                                 *)

LEMMA RunsKept ==
  ASSUME RunsInv, LinkInv, UNCHANGED runs
  PROVE  RunsInv' /\ LinkInv'
BY DEF RunsInv, LinkInv, Live, GoodRun, Clean, Carries

LEMMA CommitStep ==
  ASSUME IInv, NEW c \in Clients, CommitDelete(c)
  PROVE  IInv'
<1> USE DEF IInv
<1>1. RunsInv' /\ LinkInv'
  BY RunsKept DEF CommitDelete
<1>2. CasesInv'
  <2>1. (\E id : cases' = [cases EXCEPT ![id] = Gone]) \/ UNCHANGED cases
    BY DEF CommitDelete
  <2> QED
    BY <2>1, CasesKept, DeletedStep
<1>3. ReqInv'
  <2>1. Idle.op # "run"
    BY DEF Idle
  <2>2. req' = [req EXCEPT ![c] = Idle]
    BY DEF CommitDelete
  <2> QED
    BY <2>1, <2>2, ReqOther
<1> QED
  BY <1>1, <1>2, <1>3

LEMMA RunSuiteKeeps ==
  ASSUME IInv, NEW c \in Clients, RunSuite(c)
  PROVE  IInv'
<1> USE DEF IInv
<1>1. RunsInv' /\ LinkInv'
  BY RunSuiteStep
<1>2. CasesInv'
  BY CasesKept DEF RunSuite
<1>3. Idle.op # "run"
  BY DEF Idle
<1>4. ReqInv'
  <2>1. req' = [req EXCEPT ![c] = Idle]
    BY DEF RunSuite
  <2> QED
    BY <1>3, <2>1, ReqOther
<1> QED
  BY <1>1, <1>2, <1>4

LEMMA ReadSuitesKeeps ==
  ASSUME IInv, NEW c \in Clients, NEW id, ReadSuites(c, id)
  PROVE  IInv'
<1> USE DEF IInv
<1>1. RunsInv' /\ LinkInv' /\ CasesInv'
  BY RunsKept, CasesKept DEF ReadSuites
<1>2. ReqInv'
  <2> DEFINE q == [op |-> "delete", id |-> id, pruned |-> [s \in Naming(id) |-> Pruned(suites[s].ids, id)]]
  <2>1. q.op # "run"
    OBVIOUS
  <2>2. req' = [req EXCEPT ![c] = q]
    BY DEF ReadSuites
  <2> HIDE DEF q
  <2> QED
    BY <2>1, <2>2, ReqOther
<1> QED
  BY <1>1, <1>2

LEMMA InvariantKept == IInv /\ [Next]_vars => IInv'
<1> SUFFICES ASSUME IInv, [Next]_vars PROVE IInv'
  OBVIOUS
<1> USE DEF IInv
<1>1. ASSUME NEW run \in RunIds, DeleteRun(run) PROVE IInv'
  BY <1>1, DeleteRunStep, CasesKept, ReqKept DEF DeleteRun
<1>2. ASSUME NEW run \in RunIds, Rerun(run) PROVE IInv'
  BY <1>2, RerunStep, CasesKept, ReqKept DEF Rerun
<1>3. ASSUME NEW run \in RunIds, StartRun(run) PROVE IInv'
  <2>1. UNCHANGED <<cases, req>>
    BY <1>3, Zenon DEF StartRun
  <2> QED
    BY <1>3, <2>1, StartStep, CasesKept, ReqKept
<1>4. ASSUME NEW run \in RunIds, NEW accepted \in Accepted, Save(run, accepted) PROVE IInv'
  BY <1>4, SaveStep, RunsKept, ReqKept DEF Save
<1>5. ASSUME NEW run \in RunIds, NEW text \in Texts, Intervene(run, text) PROVE IInv'
  BY <1>5, InterveneStep, CasesKept, ReqKept DEF Intervene
<1>6. ASSUME NEW row \in UserRows, CreateCase(row) PROVE IInv'
  BY <1>6, UserRowStep, RunsKept, ReqKept DEF CreateCase
<1>7. ASSUME NEW row \in UserRows, NEW id \in CaseIds, UpdateCase(id, row) PROVE IInv'
  BY <1>7, UserRowStep, RunsKept, ReqKept DEF UpdateCase
<1>8. ASSUME UNCHANGED <<runs, cases, req>> PROVE IInv'
  BY <1>8, RunsKept, CasesKept, ReqKept
<1>9. ASSUME NEW ids, CreateSuite(ids) PROVE IInv'
  BY <1>9, <1>8 DEF CreateSuite
<1>10. ASSUME NEW ids, NEW s, UpdateSuite(s, ids) PROVE IInv'
  BY <1>10, <1>8 DEF UpdateSuite
<1>11. ASSUME NEW s, DeleteSuite(s) PROVE IInv'
  BY <1>11, <1>8 DEF DeleteSuite
<1>12. ASSUME NEW c \in Clients, NEW id \in CaseIds, ReadSuites(c, id) PROVE IInv'
  BY <1>12, ReadSuitesKeeps
<1>13. ASSUME NEW c \in Clients, NEW s \in SuiteIds, ReadSuite(c, s) PROVE IInv'
  BY <1>13, ReadSuiteStep, RunsKept, CasesKept DEF ReadSuite
<1>14. ASSUME NEW c \in Clients, CommitDelete(c) PROVE IInv'
  BY <1>14, CommitStep
<1>15. ASSUME NEW c \in Clients, ReadCase(c) PROVE IInv'
  <2>1. UNCHANGED <<runs, cases>>
    BY <1>15, Zenon DEF ReadCase
  <2> QED
    BY <1>15, <2>1, ReadCaseStep, RunsKept, CasesKept
<1>16. ASSUME NEW c \in Clients, RunSuite(c) PROVE IInv'
  BY <1>16, RunSuiteKeeps
<1>17. ASSUME NEW run \in RunIds, Plan(run) PROVE IInv'
  <2>1. UNCHANGED <<cases, req>>
    BY <1>17, Zenon DEF Plan
  <2> QED
    BY <1>17, <2>1, PlanStep, CasesKept, ReqKept
<1>18. ASSUME NEW run \in RunIds, NEW list \in {"api_cases", "ui_cases"}, NEW made \in Generated,
              Replan(run, list, made)
       PROVE  IInv'
  <2>1. UNCHANGED <<cases, req>>
    BY <1>18, Zenon DEF Replan
  <2> QED
    BY <1>18, <2>1, ReplanStep, CasesKept, ReqKept
<1>19. CASE UNCHANGED vars
  BY <1>19, <1>8 DEF vars
<1> HIDE DEF IInv
<1> QED
  BY <1>1, <1>2, <1>3, <1>4, <1>5, <1>6, <1>7, <1>9, <1>10, <1>11, <1>12, <1>13, <1>14, <1>15, <1>16, <1>17, <1>18,
     <1>19 DEF Next

LEMMA Invariance == Spec => []IInv
<1>1. Init => IInv
  BY InitHolds
<1>2. IInv /\ [Next]_vars => IInv'
  BY InvariantKept
<1> QED
  BY <1>1, <1>2, PTL DEF Spec


-----------------------------------------------------------------------------
(* What the invariant says of the properties.                              *)

LEMMA SecretsLemma == IInv => SecretsStay
<1> SUFFICES ASSUME IInv PROVE SecretsStay
  OBVIOUS
<1>1. ASSUME NEW r \in Live(runs) PROVE GoodRun(r, runs[r])
  BY DEF IInv, RunsInv, Live
<1>2. SavedIsSafe
  BY DEF IInv, CasesInv, SavedIsSafe, DataIsSafe
<1>3. LogsAreSafe
  BY <1>1 DEF LogsAreSafe, GoodRun
<1>4. NoSecretReplayed
  BY <1>1 DEF NoSecretReplayed, GoodRun, Clean
<1> QED
  BY <1>2, <1>3, <1>4 DEF SecretsStay

LEMMA SuccessorsLemma == IInv => SuccessorsRunTheCases
<1> SUFFICES ASSUME IInv PROVE SuccessorsRunTheCases
  OBVIOUS
<1>1. ASSUME NEW r \in Live(runs) PROVE GoodRun(r, runs[r]) /\ r \in RunIds
  BY DEF IInv, RunsInv, Live
<1>2. CasesCarryOver
  BY <1>1 DEF CasesCarryOver, GoodRun, Carries
<1>3. ContinuationsAreLinked
  <2>1. ASSUME NEW r \in Live(runs), runs[r].log.continuation \in Live(runs)
        PROVE  runs[r].log.continuation # None
    BY <1>1, <2>1, IdsAssumption
  <2> QED
    BY <1>1, <2>1 DEF ContinuationsAreLinked, IInv, LinkInv, GoodRun
<1> QED
  BY <1>2, <1>3 DEF SuccessorsRunTheCases

(* Whatever an old log, a selection, an edit or a planned case holds, no    *)
(* row saved from a run keeps a secret in a place or form that redaction    *)
(* knows, no log that this code began has what a user was asked for or      *)
(* typed in such a form, and no run made from another is sent a sensitive   *)
(* header (_saved_case_values, redact_execution_context,                    *)
(* sanitize_rerun_headers).                                                *)
THEOREM NoSecretLeaks == Spec => []SecretsStay
BY Invariance, SecretsLemma, PTL

(* However often a suite's run is run again or helped, the new run is sent  *)
(* the suite's cases as the planner writes them and without what was        *)
(* redacted, if the workers of the runs before it had begun and had planned *)
(* nothing anew, and the two logs name each other to the end                *)
(* (_build_rerun_context, create_run_intervention).                         *)
THEOREM SuccessorsCarryOn == Spec => []SuccessorsRunTheCases
BY Invariance, SuccessorsLemma, PTL

-----------------------------------------------------------------------------
(* What a suite's run is made of: the second invariant.                    *)

(* A set of numbers has a least one, which is where a search ends.         *)
LEMMA LeastOne ==
  ASSUME NEW I, I \subseteq Nat, I # {}
  PROVE  Min(I) \in I /\ \A j \in I : Min(I) <= j
<1>1. IsWellFoundedOn(OpToRel(<, Nat), Nat)
  BY NatLessThanWellFounded, Zenon
<1>2. \A i, j \in Nat : i < j => << i, j >> \in OpToRel(<, Nat)
  BY Zenon DEF OpToRel
<1>3. \E x \in I : \A y \in I : ~(<< y, x >> \in OpToRel(<, Nat))
  BY <1>1, WFMin, Zenon
<1>4. PICK x \in I : \A y \in I : ~(y < x)
  BY <1>2, <1>3, Zenon
<1>5. \A y \in I : x <= y
  BY <1>4
<1> QED
  BY <1>5, Zenon DEF Min

LEMMA FirstIn ==
  ASSUME NEW n \in Nat, NEW I \in SUBSET (1 .. n), NEW at, at = IF I # {} THEN Min(I) ELSE 0
  PROVE  /\ at # 0 => at \in I
         /\ at = 0 => I = {}
<1>1. I \subseteq Nat /\ 0 \notin I
  OBVIOUS
<1>2. CASE I = {}
  BY <1>2
<1>3. CASE I # {}
  BY <1>1, <1>3, LeastOne
<1> QED
  BY <1>2, <1>3

(* What is picked from a list is in it.                                    *)
LEMMA PickedFrom ==
  ASSUME NEW s, IsList(s), NEW I \in SUBSET (1 .. Len(s))
  PROVE  /\ IsList(Picked(s, I))
         /\ \A k \in 1 .. Len(Picked(s, I)) : \E i \in 1 .. Len(s) : Picked(s, I)[k] = s[i]
<1> DEFINE n == Cardinality(I)
           Upto(i) == {j \in I : j <= i}
           Rank(i) == Cardinality(Upto(i))
           rank == [i \in I |-> Rank(i)]
           at == [k \in 1 .. n |-> CHOOSE i \in I : Rank(i) = k]
<1>1. I \subseteq Nat /\ IsFiniteSet(I) /\ n \in Nat
  <2>1. IsFiniteSet(1 .. Len(s)) /\ Len(s) \in Nat
    BY FS_Interval DEF IsList
  <2>2. IsFiniteSet(I)
    BY <2>1, FS_Subset
  <2> QED
    BY <2>1, <2>2, FS_CardinalityType
<1>2. \A i \in I : IsFiniteSet(Upto(i)) /\ Rank(i) \in Nat /\ Rank(i) \in 1 .. n
  <2>1. ASSUME NEW i \in I
        PROVE  IsFiniteSet(Upto(i)) /\ Rank(i) \in Nat /\ Rank(i) \in 1 .. n
    <3>1. IsFiniteSet(Upto(i)) /\ Rank(i) <= n /\ Rank(i) \in Nat
      BY <1>1, FS_Subset, FS_CardinalityType
    <3>2. Upto(i) # {}
      BY <1>1
    <3>3. Rank(i) # 0
      BY <3>1, <3>2, FS_EmptySet
    <3> QED
      BY <1>1, <3>1, <3>3
  <2> QED
    BY <2>1
<1> HIDE DEF Rank
<1>3. \A i, j \in I : i < j => Rank(i) < Rank(j)
  <2> SUFFICES ASSUME NEW i \in I, NEW j \in I, i < j
               PROVE  Rank(i) < Rank(j)
    OBVIOUS
  <2>1. Upto(i) \cup {j} \subseteq Upto(j) /\ j \notin Upto(i)
    <3>1. i \in Nat /\ j \in Nat /\ \A x \in I : x \in Nat
      BY <1>1
    <3>2. (\A x \in I : x <= i => x <= j) /\ j <= j /\ ~(j <= i)
      BY <3>1
    <3> QED
      BY <3>2, Zenon
  <2>2. Cardinality(Upto(i) \cup {j}) = Rank(i) + 1
    BY <1>2, <2>1, FS_AddElement DEF Rank
  <2>3. Cardinality(Upto(i) \cup {j}) <= Rank(j)
    BY <1>2, <2>1, FS_Subset DEF Rank
  <2>4. Rank(i) \in Nat /\ Rank(j) \in Nat
    BY <1>1, <1>2
  <2> QED
    BY <2>2, <2>3, <2>4
<1>4. \A k \in 1 .. n : \E i \in I : Rank(i) = k
  <2>1. rank \in [I -> 1 .. n]
    BY <1>2
  <2>2. \A i, j \in I : rank[i] = rank[j] => i = j
    <3>1. ASSUME NEW i \in I, NEW j \in I, Rank(i) = Rank(j) PROVE i = j
      <4>1. Rank(i) \in Nat
        BY <1>2
      <4>2. ~(i < j) /\ ~(j < i)
        BY <1>3, <3>1, <4>1
      <4> QED
        BY <1>1, <4>2
    <3> QED
      BY <3>1
  <2>3. rank \in Injection(I, 1 .. n)
    BY <2>1, <2>2 DEF Injection, IsInjective
  <2>4. IsFiniteSet(1 .. n) /\ Cardinality(1 .. n) = n
    BY <1>1, FS_Interval
  <2>5. rank \in Surjection(I, 1 .. n)
    BY <2>3, <2>4, FS_Injection
  <2> QED
    BY <2>5 DEF Surjection
<1>5. \A k \in 1 .. n : at[k] \in I
  BY <1>4
<1> DEFINE f == [k \in 1 .. n |-> s[at[k]]]
<1>6. Picked(s, I) = f
  BY DEF Picked, Rank
<1> HIDE DEF at, n
<1>7. f = [k \in 1 .. n |-> f[k]] /\ \A k \in 1 .. n : f[k] = s[at[k]]
  OBVIOUS
<1> HIDE DEF f
<1>8. IsList(f) /\ Len(f) = n
  BY <1>1, <1>7, ListOf
<1> QED
  BY <1>5, <1>6, <1>7, <1>8

(* The kind of a case is one of two.                                       *)
LEMMA KindIsOne ==
  ASSUME NEW x
  PROVE  /\ Kind(x) \in {"api", "ui"}
         /\ x.type = None /\ x.category # "ui" /\ Template(x) # NoTemplate => Kind(x) = "api"
<1> DEFINE labels == <<x.type, x.category>>
           I == {i \in 1 .. Len(labels) : labels[i] \in Explicit}
           given == SelectInSeq(labels, LAMBDA l : l \in Explicit)
           known == SelectInSeq(labels, LAMBDA l : l \in UiLabels \cup ApiLabels)
<1>1. given = IF I # {} THEN Min(I) ELSE 0
  BY DEF SelectInSeq
<1>2. Len(labels) \in Nat /\ Len(labels) = 2 /\ labels[1] = x.type /\ labels[2] = x.category
  OBVIOUS
<1>3. Kind(x) = CASE given # 0 -> labels[given]
                  [] given = 0 /\ Template(x) # NoTemplate -> "api"
                  [] given = 0 /\ Template(x) = NoTemplate /\ Some(Commands(x)) -> "ui"
                  [] OTHER -> IF known # 0 /\ labels[known] \in ApiLabels THEN "api" ELSE "ui"
  BY Zenon DEF Kind
<1> HIDE DEF known, labels
<1>4. (given # 0 => given \in I) /\ (given = 0 => I = {})
  BY <1>1, <1>2, FirstIn
<1> HIDE DEF given
<1>5. given # 0 => labels[given] \in {"api", "ui"} /\ given \in {1, 2}
  BY <1>2, <1>4 DEF Explicit
<1>6. Kind(x) \in {"api", "ui"}
  BY <1>3, <1>5
<1>7. ASSUME x.type = None, x.category # "ui", Template(x) # NoTemplate PROVE Kind(x) = "api"
  <2>1. None \notin {"api", "ui"}
    BY Zenon DEF None
  <2> QED
    BY <1>2, <1>3, <1>5, <1>7, <2>1
<1> QED
  BY <1>6, <1>7

(* A request that is saved with the address of a run that has one can be    *)
(* sent.                                                                   *)
LEMMA SavedSendable ==
  ASSUME NEW x, NEW source, NEW run, NEW target
  PROVE  LET row == SavedRow(x, source, run, target)
             t == row.data.request
         IN  /\ row.kind \in Kinds
             /\ Absolute(target) /\ t.url # None => Absolute(t.url) \/ t.base # None
             /\ row.run = run /\ \E category, data, kind : row = Row(category, data, run, kind)
<1> DEFINE kind == AssetKind(source, x)
           category == IF x.category # None THEN x.category ELSE IF x.type # None THEN x.type ELSE kind
           data == SafeData(x, kind, target)
<1>1. SavedRow(x, source, run, target) = Row(category, data, run, kind)
  BY DEF SavedRow
<1> HIDE DEF category, data, kind
<1>2. Row(category, data, run, kind).run = run
  BY DEF Row
<1> DEFINE row == SavedRow(x, source, run, target)
           u == Template(x)
           t == SafeTemplate(u, target)
<1>3. row.kind = AssetKind(source, x) /\ row.data.request = t
  BY DEF SavedRow, Row, SafeData
<1>4. AssetKind(source, x) \in Kinds
  BY KindIsOne DEF AssetKind, Kinds
<1>5. t.url = RedactedUrl(u.url) /\ t.base = IF u.base = None /\ NeedsBase(u) THEN BaseUrl(target) ELSE RedactedUrl(u.base)
  BY DEF SafeTemplate
<1> HIDE DEF row, t, u
<1>6. ASSUME Absolute(target), t.url # None, ~Absolute(t.url) PROVE t.base # None
  <2>1. NeedsBase(u)
    BY <1>5, <1>6 DEF NeedsBase, RedactedUrl, Absolute
  <2>2. BaseUrl(target) = "http"
    BY <1>6 DEF BaseUrl
  <2>3. "http" # None /\ "http?hidden" # None
    BY Zenon DEF None
  <2> QED
    BY <1>5, <2>1, <2>2, <2>3 DEF RedactedUrl
<1> QED
  BY <1>1, <1>2, <1>3, <1>4, <1>6 DEF row, t

(* What of the first address that a suite's cases come from.               *)
Reaches(rs, run) == run \in Live(rs) /\ Absolute(rs[run].target)
Sendable(rs, run, t) == Reaches(rs, run) /\ t.url # None => Absolute(t.url) \/ t.base # None
Known(rs, run) == run # None => run \in DOMAIN rs /\ rs[run] # Free

(* A saved row, and a payload that was made of one.                        *)
RowRight(rs, row) ==
  /\ row.kind \in Kinds /\ Known(rs, row.run)
  /\ row.run # None => Sendable(rs, row.run, row.data.request)
PayRight(rs, p) ==
  /\ Known(rs, p.run)
  /\ SavedApi(p) => p.case.type = "api" /\ Sendable(rs, p.run, p.case.request)

(* What is made of a saved row is an API case that can be sent, if the row  *)
(* is one.                                                                 *)
LEMMA PayloadRight ==
  ASSUME NEW rs, NEW id, NEW row, RowRight(rs, row), IsData(row.data)
  PROVE  PayRight(rs, Payload(id, row)) /\ Payload(id, row).id = id
<1> DEFINE x == Loaded(row)
           y == [x EXCEPT !.type = Kind(x), !.request = Template(x), !.commands = Commands(x)]
           p == Payload(id, row)
<1>1. /\ IsCase(x) /\ x.data = row.data
      /\ x.type = None /\ x.request = NoTemplate /\ x.url = None /\ x.base = None
  BY LoadedGood
<1>2. p.id = id /\ p.run = row.run /\ p.case = y
  BY DEF Payload
<1> HIDE DEF x, p
<1>3. y = [type |-> Kind(x), category |-> x.category, request |-> Template(x), url |-> x.url, target |-> x.target,
           base |-> x.base, commands |-> Commands(x), actions |-> x.actions,
            data |-> x.data]
  BY <1>1, PayloadCase, Zenon
<1> HIDE DEF y
<1>4. y.type = Kind(x) /\ y.category = x.category /\ y.request = Template(x) /\ y.data = row.data
  BY <1>1, <1>3
<1>5. FromMapping(x) = NoTemplate
  <2> DEFINE t == [NoTemplate EXCEPT !.url = None]
  <2>1. t = NoTemplate /\ NoTemplate = [NoTemplate EXCEPT !.base = None]
    BY DEF NoTemplate
  <2>2. FromMapping(x) = [t EXCEPT !.base = None]
    BY <1>1, Zenon DEF FromMapping
  <2> QED
    BY <2>1, <2>2, Zenon
<1>6. ASSUME SavedApi(p)
      PROVE  p.case.type = "api" /\ Sendable(rs, p.run, p.case.request)
  <2>1. row.run # None /\ row.data.request # NoTemplate /\ x.category # "ui"
    BY <1>2, <1>4, <1>6 DEF SavedApi
  <2>2. Template(x) = row.data.request
    BY <1>1, <1>5, <2>1, Zenon DEF Template, FromMapping
  <2>3. Kind(x) = "api"
    BY <1>1, <2>1, <2>2, KindIsOne
  <2>4. Sendable(rs, row.run, row.data.request)
    BY <2>1 DEF RowRight
  <2> QED
    BY <1>2, <1>4, <2>2, <2>3, <2>4
<1>7. Known(rs, p.run)
  BY <1>2 DEF RowRight
<1> QED
  BY <1>2, <1>6, <1>7 DEF PayRight, p

(* A list of ids that were given out, and payloads of the first n of them,  *)
(* in their order: those that are left, and others that were read before    *)
(* they were deleted.                                                      *)
Given(cs, ids) == IsList(ids) /\ \A i \in 1 .. Len(ids) : ids[i] \in DOMAIN cs /\ cs[ids[i]] # Free
Follow(ids, n, ps) ==
  \E at \in [1 .. Len(ps) -> 1 .. n] :
    \A i \in 1 .. Len(ps) : /\ ps[i].id = ids[at[i]]
                            /\ \A j \in 1 .. Len(ps) : i < j => at[i] < at[j]
Whole(rs, cs, d, n) ==
  /\ Given(cs, d.asked) /\ n \in 0 .. Len(d.asked)
  /\ IsList(d.api) /\ IsList(d.ui) /\ Follow(d.asked, n, d.api) /\ Follow(d.asked, n, d.ui)
  /\ \A i \in 1 .. n : d.asked[i] \in Live(cs) => \E p \in Sent(d) : p.id = d.asked[i]
  /\ \A p \in Sent(d) : PayRight(rs, p)

RunWhole(rs, cs, x) ==
  /\ x.status \in Statuses
  /\ x.suite # NoSuite /\ x.origin = None =>
       /\ Whole(rs, cs, x.suite, Len(x.suite.asked))
       /\ (\E p \in Sent(x.suite) : Reaches(rs, p.run)) => x.target # Suite
ReqWhole(rs, cs, q) ==
  /\ q.op \in {"none", "delete", "run"}
  /\ q.op = "delete" => \A s \in DOMAIN q.pruned : Given(cs, q.pruned[s])
  /\ q.op = "run" => /\ q.at \in Nat /\ IsList(q.read) /\ Whole(rs, cs, q, q.at - 1)
                     /\ \A p \in Sent(q) : \E i \in 1 .. Len(q.read) : q.read[i] = p

RunsWhole == \A r \in Live(runs) : RunWhole(runs, cases, runs[r])
RowsRight == \A id \in Live(cases) : RowRight(runs, cases[id])
ListsGiven == DOMAIN suites = SuiteIds /\ \A s \in Live(suites) : Given(cases, suites[s].ids)
ReqsWhole == \A c \in Clients : ReqWhole(runs, cases, req[c])
WInv == requests \in 0 .. MaxRequests /\ RunsWhole /\ RowsRight /\ ListsGiven /\ ReqsWhole

(* Rows only come and go: an id that was given out stays so, a row that is  *)
(* gone does not come back, and a run keeps its address.                   *)
Ages(rows, new) ==
  /\ DOMAIN new = DOMAIN rows
  /\ \A id \in DOMAIN rows : rows[id] # Free => new[id] # Free /\ (id \in Live(new) => id \in Live(rows))
AgeRuns(rs, new) == Ages(rs, new) /\ \A r \in Live(new) \cap Live(rs) : new[r].target = rs[r].target

LEMMA KnownAges ==
  ASSUME NEW rs, NEW new, AgeRuns(rs, new), NEW run, Known(rs, run)
  PROVE  /\ Known(new, run)
         /\ run # None /\ Reaches(new, run) => Reaches(rs, run)
<1>1. run # None => run \in DOMAIN rs /\ rs[run] # Free /\ run \in DOMAIN new /\ new[run] # Free
                    /\ (run \in Live(new) => run \in Live(rs))
  BY DEF AgeRuns, Ages, Known
<1>2. run \in Live(new) /\ run \in Live(rs) => new[run].target = rs[run].target
  BY DEF AgeRuns
<1> QED
  BY <1>1, <1>2 DEF Known, Reaches

LEMMA RowAges ==
  ASSUME NEW rs, NEW new, AgeRuns(rs, new), NEW row, RowRight(rs, row)
  PROVE  RowRight(new, row)
BY KnownAges DEF RowRight, Sendable

LEMMA PayAges ==
  ASSUME NEW rs, NEW new, AgeRuns(rs, new), NEW p, PayRight(rs, p)
  PROVE  PayRight(new, p) /\ (p.run # None /\ Reaches(new, p.run) => Reaches(rs, p.run))
<1>1. Known(rs, p.run)
  BY DEF PayRight
<1>2. Known(new, p.run) /\ (p.run # None /\ Reaches(new, p.run) => Reaches(rs, p.run))
  BY <1>1, KnownAges
<1>3. SavedApi(p) => p.run # None
  BY DEF SavedApi
<1> QED
  BY <1>2, <1>3 DEF PayRight, Sendable

LEMMA GivenAges ==
  ASSUME NEW cs, NEW new, Ages(cs, new), NEW ids, Given(cs, ids)
  PROVE  Given(new, ids)
BY DEF Given, Ages

LEMMA WholeAges ==
  ASSUME NEW rs, NEW rs2, NEW cs, NEW cs2, AgeRuns(rs, rs2), Ages(cs, cs2),
         NEW d, NEW n, Whole(rs, cs, d, n)
  PROVE  Whole(rs2, cs2, d, n)
<1>1. Given(cs2, d.asked)
  BY GivenAges DEF Whole
<1>2. \A p \in Sent(d) : PayRight(rs2, p)
  BY PayAges DEF Whole
<1>3. \A i \in 1 .. n : d.asked[i] \in Live(cs2) => d.asked[i] \in Live(cs)
  <2> SUFFICES ASSUME NEW i \in 1 .. n, d.asked[i] \in Live(cs2)
               PROVE  d.asked[i] \in Live(cs)
    OBVIOUS
  <2>1. i \in 1 .. Len(d.asked)
    BY DEF Whole, Given, IsList
  <2>2. d.asked[i] \in DOMAIN cs /\ cs[d.asked[i]] # Free
    BY <2>1 DEF Whole, Given
  <2> QED
    BY <2>2 DEF Ages
<1> QED
  BY <1>1, <1>2, <1>3 DEF Whole

LEMMA RunAges ==
  ASSUME NEW rs, NEW rs2, NEW cs, NEW cs2, AgeRuns(rs, rs2), Ages(cs, cs2), None \notin DOMAIN rs2,
         NEW x, RunWhole(rs, cs, x), NEW y, y.status \in Statuses, y.suite = x.suite, y.origin = x.origin, y.target = x.target
  PROVE  RunWhole(rs2, cs2, y)
<1> SUFFICES ASSUME x.suite # NoSuite, x.origin = None
             PROVE  /\ Whole(rs2, cs2, x.suite, Len(x.suite.asked))
                    /\ (\E p \in Sent(x.suite) : Reaches(rs2, p.run)) => x.target # Suite
  BY DEF RunWhole
<1>1. Whole(rs, cs, x.suite, Len(x.suite.asked))
  BY DEF RunWhole
<1>2. Whole(rs2, cs2, x.suite, Len(x.suite.asked))
  BY <1>1, WholeAges
<1>3. \A p \in Sent(x.suite) : Reaches(rs2, p.run) => Reaches(rs, p.run)
  <2> SUFFICES ASSUME NEW p \in Sent(x.suite), Reaches(rs2, p.run)
               PROVE  Reaches(rs, p.run)
    OBVIOUS
  <2>1. p.run # None
    BY DEF Reaches, Live
  <2>2. PayRight(rs, p)
    BY <1>1 DEF Whole
  <2> QED
    BY <2>1, <2>2, PayAges
<1> QED
  BY <1>2, <1>3 DEF RunWhole

LEMMA ReqAges ==
  ASSUME NEW rs, NEW rs2, NEW cs, NEW cs2, AgeRuns(rs, rs2), Ages(cs, cs2), NEW q, ReqWhole(rs, cs, q)
  PROVE  ReqWhole(rs2, cs2, q)
<1>1. q.op = "delete" => \A s \in DOMAIN q.pruned : Given(cs2, q.pruned[s])
  BY GivenAges DEF ReqWhole
<1>2. q.op = "run" => Whole(rs2, cs2, q, q.at - 1)
  BY WholeAges DEF ReqWhole
<1> QED
  BY <1>1, <1>2 DEF ReqWhole

(* How the tables age: what a step does to them.                           *)
LEMMA SameAges == \A rows : Ages(rows, rows) /\ AgeRuns(rows, rows)
BY DEF Ages, AgeRuns

LEMMA SetAges ==
  ASSUME NEW rows, NEW id \in DOMAIN rows, NEW x, rows[id] = Free \/ (x # Free /\ (id \in Live(rows) \/ x = Gone)),
         NEW new, new = [rows EXCEPT ![id] = x]
  PROVE  Ages(rows, new)
<1>1. DOMAIN new = DOMAIN rows /\ new[id] = x /\ \A k \in DOMAIN rows : k # id => new[k] = rows[k]
  OBVIOUS
<1> QED
  BY <1>1 DEF Ages, Live

LEMMA SetAgesRuns ==
  ASSUME NEW rs, NEW id \in DOMAIN rs, NEW x, NEW new, new = [rs EXCEPT ![id] = x],
         rs[id] = Free \/ x = Gone \/ (id \in Live(rs) /\ x \notin {Free, Gone} /\ x.target = rs[id].target)
  PROVE  AgeRuns(rs, new)
<1>1. DOMAIN new = DOMAIN rs /\ new[id] = x /\ \A k \in DOMAIN rs : k # id => new[k] = rs[k]
  OBVIOUS
<1>2. Ages(rs, new)
  BY <1>1, FreeIsNotGone DEF Ages, Live
<1> QED
  BY <1>1, <1>2, FreeIsNotGone DEF AgeRuns, Live

(* What a step does not touch stays right as the tables age.               *)
LEMMA RunsWholeKept ==
  ASSUME RunsWhole, RunsInv', AgeRuns(runs, runs'), Ages(cases, cases'),
         \A r \in Live(runs') \cap Live(runs) :
           runs'[r].suite = runs[r].suite /\ runs'[r].origin = runs[r].origin /\ runs'[r].status \in Statuses,
         \A r \in Live(runs') \ Live(runs) : RunWhole(runs', cases', runs'[r])
  PROVE  RunsWhole'
<1>1. None \notin DOMAIN runs'
  BY IdsAssumption DEF RunsInv
<1>2. ASSUME NEW r \in Live(runs') PROVE RunWhole(runs', cases', runs'[r])
  <2>1. CASE r \notin Live(runs)
    BY <2>1
  <2>2. CASE r \in Live(runs)
    <3>1. runs'[r].target = runs[r].target
      BY <1>2, <2>2 DEF AgeRuns
    <3>2. RunWhole(runs, cases, runs[r])
      BY <2>2 DEF RunsWhole
    <3> QED
      BY <1>1, <1>2, <2>2, <3>1, <3>2, RunAges
  <2> QED
    BY <2>1, <2>2
<1> QED
  BY <1>2 DEF RunsWhole

LEMMA RowsRightKept ==
  ASSUME RowsRight, AgeRuns(runs, runs'),
         \A id \in Live(cases') : RowRight(runs', cases'[id]) \/ (id \in Live(cases) /\ cases'[id] = cases[id])
  PROVE  RowsRight'
BY RowAges DEF RowsRight

LEMMA ListsGivenKept ==
  ASSUME ListsGiven, Ages(cases, cases'), DOMAIN suites' = DOMAIN suites,
         \A s \in Live(suites') : Given(cases, suites'[s].ids) \/ Given(cases', suites'[s].ids) \/ (s \in Live(suites) /\ suites'[s] = suites[s])
  PROVE  ListsGiven'
BY GivenAges DEF ListsGiven

LEMMA ReqsWholeKept ==
  ASSUME ReqsWhole, AgeRuns(runs, runs'), Ages(cases, cases'),
         \A c \in Clients : req'[c] = req[c] \/ ReqWhole(runs, cases, req'[c])
  PROVE  ReqsWhole'
<1>1. ASSUME NEW c \in Clients PROVE ReqWhole(runs', cases', req'[c])
  <2>1. ReqWhole(runs, cases, req'[c])
    BY DEF ReqsWhole
  <2> QED
    BY <2>1, ReqAges
<1> QED
  BY <1>1 DEF ReqsWhole

LEMMA Counted == ASSUME WInv, Begin \/ UNCHANGED requests PROVE requests' \in 0 .. MaxRequests
BY BoundsAssumption DEF WInv, Begin

(* The steps of the worker and of users on runs.                           *)
LEMMA RunsOnlyStep ==
  ASSUME WInv, RunsInv', Begin \/ UNCHANGED requests, UNCHANGED <<cases, suites, req>>, AgeRuns(runs, runs'),
         \A r \in Live(runs') \cap Live(runs) :
           runs'[r].suite = runs[r].suite /\ runs'[r].origin = runs[r].origin /\ runs'[r].status \in Statuses,
         \A r \in Live(runs') \ Live(runs) : RunWhole(runs', cases', runs'[r])
  PROVE  WInv'
<1>1. Ages(cases, cases')
  BY SameAges
<1>2. requests' \in 0 .. MaxRequests
  BY Counted
<1>3. RunsWhole'
  BY <1>1, RunsWholeKept DEF WInv
<1>4. RowsRight'
  BY RowsRightKept DEF WInv
<1>5. ListsGiven'
  BY <1>1, ListsGivenKept DEF WInv
<1>6. ReqsWhole'
  BY <1>1, ReqsWholeKept DEF WInv
<1> QED
  BY <1>2, <1>3, <1>4, <1>5, <1>6 DEF WInv

LEMMA RunsStay == ASSUME RunsWhole PROVE \A r \in Live(runs) : runs[r].status \in Statuses
BY DEF RunsWhole, RunWhole

LEMMA DeleteRunWhole ==
  ASSUME IInv, IInv', WInv, NEW run \in RunIds, DeleteRun(run)
  PROVE  WInv'
<1>1. run \in DOMAIN runs /\ runs' = [runs EXCEPT ![run] = Gone]
  BY DEF DeleteRun, IInv, RunsInv
<1>2. AgeRuns(runs, runs')
  BY <1>1, SetAgesRuns
<1>3. Live(runs') \subseteq Live(runs) /\ \A r \in Live(runs') : runs'[r] = runs[r]
  BY <1>1 DEF Live
<1>4. Begin /\ UNCHANGED <<cases, suites, req>>
  BY DEF DeleteRun
<1> QED
  BY <1>2, <1>3, <1>4, RunsOnlyStep, RunsStay DEF WInv, IInv

LEMMA RewrittenWhole ==
  ASSUME IInv, IInv', WInv, NEW run \in RunIds, run \in Live(runs), Rewritten(run),
         UNCHANGED <<cases, suites, req>>, Begin \/ UNCHANGED requests
  PROVE  WInv'
<1>1. PICK x : /\ runs' = [runs EXCEPT ![run] = x] /\ x \notin {Free, Gone} /\ x.status = "running"
               /\ x.target = runs[run].target /\ x.suite = runs[run].suite /\ x.origin = runs[run].origin
  BY DEF Rewritten
<1>2. run \in DOMAIN runs /\ run \in Live(runs)
  BY DEF IInv, RunsInv
<1>3. AgeRuns(runs, runs')
  BY <1>1, <1>2, SetAgesRuns
<1>4. Live(runs') = Live(runs) /\ \A r \in Live(runs') : r = run \/ runs'[r] = runs[r]
  BY <1>1, <1>2 DEF Live
<1>5. runs'[run] = x /\ x.status \in Statuses
  BY <1>1, <1>2 DEF Statuses, Active
<1>6. \A r \in Live(runs') \cap Live(runs) :
        runs'[r].suite = runs[r].suite /\ runs'[r].origin = runs[r].origin /\ runs'[r].status \in Statuses
  BY <1>1, <1>4, <1>5, RunsStay DEF WInv
<1> QED
  BY <1>3, <1>4, <1>6, RunsOnlyStep DEF IInv

LEMMA StartRunWhole ==
  ASSUME IInv, IInv', WInv, NEW run \in RunIds, StartRun(run)
  PROVE  WInv'
<1>1. Rewritten(run)
  BY StartStep DEF IInv
<1>2. run \in Live(runs) /\ UNCHANGED <<cases, suites, req>> /\ UNCHANGED requests
  BY Zenon DEF StartRun
<1> QED
  BY <1>1, <1>2, RewrittenWhole

LEMMA PlanWhole ==
  ASSUME IInv, IInv', WInv, NEW run \in RunIds, Plan(run)
  PROVE  WInv'
<1>1. Rewritten(run)
  BY PlanStep DEF IInv
<1>2. run \in Live(runs) /\ UNCHANGED <<cases, suites, req>> /\ UNCHANGED requests
  BY Zenon DEF Plan
<1> QED
  BY <1>1, <1>2, RewrittenWhole

LEMMA ReplanWhole ==
  ASSUME IInv, IInv', WInv, NEW run \in RunIds, NEW list \in {"api_cases", "ui_cases"}, NEW made \in Generated,
         Replan(run, list, made)
  PROVE  WInv'
<1>1. Rewritten(run)
  BY ReplanStep DEF IInv
<1>2. run \in Live(runs) /\ UNCHANGED <<cases, suites, req>> /\ Begin
  BY Zenon DEF Replan
<1> QED
  BY <1>1, <1>2, RewrittenWhole

(* A run made from another is no run of a suite itself.                    *)
LEMMA MadeFromAnother ==
  ASSUME NEW rs, NEW cs, NEW run \in RunIds, NEW target, NEW context, NEW log
  PROVE  /\ RunWhole(rs, cs, Again(run, target, context, log))
         /\ Again(run, target, context, log) \notin {Free, Gone}
<1> DEFINE a == Again(run, target, context, log)
<1>1. a = [status |-> "queued", target |-> target, context |-> context, log |-> log,
           suite |-> runs[run].suite, origin |-> run, began |-> RunRow(target, context).began,
           logged |-> (runs[run].logged /\ runs[run].began /\ runs[run].replanned = {}),
           replanned |-> {}]
  BY AgainFields
<1> HIDE DEF a
<1>2. a.status = "queued" /\ a.origin = run
  BY <1>1
<1>3. DOMAIN a # {"state"}
  BY <1>1
<1>4. a \notin {Free, Gone}
  BY <1>3 DEF Free, Gone
<1>5. RunWhole(rs, cs, a)
  BY <1>2, IdsAssumption DEF RunWhole, Statuses, Active
<1> QED
  BY <1>4, <1>5 DEF a

LEMMA RerunWhole ==
  ASSUME IInv, IInv', WInv, NEW run \in RunIds, Rerun(run)
  PROVE  WInv'
<1> DEFINE new == NewId(runs)
           x == Again(run, RerunTarget(Context(run), runs[run].target), Context(run), NoLog)
<1>1. Unused(runs) # {} /\ runs' = [runs EXCEPT ![new] = x] /\ Begin /\ UNCHANGED <<cases, suites, req>>
  BY DEF Rerun
<1>2. new \in DOMAIN runs /\ runs[new] = Free
  BY <1>1, NewIdUnused DEF IInv, Unused
<1>3. RunWhole(runs', cases', x) /\ x \notin {Free, Gone}
  BY MadeFromAnother
<1> HIDE DEF new, x
<1>4. AgeRuns(runs, runs')
  BY <1>1, <1>2, SetAgesRuns
<1>5. runs'[new] = x /\ \A r \in Live(runs') : r = new \/ (runs'[r] = runs[r] /\ r \in Live(runs))
  BY <1>1, <1>2 DEF Live
<1>6. new \notin Live(runs)
  BY <1>2 DEF Live
<1>7. \A r \in Live(runs') \cap Live(runs) :
        runs'[r].suite = runs[r].suite /\ runs'[r].origin = runs[r].origin /\ runs'[r].status \in Statuses
  BY <1>5, <1>6, RunsStay DEF WInv
<1>8. \A r \in Live(runs') \ Live(runs) : RunWhole(runs', cases', runs'[r])
  BY <1>3, <1>5
<1> QED
  BY <1>1, <1>4, <1>7, <1>8, RunsOnlyStep DEF IInv

LEMMA InterveneWhole ==
  ASSUME IInv, IInv', WInv, NEW run \in RunIds, NEW text, Intervene(run, text)
  PROVE  WInv'
<1> DEFINE new == NewId(runs)
           k == Supplemented(Context(run), text)
           x == Again(run, ContinuationTarget(k, runs[run].target), k, Seeded(k, run))
           d == Continued(runs[run], new)
           mid == [runs EXCEPT ![run] = d]
<1>1. /\ run \in Live(runs) /\ Unused(runs) # {} /\ runs' = [runs EXCEPT ![run] = d, ![new] = x]
      /\ Begin /\ UNCHANGED <<cases, suites, req>>
  BY DEF Intervene
<1>2. new \in DOMAIN runs /\ runs[new] = Free /\ run \in DOMAIN runs /\ new # run
  BY <1>1, NewIdUnused DEF IInv, Unused, Live
<1>3. RunWhole(runs', cases', x) /\ x \notin {Free, Gone}
  BY MadeFromAnother
<1>4. IsRun(runs[run]) /\ runs[run].status \in Statuses
  BY <1>1, LiveRun, RunsStay DEF GoodRun, IInv, WInv
<1>5. /\ IsRun(d) /\ d.status = IF runs[run].status \in Active THEN "cancelled" ELSE runs[run].status
      /\ d.suite = runs[run].suite /\ d.origin = runs[run].origin /\ d.target = runs[run].target
  BY <1>4, ContinuedFields
<1>6. d.status \in Statuses /\ d \notin {Free, Gone}
  BY <1>4, <1>5, NotEmpty DEF Statuses, Helpable
<1>7. runs' = [mid EXCEPT ![new] = x]
  BY <1>1
<1> HIDE DEF new, x, d
<1>8. DOMAIN mid = DOMAIN runs /\ mid[run] = d /\ mid[new] = Free /\ \A r \in DOMAIN runs : r # run => mid[r] = runs[r]
  BY <1>2
<1>9. /\ DOMAIN runs' = DOMAIN runs /\ runs'[run] = d /\ runs'[new] = x
      /\ \A r \in DOMAIN runs : r \notin {run, new} => runs'[r] = runs[r]
  BY <1>2, <1>7, <1>8
<1>10. AgeRuns(runs, runs')
  BY <1>1, <1>2, <1>3, <1>5, <1>6, <1>9 DEF AgeRuns, Ages, Live
<1>11. \A r \in Live(runs') \cap Live(runs) :
        runs'[r].suite = runs[r].suite /\ runs'[r].origin = runs[r].origin /\ runs'[r].status \in Statuses
  BY <1>1, <1>2, <1>5, <1>6, <1>9, RunsStay DEF WInv, Live
<1>12. \A r \in Live(runs') \ Live(runs) : RunWhole(runs', cases', runs'[r])
  BY <1>1, <1>2, <1>3, <1>9 DEF Live
<1> QED
  BY <1>1, <1>10, <1>11, <1>12, RunsOnlyStep DEF IInv

(* The steps of users on cases and suites.                                 *)
LEMMA CasesOnlyStep ==
  ASSUME WInv, IInv, IInv', Begin \/ UNCHANGED requests, UNCHANGED runs, Ages(cases, cases'),
         \A id \in Live(cases') : RowRight(runs, cases'[id]) \/ (id \in Live(cases) /\ cases'[id] = cases[id]),
         DOMAIN suites' = DOMAIN suites,
         \A s \in Live(suites') : \/ Given(cases, suites'[s].ids) \/ Given(cases', suites'[s].ids)
                                  \/ (s \in Live(suites) /\ suites'[s] = suites[s]),
         \A c \in Clients : req'[c] = req[c] \/ ReqWhole(runs, cases, req'[c])
  PROVE  WInv'
<1>1. AgeRuns(runs, runs')
  BY SameAges
<1>2. requests' \in 0 .. MaxRequests
  BY Counted
<1>3. Live(runs') \cap Live(runs) = Live(runs) /\ Live(runs') \ Live(runs) = {}
  BY DEF Live
<1>4. \A r \in Live(runs') \cap Live(runs) :
        runs'[r].suite = runs[r].suite /\ runs'[r].origin = runs[r].origin /\ runs'[r].status \in Statuses
  BY <1>3, RunsStay DEF WInv
<1>5. RunsWhole'
  BY <1>1, <1>3, <1>4, RunsWholeKept DEF WInv, IInv
<1>6. RowsRight'
  BY <1>1, RowsRightKept DEF WInv
<1>7. ListsGiven'
  BY ListsGivenKept DEF WInv
<1>8. ReqsWhole'
  BY <1>1, ReqsWholeKept DEF WInv
<1> QED
  BY <1>2, <1>5, <1>6, <1>7, <1>8 DEF WInv

LEMMA RowsAreRows ==
  /\ \A category, data, run, kind : Row(category, data, run, kind) \notin {Free, Gone}
  /\ \A ids : SuiteRow(ids) \notin {Free, Gone} /\ SuiteRow(ids).ids = ids
<1>1. ASSUME NEW category, NEW data, NEW run, NEW kind PROVE Row(category, data, run, kind) \notin {Free, Gone}
  BY DEF Row, Free, Gone
<1>2. ASSUME NEW ids PROVE SuiteRow(ids) \notin {Free, Gone} /\ SuiteRow(ids).ids = ids
  BY DEF SuiteRow, Free, Gone
<1> QED
  BY <1>1, <1>2

LEMMA UserRowRight ==
  ASSUME NEW row \in UserRows
  PROVE  row \notin {Free, Gone} /\ RowRight(runs, row)
<1>1. row = [category |-> row.category, data |-> row.data, run |-> None, kind |-> row.kind] /\ row.kind \in Kinds
  BY RowsAssumption
<1>2. row.run = None
  BY <1>1
<1>3. row = Row(row.category, row.data, None, row.kind)
  BY <1>1 DEF Row
<1> QED
  BY <1>1, <1>2, <1>3, RowsAreRows DEF RowRight, Known

LEMMA CreateCaseWhole ==
  ASSUME IInv, IInv', WInv, NEW row \in UserRows, CreateCase(row)
  PROVE  WInv'
<1> DEFINE new == NewId(cases)
<1>1. Unused(cases) # {} /\ Begin /\ cases' = [cases EXCEPT ![new] = row] /\ UNCHANGED <<runs, suites, req>>
  BY DEF CreateCase
<1>2. new \in DOMAIN cases /\ cases[new] = Free
  BY <1>1, NewIdIsUnused, IdsAssumption DEF IInv, CasesInv, Unused
<1> HIDE DEF new
<1>3. Ages(cases, cases')
  BY <1>1, <1>2, UserRowRight, SetAges
<1>4. \A id \in Live(cases') : RowRight(runs, cases'[id]) \/ (id \in Live(cases) /\ cases'[id] = cases[id])
  BY <1>1, <1>2, UserRowRight DEF Live
<1> QED
  BY <1>1, <1>3, <1>4, CasesOnlyStep

LEMMA UpdateCaseWhole ==
  ASSUME IInv, IInv', WInv, NEW id \in CaseIds, NEW row \in UserRows, UpdateCase(id, row)
  PROVE  WInv'
<1>1. id \in Live(cases) /\ Begin /\ cases' = [cases EXCEPT ![id] = row] /\ UNCHANGED <<runs, suites, req>>
  BY DEF UpdateCase
<1>2. id \in DOMAIN cases
  BY DEF IInv, CasesInv
<1>3. Ages(cases, cases')
  BY <1>1, <1>2, UserRowRight, SetAges
<1>4. \A k \in Live(cases') : RowRight(runs, cases'[k]) \/ (k \in Live(cases) /\ cases'[k] = cases[k])
  BY <1>1, <1>2, UserRowRight DEF Live
<1> QED
  BY <1>1, <1>3, <1>4, CasesOnlyStep

(* A list that a user writes names cases that are there.                   *)
LEMMA ListedGiven ==
  ASSUME CasesInv, NEW ids \in Lists
  PROVE  Given(cases, ids)
<1>1. PICK m \in 0 .. MaxListed : ids \in [1 .. m -> Live(cases)]
  BY DEF Lists, SeqOf
<1>2. m \in Nat
  BY <1>1, BoundsAssumption
<1>3. IsList(ids) /\ Len(ids) = m
  BY <1>1, <1>2, ListOf
<1>4. \A i \in 1 .. m : ids[i] \in DOMAIN cases /\ cases[ids[i]] # Free
  BY <1>1 DEF Live
<1> QED
  BY <1>3, <1>4 DEF Given

LEMMA SuitesStep ==
  ASSUME IInv, IInv', WInv, Begin, UNCHANGED <<runs, cases, req>>, NEW s, NEW x, suites' = [suites EXCEPT ![s] = x],
         x = Gone \/ Given(cases, x.ids)
  PROVE  WInv'
<1>1. Ages(cases, cases')
  BY SameAges
<1>2. \A k \in Live(suites') : \/ Given(cases, suites'[k].ids) \/ Given(cases', suites'[k].ids)
                               \/ (k \in Live(suites) /\ suites'[k] = suites[k])
  BY DEF Live
<1> QED
  BY <1>1, <1>2, CasesOnlyStep

LEMMA SuiteSteps ==
  ASSUME IInv, IInv', WInv
  PROVE  /\ \A ids \in Lists : CreateSuite(ids) => WInv'
         /\ \A s \in SuiteIds, ids \in Lists : UpdateSuite(s, ids) => WInv'
         /\ \A s \in SuiteIds : DeleteSuite(s) => WInv'
<1>1. ASSUME NEW ids \in Lists PROVE Given(cases, SuiteRow(ids).ids)
  BY ListedGiven, RowsAreRows DEF IInv
<1>2. ASSUME NEW ids \in Lists, CreateSuite(ids) PROVE WInv'
  BY <1>1, <1>2, SuitesStep DEF CreateSuite
<1>3. ASSUME NEW s \in SuiteIds, NEW ids \in Lists, UpdateSuite(s, ids) PROVE WInv'
  BY <1>1, <1>3, SuitesStep DEF UpdateSuite
<1>4. ASSUME NEW s \in SuiteIds, DeleteSuite(s) PROVE WInv'
  BY <1>4, SuitesStep DEF DeleteSuite
<1> QED
  BY <1>2, <1>3, <1>4

LEMMA SaveWhole ==
  ASSUME IInv, IInv', WInv, NEW run \in RunIds, NEW accepted \in Accepted, Save(run, accepted)
  PROVE  WInv'
<1> DEFINE n == Len(accepted)
           ids == NewIds(cases, n)
           At(id) == {i \in DOMAIN accepted : ids[i] = id}
           row(i) == AcceptedRow(run, accepted[i])
           new == NewId(suites)
<1>1. /\ run \in Live(runs) /\ Begin /\ n <= Cardinality(Unused(cases)) /\ Unused(suites) # {}
      /\ cases' = [id \in CaseIds |-> IF At(id) = {} THEN cases[id] ELSE row(CHOOSE i \in At(id) : TRUE)]
      /\ suites' = [suites EXCEPT ![new] = SuiteRow(ids)]
      /\ UNCHANGED <<runs, req>>
  <2>1. n \in Nat /\ Cardinality(Unused(cases)) \in Nat
    <3>1. IsFiniteSet(Unused(cases))
      BY FS_Subset, IdsAssumption DEF Unused, IInv, CasesInv
    <3> QED
      BY <3>1, FS_CardinalityType, AcceptedAssumption DEF IsList
  <2>2. n <= Cardinality(Unused(cases))
    BY <2>1 DEF Save
  <2> QED
    BY <2>2, Zenon DEF Save
<1>2. n \in Nat /\ DOMAIN accepted = 1 .. n /\ DOMAIN cases = CaseIds
  BY AcceptedAssumption DEF IsList, IInv, CasesInv
<1>3. IsList(ids) /\ Len(ids) = n /\ \A i \in 1 .. n : ids[i] \in CaseIds /\ cases[ids[i]] = Free
  BY <1>1, <1>2, NewIdsUnused, IdsAssumption DEF Unused
<1>4. ASSUME NEW i \in 1 .. n PROVE row(i) \notin {Free, Gone} /\ RowRight(runs, row(i))
  <2> DEFINE x == Merged(runs[run].log.context.cases[accepted[i].source][accepted[i].index], accepted[i].edit)
             source == accepted[i].source
             target == runs[run].target
             r == SavedRow(x, source, run, target)
  <2>1. row(i) = r
    BY DEF AcceptedRow
  <2> HIDE DEF x, source, row
  <2>2. /\ r.kind \in Kinds
        /\ Absolute(target) /\ r.data.request.url # None => Absolute(r.data.request.url) \/ r.data.request.base # None
        /\ r.run = run /\ \E category, data, kind : r = Row(category, data, run, kind)
    BY SavedSendable
  <2>3. Known(runs, run)
    BY <1>1 DEF Known, Live
  <2> HIDE DEF r
  <2>4. RowRight(runs, r)
    BY <2>2, <2>3 DEF RowRight, Sendable, Reaches
  <2> QED
    BY <2>1, <2>2, <2>4, RowsAreRows
<1> HIDE DEF row, ids, new, n
<1>5. \A id \in CaseIds : \/ At(id) = {} /\ cases'[id] = cases[id]
                          \/ cases[id] = Free /\ cases'[id] \notin {Free, Gone} /\ RowRight(runs, cases'[id])
  <2> SUFFICES ASSUME NEW id \in CaseIds, At(id) # {}
               PROVE  cases[id] = Free /\ cases'[id] \notin {Free, Gone} /\ RowRight(runs, cases'[id])
    BY <1>1
  <2> DEFINE i == CHOOSE i \in At(id) : TRUE
  <2>1. i \in 1 .. n /\ ids[i] = id
    BY <1>2
  <2>2. cases'[id] = row(i)
    BY <1>1
  <2> QED
    BY <1>3, <1>4, <2>1, <2>2
<1>6. Ages(cases, cases')
  BY <1>1, <1>2, <1>5 DEF Ages, Live
<1>7. \A id \in Live(cases') : RowRight(runs, cases'[id]) \/ (id \in Live(cases) /\ cases'[id] = cases[id])
  BY <1>1, <1>2, <1>5 DEF Live
<1>8. Given(cases', ids)
  <2> SUFFICES ASSUME NEW i \in 1 .. n PROVE ids[i] \in CaseIds /\ cases'[ids[i]] # Free
    BY <1>1, <1>3 DEF Given
  <2>1. At(ids[i]) # {} /\ ids[i] \in CaseIds
    BY <1>2, <1>3
  <2> QED
    BY <1>5, <2>1
<1>9. \A s \in Live(suites') : Given(cases', suites'[s].ids) \/ (s \in Live(suites) /\ suites'[s] = suites[s])
  BY <1>1, <1>8, RowsAreRows DEF Live
<1> QED
  BY <1>1, <1>6, <1>7, <1>9, CasesOnlyStep

(* Deleting a case: the lists are read, and written back.                  *)
LEMMA ReadSuitesWhole ==
  ASSUME IInv, IInv', WInv, NEW c \in Clients, NEW id \in CaseIds, ReadSuites(c, id)
  PROVE  WInv'
<1> DEFINE pruned == [s \in Naming(id) |-> Pruned(suites[s].ids, id)]
           q == [op |-> "delete", id |-> id, pruned |-> pruned]
<1>1. Begin /\ UNCHANGED <<runs, cases, suites>> /\ req' = [req EXCEPT ![c] = q]
  BY DEF ReadSuites
<1>2. ASSUME NEW s \in Naming(id) PROVE Given(cases, Pruned(suites[s].ids, id))
  <2> DEFINE ids == suites[s].ids
             I == {i \in DOMAIN ids : ids[i] # id}
  <2>1. Given(cases, ids)
    BY DEF Naming, WInv, ListsGiven
  <2>2. IsList(ids) /\ I \in SUBSET (1 .. Len(ids))
    BY <2>1 DEF Given, IsList
  <2> HIDE DEF ids, I
  <2>3. /\ IsList(Picked(ids, I))
        /\ \A k \in 1 .. Len(Picked(ids, I)) : \E i \in 1 .. Len(ids) : Picked(ids, I)[k] = ids[i]
    BY <2>2, PickedFrom
  <2>4. Given(cases, Picked(ids, I))
    BY <2>1, <2>3 DEF Given
  <2> QED
    BY <2>4 DEF Pruned, ids, I
<1>3. DOMAIN pruned = Naming(id) /\ \A s \in Naming(id) : Given(cases, pruned[s])
  BY <1>2
<1> HIDE DEF pruned
<1>4. ReqWhole(runs, cases, q)
  BY <1>3 DEF ReqWhole
<1> HIDE DEF q
<1>5. \A d \in Clients : req'[d] = req[d] \/ ReqWhole(runs, cases, req'[d])
  BY <1>1, <1>4
<1> QED
  BY <1>1, <1>5, SameAges, CasesOnlyStep

LEMMA IdleWhole == ReqWhole(runs, cases, Idle)
BY DEF ReqWhole, Idle

LEMMA CommitDeleteWhole ==
  ASSUME IInv, IInv', WInv, NEW c \in Clients, CommitDelete(c)
  PROVE  WInv'
<1>1. req' = [req EXCEPT ![c] = Idle] /\ UNCHANGED <<runs, requests>> /\ req[c].op = "delete"
  BY DEF CommitDelete
<1>2. \A d \in Clients : req'[d] = req[d] \/ ReqWhole(runs, cases, req'[d])
  BY <1>1, IdleWhole
<1>3. CASE UNCHANGED <<suites, cases>>
  BY <1>1, <1>2, <1>3, SameAges, CasesOnlyStep
<1>4. CASE /\ suites' = [s \in SuiteIds |-> IF s \in DOMAIN req[c].pruned THEN SuiteRow(req[c].pruned[s]) ELSE suites[s]]
           /\ cases' = [cases EXCEPT ![req[c].id] = Gone]
  <2>1. Ages(cases, cases') /\ \A k \in Live(cases') : k \in Live(cases) /\ cases'[k] = cases[k]
    BY <1>4, FreeIsNotGone DEF Ages, Live
  <2>2. \A s \in DOMAIN req[c].pruned : Given(cases, req[c].pruned[s])
    BY <1>1 DEF WInv, ReqsWhole, ReqWhole
  <2>3. DOMAIN suites' = DOMAIN suites /\ DOMAIN suites = SuiteIds
    BY <1>4 DEF WInv, ListsGiven
  <2>4. \A s \in Live(suites') : Given(cases, suites'[s].ids) \/ (s \in Live(suites) /\ suites'[s] = suites[s])
    BY <1>4, <2>2, <2>3, RowsAreRows DEF Live
  <2> QED
    BY <1>1, <1>2, <2>1, <2>3, <2>4, CasesOnlyStep
<1> QED
  BY <1>3, <1>4 DEF CommitDelete

(* Running a suite: the cases are read one after the other.                *)
LEMMA NothingFollows == ASSUME NEW ids, NEW n PROVE Follow(ids, n, <<>>)
<1> DEFINE at == [i \in 1 .. Len(<<>>) |-> i]
<1>1. at \in [1 .. Len(<<>>) -> 1 .. n] /\ 1 .. Len(<<>>) = {}
  OBVIOUS
<1> QED
  BY <1>1 DEF Follow

LEMMA FollowNext ==
  ASSUME NEW ids, NEW n \in Nat, NEW ps, IsList(ps), Follow(ids, n, ps), NEW p
  PROVE  /\ Follow(ids, n + 1, ps)
         /\ p.id = ids[n + 1] => Follow(ids, n + 1, Append(ps, p))
<1> DEFINE m == Len(ps)
           more == Append(ps, p)
<1>1. PICK at \in [1 .. m -> 1 .. n] :
        \A i \in 1 .. m : ps[i].id = ids[at[i]] /\ \A j \in 1 .. m : i < j => at[i] < at[j]
  BY DEF Follow
<1>2. at \in [1 .. m -> 1 .. n + 1]
  BY <1>1
<1>3. Follow(ids, n + 1, ps)
  BY <1>1, <1>2 DEF Follow
<1>4. ASSUME p.id = ids[n + 1] PROVE Follow(ids, n + 1, more)
  <2>1. m \in Nat /\ Len(more) = m + 1 /\ \A i \in 1 .. m + 1 : more[i] = IF i <= m THEN ps[i] ELSE p
    BY AppendList DEF IsList
  <2> HIDE DEF m, more
  <2> DEFINE then == [i \in 1 .. m + 1 |-> IF i <= m THEN at[i] ELSE n + 1]
  <2>2. \A i \in 1 .. m + 1 : i \in 1 .. m \/ i = m + 1
    BY <2>1
  <2>3. \A i \in 1 .. m : i \in 1 .. m + 1 /\ i <= m /\ then[i] = at[i] /\ then[i] \in 1 .. n /\ more[i] = ps[i]
    BY <1>1, <2>1
  <2>4. then[m + 1] = n + 1 /\ more[m + 1] = p
    BY <2>1
  <2>5. then \in [1 .. m + 1 -> 1 .. n + 1]
    BY <1>1, <2>1
  <2> HIDE DEF then
  <2>6. \A i \in 1 .. m + 1 : more[i].id = ids[then[i]]
    BY <1>1, <1>4, <2>2, <2>3, <2>4
  <2>7. ASSUME NEW i \in 1 .. m + 1, NEW j \in 1 .. m + 1, i < j PROVE then[i] < then[j]
    <3>1. i \in 1 .. m
      BY <2>1, <2>7
    <3>2. CASE j \in 1 .. m
      BY <1>1, <2>3, <2>7, <3>1, <3>2
    <3>3. CASE j = m + 1
      BY <2>3, <2>4, <3>1, <3>3
    <3> QED
      BY <2>2, <3>2, <3>3
  <2> QED
    BY <2>1, <2>5, <2>6, <2>7 DEF Follow
<1> QED
  BY <1>3, <1>4

Members(ps) == {ps[i] : i \in DOMAIN ps}
LEMMA AppendSent ==
  ASSUME NEW ps, NEW p, IsList(ps)
  PROVE  Members(Append(ps, p)) = Members(ps) \cup {p}
<1> DEFINE a == Append(ps, p)
           m == Len(ps)
<1>1. IsList(a) /\ Len(a) = m + 1 /\ m \in Nat /\ \A i \in 1 .. m + 1 : a[i] = IF i <= m THEN ps[i] ELSE p
  BY AppendList DEF IsList
<1>2. DOMAIN a = 1 .. m + 1 /\ DOMAIN ps = 1 .. m
  BY <1>1, ListDomain
<1> HIDE DEF a, m
<1>3. \A i \in 1 .. m : i \in 1 .. m + 1 /\ a[i] = ps[i]
  BY <1>1
<1>4. m + 1 \in 1 .. m + 1 /\ a[m + 1] = p /\ \A i \in 1 .. m + 1 : i \in 1 .. m \/ i = m + 1
  BY <1>1
<1> QED
  BY <1>2, <1>3, <1>4 DEF a, Members

LEMMA GapWhole ==
  ASSUME NEW rs, NEW cs, NEW d, NEW n, Whole(rs, cs, d, n), n < Len(d.asked), d.asked[n + 1] \notin Live(cs),
         NEW e, e.asked = d.asked, e.api = d.api, e.ui = d.ui
  PROVE  Whole(rs, cs, e, n + 1) /\ Sent(e) = Sent(d)
<1>1. n \in Nat /\ n + 1 \in 0 .. Len(d.asked)
  BY DEF Whole, Given, IsList
<1>2. Follow(d.asked, n + 1, d.api) /\ Follow(d.asked, n + 1, d.ui)
  BY <1>1, FollowNext DEF Whole
<1>3. Sent(e) = Sent(d)
  BY DEF Sent
<1>4. \A i \in 1 .. n + 1 : i \in 1 .. n \/ i = n + 1
  BY <1>1
<1> QED
  BY <1>1, <1>2, <1>3, <1>4 DEF Whole

Joins(d, p, e) ==
  e.asked = d.asked /\ \/ e.api = Append(d.api, p) /\ e.ui = d.ui
                       \/ e.api = d.api /\ e.ui = Append(d.ui, p)
LEMMA ReadWhole ==
  ASSUME NEW rs, NEW cs, NEW d, NEW n, Whole(rs, cs, d, n), n < Len(d.asked),
         NEW p, PayRight(rs, p), p.id = d.asked[n + 1], NEW e, Joins(d, p, e)
  PROVE  Whole(rs, cs, e, n + 1) /\ Sent(e) = Sent(d) \cup {p}
<1> USE DEF Joins
<1>1. n \in Nat /\ n + 1 \in 0 .. Len(d.asked) /\ IsList(d.api) /\ IsList(d.ui)
  BY DEF Whole, Given, IsList
<1>2. /\ Follow(d.asked, n + 1, d.api) /\ Follow(d.asked, n + 1, Append(d.api, p))
      /\ Follow(d.asked, n + 1, d.ui) /\ Follow(d.asked, n + 1, Append(d.ui, p))
  BY <1>1, FollowNext DEF Whole
<1>3. Sent(e) = Sent(d) \cup {p}
  <2>1. Members(Append(d.api, p)) = Members(d.api) \cup {p} /\ Members(Append(d.ui, p)) = Members(d.ui) \cup {p}
    BY <1>1, AppendSent
  <2>2. Sent(e) = Members(e.api) \cup Members(e.ui) /\ Sent(d) = Members(d.api) \cup Members(d.ui)
    BY Zenon DEF Sent, Members
  <2> QED
    BY <2>1, <2>2
<1>4. \A i \in 1 .. n + 1 : i \in 1 .. n \/ i = n + 1
  BY <1>1
<1>5. IsList(Append(d.api, p)) /\ IsList(Append(d.ui, p))
  BY <1>1, AppendList
<1>6. \A i \in 1 .. n + 1 : e.asked[i] \in Live(cs) => \E o \in Sent(e) : o.id = e.asked[i]
  BY <1>3, <1>4 DEF Whole
<1>7. \A o \in Sent(e) : PayRight(rs, o)
  BY <1>3 DEF Whole
<1>8. IsList(e.api) /\ IsList(e.ui) /\ Follow(e.asked, n + 1, e.api) /\ Follow(e.asked, n + 1, e.ui)
  BY <1>1, <1>2, <1>5
<1>9. Given(cs, e.asked) /\ n + 1 \in 0 .. Len(e.asked)
  BY <1>1 DEF Whole
<1>10. Whole(rs, cs, e, n + 1)
  BY <1>6, <1>7, <1>8, <1>9, Zenon DEF Whole
<1> QED
  BY <1>3, <1>10

LEMMA ReadSuiteWhole ==
  ASSUME IInv, IInv', WInv, NEW c \in Clients, NEW s \in SuiteIds, ReadSuite(c, s)
  PROVE  WInv'
<1> DEFINE q == [op |-> "run", asked |-> suites[s].ids, at |-> 1, read |-> <<>>, api |-> <<>>, ui |-> <<>>]
<1>1. s \in Live(suites) /\ Begin /\ UNCHANGED <<runs, cases, suites>> /\ req' = [req EXCEPT ![c] = q]
  BY DEF ReadSuite
<1>2. /\ q.op = "run" /\ q.asked = suites[s].ids /\ q.at = 1
      /\ q.read = <<>> /\ q.api = <<>> /\ q.ui = <<>>
  OBVIOUS
<1> HIDE DEF q
<1>3. Given(cases, q.asked)
  BY <1>1, <1>2 DEF WInv, ListsGiven
<1>4. IsList(<<>>) /\ DOMAIN <<>> = {}
  BY NothingGood
<1>5. Sent(q) = {}
  BY <1>2, <1>4 DEF Sent
<1>6. Whole(runs, cases, q, 0)
  <2>1. 0 \in 0 .. Len(q.asked) /\ 1 .. 0 = {}
    BY <1>3 DEF Given, IsList
  <2> QED
    BY <1>2, <1>3, <1>4, <1>5, <2>1, NothingFollows DEF Whole
<1>7. ReqWhole(runs, cases, q)
  BY <1>2, <1>4, <1>5, <1>6 DEF ReqWhole
<1>8. \A k \in Clients : req'[k] = req[k] \/ ReqWhole(runs, cases, req'[k])
  BY <1>1, <1>7
<1> QED
  BY <1>1, <1>8, SameAges, CasesOnlyStep

LEMMA ReadCaseWhole ==
  ASSUME IInv, IInv', WInv, NEW c \in Clients, ReadCase(c)
  PROVE  WInv'
<1> DEFINE r == req[c]
           n == r.at - 1
           id == r.asked[r.at]
           p == Payload(r.asked[r.at], cases[r.asked[r.at]])
           next == Sorted([r EXCEPT !.at = r.at + 1, !.read = Append(r.read, p)], p)
           gap == [r EXCEPT !.at = AfterMissing(r)]
<1>1. /\ r.op = "run" /\ r.at <= Len(r.asked) /\ UNCHANGED <<runs, cases, suites, requests>>
      /\ req' = [req EXCEPT ![c] = IF id \in Live(cases) THEN next ELSE gap]
  BY Zenon DEF ReadCase
<1>2. /\ r = [op |-> "run", asked |-> r.asked, at |-> r.at, read |-> r.read, api |-> r.api, ui |-> r.ui]
      /\ PayloadsGood(r.api) /\ PayloadsGood(r.ui)
  BY <1>1 DEF IInv, ReqInv
<1>3. /\ r.at \in Nat /\ IsList(r.read) /\ Whole(runs, cases, r, n)
      /\ \A o \in Sent(r) : \E i \in 1 .. Len(r.read) : r.read[i] = o
  BY <1>1 DEF WInv, ReqsWhole, ReqWhole
<1>4. n < Len(r.asked) /\ n + 1 = r.at /\ id = r.asked[n + 1]
  <2>1. Len(r.asked) \in Nat
    BY <1>3 DEF Whole, Given, IsList
  <2> QED
    BY <1>1, <1>3, <2>1
<1> HIDE DEF r, n
<1> DEFINE q == IF id \in Live(cases) THEN next ELSE gap
<1>5. ASSUME id \in Live(cases) PROVE ReqWhole(runs, cases, next)
  <2>1. IsData(cases[id].data) /\ RowRight(runs, cases[id])
    BY <1>5 DEF IInv, CasesInv, WInv, RowsRight
  <2>2. IsCase(p.case) /\ PayRight(runs, p) /\ p.id = id
    BY <2>1, PayloadGood, PayloadRight
  <2> DEFINE read == Append(r.read, p)
  <2> HIDE DEF p
  <2>3. PICK api, ui :
          /\ PayloadsGood(api) /\ PayloadsGood(ui)
          /\ (api = Append(r.api, p) /\ ui = r.ui) \/ (api = r.api /\ ui = Append(r.ui, p))
          /\ next = [op |-> "run", asked |-> r.asked, at |-> r.at + 1, read |-> read, api |-> api, ui |-> ui]
    BY <1>2, <2>2, SortedFields, Zenon
  <2> HIDE DEF read, next, gap, id
  <2>4. /\ next.op = "run" /\ next.asked = r.asked /\ next.at = r.at + 1 /\ next.read = read
        /\ next.api = api /\ next.ui = ui
    BY <2>3
  <2>5. Whole(runs, cases, next, n + 1) /\ Sent(next) = Sent(r) \cup {p}
    <3>1. Joins(r, p, next) /\ p.id = r.asked[n + 1]
      BY <1>4, <2>2, <2>3, <2>4 DEF Joins
    <3> QED
      BY <1>3, <1>4, <2>2, <3>1, ReadWhole
  <2>6. IsList(read) /\ \A o \in Sent(r) \cup {p} : \E i \in 1 .. Len(read) : read[i] = o
    <3> DEFINE m == Len(r.read)
    <3>1. IsList(read) /\ Len(read) = m + 1 /\ m \in Nat /\ \A i \in 1 .. m + 1 : read[i] = IF i <= m THEN r.read[i] ELSE p
      BY <1>3, AppendList DEF IsList, read
    <3>2. \A i \in 1 .. m : i \in 1 .. m + 1 /\ read[i] = r.read[i]
      BY <3>1
    <3>3. m + 1 \in 1 .. m + 1 /\ read[m + 1] = p
      BY <3>1
    <3> HIDE DEF m
    <3> QED
      BY <1>3, <3>1, <3>2, <3>3 DEF m
  <2>7. next.at \in Nat /\ next.at - 1 = n + 1
    BY <1>3, <1>4, <2>4
  <2>8. ReqWhole(runs, cases, next)
    BY <2>4, <2>5, <2>6, <2>7 DEF ReqWhole
  <2> QED
    BY <2>8
<1>6. ASSUME id \notin Live(cases) PROVE ReqWhole(runs, cases, gap)
  <2> DEFINE at == AfterMissing(r)
  <2>1. at = r.at + 1
    BY DEF AfterMissing
  <2> HIDE DEF at, next, id
  <2>2. gap = [op |-> "run", asked |-> r.asked, at |-> at, read |-> r.read, api |-> r.api, ui |-> r.ui]
    BY <1>2 DEF at
  <2> HIDE DEF gap
  <2>3. /\ gap.op = "run" /\ gap.asked = r.asked /\ gap.at = r.at + 1 /\ gap.read = r.read
        /\ gap.api = r.api /\ gap.ui = r.ui
    BY <2>1, <2>2
  <2>4. Whole(runs, cases, gap, n + 1) /\ Sent(gap) = Sent(r)
    BY <1>3, <1>4, <1>6, <2>3, GapWhole
  <2>5. gap.at \in Nat /\ gap.at - 1 = n + 1
    BY <1>3, <1>4, <2>3
  <2>6. ReqWhole(runs, cases, gap)
    BY <1>3, <2>3, <2>4, <2>5 DEF ReqWhole
  <2> QED
    BY <2>6
<1>7. ReqWhole(runs, cases, q) /\ req' = [req EXCEPT ![c] = q]
  BY <1>1, <1>5, <1>6, Zenon
<1> HIDE DEF q
<1>8. \A k \in Clients : req'[k] = req[k] \/ ReqWhole(runs, cases, req'[k])
  BY <1>7
<1> QED
  BY <1>1, <1>8, SameAges, CasesOnlyStep

(* A suite's run whose cases come from a run with an address has one.       *)
LEMMA Aimed ==
  ASSUME NEW r, IsList(r.read), NEW k \in 1 .. Len(r.read), Reaches(runs, r.read[k].run)
  PROVE  TargetOf(r) # Suite
<1> DEFINE I == {i \in 1 .. Len(r.read) : Reachable(r.read[i].run)}
           first == SelectInSeq(r.read, LAMBDA p : Reachable(p.run))
<1>1. first = IF I # {} THEN Min(I) ELSE 0
  BY DEF SelectInSeq
<1>2. SourceTarget(r.read) = IF first = 0 THEN Suite ELSE runs[r.read[first].run].target
  BY Zenon DEF SourceTarget
<1> HIDE DEF first
<1>3. Len(r.read) \in Nat /\ k \in I
  BY DEF IsList, Reachable, Reaches
<1>4. first # 0 /\ first \in I
  BY <1>1, <1>3, FirstIn
<1>5. ~Absolute(Suite)
  BY DEF Absolute, Suite
<1>6. SourceTarget(r.read) # Suite
  BY <1>2, <1>4, <1>5 DEF Reachable
<1> QED
  BY <1>6, Zenon DEF TargetOf

LEMMA SuiteRunWhole ==
  ASSUME IInv, WInv, NEW c \in Clients, RunSuite(c), NEW rs, AgeRuns(runs, rs), DOMAIN rs = RunIds
  PROVE  RunWhole(rs, cases, SuiteRun(req[c])) /\ SuiteRun(req[c]) \notin {Free, Gone}
<1> DEFINE r == req[c]
           x == SuiteRun(r)
           d == x.suite
<1>1. r.op = "run" /\ r.at > Len(r.asked)
  BY DEF RunSuite
<1>2. PayloadsGood(r.api) /\ PayloadsGood(r.ui)
  BY <1>1 DEF IInv, ReqInv
<1>3. /\ r.at \in Nat /\ IsList(r.read) /\ Whole(runs, cases, r, r.at - 1)
      /\ \A p \in Sent(r) : \E i \in 1 .. Len(r.read) : r.read[i] = p
  BY <1>1 DEF WInv, ReqsWhole, ReqWhole
<1>4. r.at - 1 = Len(r.asked)
  BY <1>1, <1>3 DEF Whole, Given, IsList
<1>5. /\ IsRun(x) /\ x.status = "queued" /\ x.target = TargetOf(r)
      /\ d.asked = r.asked /\ d.api = r.api /\ d.ui = r.ui
  BY <1>2, SuiteRunGood DEF GoodRun
<1> HIDE DEF x, r
<1>6. Sent(d) = Sent(r)
  BY <1>5 DEF Sent
<1>7. Whole(runs, cases, d, Len(d.asked))
  BY <1>3, <1>4, <1>5, <1>6 DEF Whole
<1>8. Whole(rs, cases, d, Len(d.asked))
  BY <1>7, SameAges, WholeAges
<1>9. ASSUME NEW p \in Sent(d), Reaches(rs, p.run) PROVE x.target # Suite
  <2>1. p.run # None
    BY <1>9, IdsAssumption DEF Reaches, Live
  <2>2. Reaches(runs, p.run)
    BY <1>7, <1>9, <2>1, PayAges DEF Whole
  <2> QED
    BY <1>3, <1>5, <1>6, <2>2, Aimed
<1>10. x.status \in Statuses /\ x \notin {Free, Gone}
  BY <1>5, NotEmpty DEF Statuses, Active
<1> QED
  BY <1>8, <1>9, <1>10 DEF RunWhole, x, r

LEMMA RunSuiteWhole ==
  ASSUME IInv, IInv', WInv, NEW c \in Clients, RunSuite(c)
  PROVE  WInv'
<1> DEFINE new == NewId(runs)
           x == SuiteRun(req[c])
<1>1. req' = [req EXCEPT ![c] = Idle] /\ UNCHANGED <<cases, suites, requests>>
  BY DEF RunSuite
<1>2. \A k \in Clients : req'[k] = req[k] \/ ReqWhole(runs, cases, req'[k])
  BY <1>1, IdleWhole
<1>3. CASE UNCHANGED runs
  BY <1>1, <1>2, <1>3, SameAges, CasesOnlyStep
<1>4. CASE Unused(runs) # {} /\ runs' = [runs EXCEPT ![new] = x]
  <2>1. new \in DOMAIN runs /\ runs[new] = Free
    BY <1>4, NewIdUnused DEF IInv, Unused
  <2> HIDE DEF new, x
  <2>2. AgeRuns(runs, runs') /\ DOMAIN runs' = RunIds
    BY <1>4, <2>1, SetAgesRuns DEF IInv, RunsInv
  <2>3. RunWhole(runs', cases', x)
    BY <1>1, <2>2, SuiteRunWhole DEF x
  <2>4. runs'[new] = x /\ \A r \in Live(runs') : r = new \/ (runs'[r] = runs[r] /\ r \in Live(runs))
    BY <1>4, <2>1 DEF Live
  <2>5. new \notin Live(runs)
    BY <2>1 DEF Live
  <2>6. \A r \in Live(runs') \cap Live(runs) :
          runs'[r].suite = runs[r].suite /\ runs'[r].origin = runs[r].origin /\ runs'[r].status \in Statuses
    BY <2>4, <2>5, RunsStay DEF WInv
  <2>7. Ages(cases, cases')
    BY <1>1, SameAges
  <2>8. RunsWhole'
    BY <2>2, <2>3, <2>4, <2>6, <2>7, RunsWholeKept DEF WInv, IInv
  <2>9. RowsRight'
    BY <1>1, <2>2, RowsRightKept DEF WInv
  <2>10. ListsGiven'
    BY <1>1, <2>7, ListsGivenKept DEF WInv
  <2>11. ReqsWhole'
    BY <1>2, <2>2, <2>7, ReqsWholeKept DEF WInv
  <2> QED
    BY <1>1, <2>8, <2>9, <2>10, <2>11, Counted DEF WInv
<1> QED
  BY <1>3, <1>4 DEF RunSuite

LEMMA InitWhole == Init => WInv
<1> SUFFICES ASSUME Init PROVE WInv
  OBVIOUS
<1>1. requests \in 0 .. MaxRequests
  BY BoundsAssumption DEF Init
<1>2. RunsWhole
  <2> SUFFICES ASSUME NEW r \in Live(runs) PROVE RunWhole(runs, cases, runs[r])
    BY DEF RunsWhole
  <2>1. r \in DOMAIN Runs /\ runs[r] = Runs[r]
    BY DEF Init, Live
  <2>2. Runs[r].suite = NoSuite /\ Runs[r].status \in Statuses
    BY <2>1, RunsAssumption, Zenon DEF NoSuite
  <2> QED
    BY <2>1, <2>2 DEF RunWhole
<1>3. RowsRight /\ ListsGiven
  BY DEF Init, RowsRight, ListsGiven, Live
<1>4. ReqsWhole
  BY IdleWhole DEF Init, ReqsWhole
<1> QED
  BY <1>1, <1>2, <1>3, <1>4 DEF WInv

LEMMA WholeKept == IInv /\ IInv' /\ WInv /\ [Next]_vars => WInv'
<1> SUFFICES ASSUME IInv, IInv', WInv, [Next]_vars PROVE WInv'
  OBVIOUS
<1>1. ASSUME NEW run \in RunIds, DeleteRun(run) PROVE WInv'
  BY <1>1, DeleteRunWhole
<1>2. ASSUME NEW run \in RunIds, Rerun(run) PROVE WInv'
  BY <1>2, RerunWhole
<1>3. ASSUME NEW run \in RunIds, StartRun(run) PROVE WInv'
  BY <1>3, StartRunWhole
<1>4. ASSUME NEW run \in RunIds, NEW accepted \in Accepted, Save(run, accepted) PROVE WInv'
  BY <1>4, SaveWhole
<1>5. ASSUME NEW run \in RunIds, NEW text \in Texts, Intervene(run, text) PROVE WInv'
  BY <1>5, InterveneWhole
<1>6. ASSUME NEW row \in UserRows, CreateCase(row) PROVE WInv'
  BY <1>6, CreateCaseWhole
<1>7. ASSUME NEW row \in UserRows, NEW id \in CaseIds, UpdateCase(id, row) PROVE WInv'
  BY <1>7, UpdateCaseWhole
<1>8. ASSUME NEW ids \in Lists, CreateSuite(ids) PROVE WInv'
  BY <1>8, SuiteSteps
<1>9. ASSUME NEW ids \in Lists, NEW s \in SuiteIds, UpdateSuite(s, ids) PROVE WInv'
  BY <1>9, SuiteSteps
<1>10. ASSUME NEW s \in SuiteIds, DeleteSuite(s) PROVE WInv'
  BY <1>10, SuiteSteps
<1>11. ASSUME NEW c \in Clients, NEW id \in CaseIds, ReadSuites(c, id) PROVE WInv'
  BY <1>11, ReadSuitesWhole
<1>12. ASSUME NEW c \in Clients, NEW s \in SuiteIds, ReadSuite(c, s) PROVE WInv'
  BY <1>12, ReadSuiteWhole
<1>13. ASSUME NEW c \in Clients, CommitDelete(c) PROVE WInv'
  BY <1>13, CommitDeleteWhole
<1>14. ASSUME NEW c \in Clients, ReadCase(c) PROVE WInv'
  BY <1>14, ReadCaseWhole
<1>15. ASSUME NEW c \in Clients, RunSuite(c) PROVE WInv'
  BY <1>15, RunSuiteWhole
<1>16. ASSUME NEW run \in RunIds, Plan(run) PROVE WInv'
  BY <1>16, PlanWhole
<1>17. ASSUME NEW run \in RunIds, NEW list \in {"api_cases", "ui_cases"}, NEW made \in Generated,
              Replan(run, list, made)
       PROVE  WInv'
  BY <1>17, ReplanWhole
<1>18. CASE UNCHANGED vars
  <2>1. UNCHANGED <<runs, cases, suites, req, requests>>
    BY <1>18 DEF vars
  <2> QED
    BY <2>1, SameAges, CasesOnlyStep
<1> QED
  BY <1>1, <1>2, <1>3, <1>4, <1>5, <1>6, <1>7, <1>8, <1>9, <1>10, <1>11, <1>12, <1>13, <1>14, <1>15, <1>16, <1>17,
     <1>18 DEF Next

LEMMA WholeInvariance == Spec => []WInv
<1>1. Init => WInv
  BY InitWhole
<1>2. IInv /\ IInv' /\ WInv /\ [Next]_vars => WInv'
  BY WholeKept
<1> QED
  BY <1>1, <1>2, Invariance, PTL DEF Spec

LEMMA TypeLemma == IInv /\ WInv => TypeOK
<1> SUFFICES ASSUME IInv, WInv PROVE TypeOK
  OBVIOUS
<1>1. ASSUME NEW r \in Live(runs)
      PROVE  /\ runs[r].status \in Statuses
             /\ runs[r].log.continuation # None => runs[runs[r].log.continuation] # Free
  BY RunsStay DEF WInv, IInv, LinkInv
<1>2. ASSUME NEW id \in Live(cases)
      PROVE  cases[id].kind \in Kinds /\ (cases[id].run # None => runs[cases[id].run] # Free)
  BY DEF WInv, RowsRight, RowRight, Known
<1>3. ASSUME NEW s \in Live(suites)
      PROVE  \A i \in DOMAIN suites[s].ids : cases[suites[s].ids[i]] # Free
  <2>1. Given(cases, suites[s].ids)
    BY DEF WInv, ListsGiven
  <2> QED
    BY <2>1, ListDomain DEF Given
<1>4. ASSUME NEW c \in Clients PROVE req[c].op \in {"none", "delete", "run"}
  BY DEF WInv, ReqsWhole, ReqWhole
<1>5. requests \in 0 .. MaxRequests
  BY DEF WInv
<1> QED
  BY <1>1, <1>2, <1>3, <1>4, <1>5 DEF TypeOK

LEMMA WholeLemma == WInv => SuiteRunsAreWhole
<1> SUFFICES ASSUME WInv PROVE SuiteRunsAreWhole
  OBVIOUS
<1>1. ASSUME NEW r \in SuiteRuns
      PROVE  LET d == runs[r].suite
             IN  /\ Whole(runs, cases, d, Len(d.asked))
                 /\ (\E p \in Sent(d) : Reaches(runs, p.run)) => runs[r].target # Suite
  BY DEF SuiteRuns, WInv, RunsWhole, RunWhole
<1>2. RunsWhatIsThere
  <2> SUFFICES ASSUME NEW r \in SuiteRuns
               PROVE  LET d == runs[r].suite
                      IN  /\ Within(d, d.api) /\ Within(d, d.ui)
                          /\ \A i \in DOMAIN d.asked : d.asked[i] \in Live(cases) => \E p \in Sent(d) : p.id = d.asked[i]
    BY DEF RunsWhatIsThere
  <2> DEFINE d == runs[r].suite
  <2>1. Whole(runs, cases, d, Len(d.asked))
    BY <1>1
  <2> HIDE DEF d
  <2>2. DOMAIN d.asked = 1 .. Len(d.asked)
    BY <2>1, ListDomain DEF Whole, Given
  <2>3. ASSUME NEW ps, IsList(ps), Follow(d.asked, Len(d.asked), ps) PROVE Within(d, ps)
    <3>1. DOMAIN ps = 1 .. Len(ps)
      BY <2>3, ListDomain
    <3> QED
      BY <2>2, <2>3, <3>1, Zenon DEF Follow, Within
  <2>4. Within(d, d.api) /\ Within(d, d.ui)
    BY <2>1, <2>3 DEF Whole
  <2> QED
    BY <2>1, <2>2, <2>4 DEF Whole, d
<1>3. ApiCasesSurvive
  BY <1>1 DEF ApiCasesSurvive, Whole, PayRight, Sendable, Reaches, Reachable
<1>4. SuiteIsAimed
  BY <1>1 DEF SuiteIsAimed, Reaches, Reachable
<1> QED
  BY <1>2, <1>3, <1>4 DEF SuiteRunsAreWhole

(* Every row is what the store may hold: a run's continuation, the run a    *)
(* case comes from and the cases a suite names were all given out, though   *)
(* they may be deleted since, and a row's kind and a run's status are of    *)
(* the few that there are.                                                 *)
THEOREM TypeCorrect == Spec => []TypeOK
BY Invariance, WholeInvariance, TypeLemma, PTL

(* However cases, suites and runs are edited and deleted while a suite is   *)
(* read, its run has every case of the list that is left and nothing else,  *)
(* in the list's order; an API case saved with its request is an API case   *)
(* in it, with an address if its own run had one; and the run goes to an    *)
(* address if one of the runs its cases come from did (run_suite,          *)
(* _case_to_suite_payload, _extract_suite_source_run_target_url).          *)
THEOREM SuiteRunsWhole == Spec => []SuiteRunsAreWhole
BY WholeInvariance, WholeLemma, PTL

=============================================================================
