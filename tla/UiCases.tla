------------------------------- MODULE UiCases -------------------------------
(***************************************************************************)
(* What agent/nodes/ui_test_planner.py plans: the elements it reads from a *)
(* snapshot, the business cases it builds from them, the model's cases it  *)
(* keeps and the commands and actions each case is given.  An element is   *)
(* [ref, role, text, words, pointer]: words are the word lists its text    *)
(* matches, and the text of an unnamed element is its role.                *)
(***************************************************************************)
EXTENDS UiCommands, FiniteSetsExt

CONSTANTS MaxCases,      \* _MAX_AUTH_CASES
          MaxItems       \* how many elements of one kind are looked at

UpTo(s, n) == SubSeq(s, 1, IF Len(s) < n THEN Len(s) ELSE n)
FirstOf(s, Key(_)) ==
  LET firsts == SelectSeq([i \in DOMAIN s |-> i], LAMBDA i : \A j \in 1..(i - 1) : Key(s[j]) # Key(s[i]))
  IN MapSeq(LAMBDA i : s[i], firsts)

(* Elements worth a case. *)
LinkRoles == {"link", "menuitem", "tab", "treeitem"}
ItemScore(e) ==
  LET score == (IF e.role \in LinkRoles THEN 3 ELSE 0) + (IF e.pointer THEN 1 ELSE 0)
  IN IF score = 0 /\ e.role \in {"button", "generic"} THEN 1 ELSE score
IsItem(e) == e.role \in LinkRoles \cup {"button", "option", "generic"} /\ e.text # None /\ "cancel" \notin e.words
Items(page, n) ==
  LET found == FirstOf(SelectSeq(page, IsItem), LAMBDA e : e.text)
      scored(k) == SelectSeq(found, LAMBDA e : ItemScore(e) = k)
  IN UpTo(scored(4) \o scored(3) \o scored(1) \o scored(0), n)
IsControl(e) == e.role \in {"textbox", "searchbox", "combobox", "checkbox", "radio", "spinbutton"}
Controls(page) == UpTo(FirstOf(SelectSeq(page, IsControl), LAMBDA e : <<e.role, e.ref>>), MaxItems)
IsRegion(e) == e.role \in {"table", "grid", "row", "cell", "list", "listitem", "treegrid"}
Regions(page) == UpTo(FirstOf(SelectSeq(page, IsRegion), LAMBDA e : <<e.role, e.ref>>), MaxItems)

(* The operation an element stands for: the first word list that matches. *)
Operations == <<"create", "search", "update", "delete", "export", "refresh">>
Operation(e) ==
  LET i == SelectInSeq(Operations, LAMBDA w : w \in e.words)
  IN IF i # 0 THEN Operations[i] ELSE IF e.role \in {"button", "generic"} THEN "interaction" ELSE "navigation"
FirstWith(items, ops) ==
  LET i == SelectInSeq(items, LAMBDA e : Operation(e) \in ops)
  IN IF i = 0 THEN <<>> ELSE <<items[i]>>

(* Commands name what they act on, unless it has no name. *)
Named(e) == e.text \notin {None, e.role}
ClickItem(e) == Cmd("click", IF e.text # None THEN e.text ELSE e.ref, None)
ClickControl(e) == Cmd("click", IF Named(e) THEN e.text ELSE e.ref, None)
Fill(e, v) == Cmd("fill", IF Named(e) THEN e.text ELSE e.ref, v)
Look == <<Plain("snapshot"), Plain("screenshot")>>
Value == "TestClaw-Auto"

(* A case: what it is called, what its text says it is about, the context  *)
(* it asks for, the element it is about, and its commands in three forms.  *)
Case(title, category, target, commands) ==
  [title |-> title, category |-> category, login |-> FALSE, auth |-> "yes", source |-> "snapshot",
   target |-> target, steps |-> <<>>, commands |-> commands, raw |-> <<>>, actions |-> <<>>]

HomeCase == Case(<<"home", None>>, "AUTHENTICATED_HOME", None, Look \o <<Plain("reload")>> \o Look)
ActionCase(e) ==
  LET op == Operation(e)
      before == <<Plain("snapshot"), ClickItem(e)>> \o Look
  IN Case(<<op, e.text>>,
          CASE op \in {"create", "search"} -> "FORM"
            [] op \in {"update", "delete", "export"} -> "INTERACTION"
            [] op = "refresh" -> "DATA_DISPLAY"
            [] OTHER -> "BUSINESS_NAVIGATION",
          e.text, before \o (IF op = "delete" THEN <<Plain("dialog-dismiss")>> ELSE <<>>) \o Look)
ControlCase(e, items) ==
  LET search == FirstWith(items, {"search"})
      typed == <<Fill(e, Value)>> \o MapSeq(ClickItem, search) \o Look \o Look
      body == CASE e.role \in {"textbox", "searchbox", "spinbutton"} -> typed
                [] e.role \in {"checkbox", "radio"} ->
                     <<Cmd("check", e.ref, None)>> \o Look \o <<Cmd("uncheck", e.ref, None)>> \o Look
                [] OTHER -> <<Cmd("click", e.ref, None)>> \o Look
  IN Case(<<"control", e.text>>, "FORM", e.text, <<Plain("snapshot")>> \o body)
SearchCase(controls, items) ==
  LET box == SelectInSeq(controls, LAMBDA e : e.role = "searchbox")
      other == SelectInSeq(controls, LAMBDA e : e.role \in {"textbox", "combobox"})
      e == controls[IF box # 0 THEN box ELSE other]
      types == e.role \in {"textbox", "searchbox"}
      go == MapSeq(ClickItem, FirstWith(items, {"search"}))
      clear == IF types THEN <<Fill(e, None)>> \o go \o Look ELSE <<>>
  IN IF box = 0 /\ other = 0 THEN <<>>
     ELSE <<Case(<<"search flow", None>>, "FORM", e.text,
                 <<Plain("snapshot"), IF types THEN Fill(e, Value) ELSE ClickControl(e)>> \o go \o Look \o clear)>>
DetailCase(regions, items) ==
  LET at == SelectInSeq(items, LAMBDA e : "detail" \in e.words)
  IN IF regions = <<>> THEN <<>>
     ELSE <<Case(<<"record detail", None>>, "DATA_DISPLAY", regions[1].text,
                 <<Plain("snapshot")>>
                   \o (IF at = 0 THEN Look ELSE <<ClickItem(items[at])>> \o Look \o <<Plain("go-back")>> \o Look))>>
FormCase(items) ==
  LET create == FirstWith(items, {"create"})
      entry == IF create # <<>> THEN create ELSE FirstWith(items, {"update"})
  IN IF entry = <<>> THEN <<>>
     ELSE <<Case(<<"form", entry[1].text>>, "FORM", entry[1].text,
                 <<Plain("snapshot"), ClickItem(entry[1])>> \o Look)>>
ByTitle(case) == case.title
PreparedCases(page) ==
  LET items == Items(page, MaxCases)
      controls == Controls(page)
      own == <<HomeCase>> \o SearchCase(controls, items) \o DetailCase(Regions(page), items) \o FormCase(items)
      all == own \o MapSeq(ActionCase, items) \o MapSeq(LAMBDA e : ControlCase(e, items), controls)
  IN UpTo(FirstOf(all, ByTitle), MaxCases)
PublicCases(page) == MapSeq(LAMBDA x : [x EXCEPT !.auth = "no", !.source = "public"], PreparedCases(page))

(* Cases the model wrote are kept when they are worth more than these. *)
Passive == Navigation \cup {"snapshot", "screenshot"}
LowTitles == {"page load", "links", "console", "layout"} \X {None}
LowValue(case, prepared) ==
  \/ prepared /\ (case.category = "AUTH" \/ case.login)
  \/ prepared /\ case.commands # <<>> /\ \A i \in DOMAIN case.commands : case.commands[i].name \in Passive
  \/ case.title \in LowTitles
Useful(case, prepared) ==
  ~LowValue(case, prepared) /\ (prepared => case.auth = "yes" \/ case.source = "snapshot")
Merge(cases, business, prepared) ==
  LET useful == SelectSeq(cases, LAMBDA x : Useful(x, prepared))
      kept == MapSeq(LAMBDA x : IF prepared /\ x.auth = "unset" THEN [x EXCEPT !.auth = "yes"] ELSE x, useful)
      new == SelectSeq(kept, LAMBDA x : \A i \in DOMAIN business : x.title # business[i].title)
  IN IF business = <<>> THEN cases ELSE UpTo(business \o new, MaxCases)

(* Every planned case is given its commands and actions. *)
NormalizeCase(case) ==
  LET known == Known(case.commands)
  IN IF case.commands = <<>> THEN case
     ELSE [case EXCEPT !.raw = case.commands, !.commands = known,
                       !.actions = IF case.actions # <<>> THEN case.actions ELSE StructuredAll(known)]
FallbackCase(title, category, url) ==
  [Case(<<title, None>>, category, None, <<Cmd("open", url, None)>> \o Look) EXCEPT !.auth = "unset", !.source = "fallback"]
FallbackCases(url) ==
  <<FallbackCase("page load", "PAGE_LOAD", url), FallbackCase("links", "NAVIGATION", url),
    FallbackCase("console", "ERROR_DISPLAY", url), FallbackCase("layout", "PAGE_LOAD", url)>>
=============================================================================
