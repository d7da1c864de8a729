------------------------- MODULE PlanSession_proofs -------------------------
(***************************************************************************)
(* The row of a planning session agrees with its messages and its lock,    *)
(* the runs created from it are wanted, and what a turn answers follows    *)
(* from what the user said: RowAgrees, RunsAreWanted, TurnsServeTheUser    *)
(* and TypeOK, for every number of clients, texts, model answers and       *)
(* questionnaires.                                                         *)
(*                                                                         *)
(* Three invariants.  IInv says what a row, a copy and a run are: a plan   *)
(* that is stored anywhere has its questions answered, a run's number is   *)
(* known before it is written, and, as long as no requests overlapped, the *)
(* only request in progress has the row as its copy.  TInv is about the    *)
(* conversation: each plan offered follows from what was said before it.   *)
(* CInv counts what the requests in progress may still write.              *)
(***************************************************************************)
EXTENDS PlanSession, FiniteSetTheorems, NaturalsInduction, WellFoundedInduction, TLAPS

\* No question about the payload is open.
Answered(p) ==
  /\ p.src # None
  /\ p.src \in Documents => p.base
  /\ p.kind = "ui" => p.mode # "auto" \/ HasMaterial(p)

Offered(p) == p = NoPlan \/ Answered(p)

Columns == {"status", "plan", "payload"}

\* A row in the table, of a session from which n runs were created.
LiveRow(r, n) ==
  /\ DOMAIN r = Columns \cup {"run"}
  /\ r.run \in 0 .. n
  /\ r.status = "executed" => r.run # 0
  /\ Offered(r.payload)

RowOk(r, n) == r = Gone \/ LiveRow(r, n)

\* What turns, rejections, rollbacks and the questionnaire write.
Setting(new) ==
  /\ DOMAIN new = Columns
  /\ new.status \in {"collecting", "ready"}
  /\ Offered(new.payload)

Holds(r, new) == \A k \in Columns : r[k] = new[k]

MessageOk(m, now) ==
  /\ m.at \in 1 .. now
  /\ m.body.role = "assistant" => Offered(m.body.payload)

\* A request at the place p with the operation o, its copy r of the row and the messages ms it saw.
ClientOk(p, o, r, ms, n, now) ==
  /\ p \in {"idle", "loaded", "turn", "created"}
  /\ p # "idle" =>
       /\ LiveRow(r, n)
       /\ \A m \in ms : MessageOk(m, now)
       /\ o.kind # "delete" => r.status # "executed"
       /\ o.kind \in {"edit", "rollback"} => o.at \in 1 .. now
       /\ p = "turn" => o.kind \in {"message", "edit"} /\ o.at \in 1 .. now
       /\ o.kind = "execute" => r.payload # NoPlan
       /\ p = "created" => o.kind = "execute" /\ o.run \in 1 .. n /\ r.run < o.run

Data ==
  /\ clock \in Nat
  /\ \E S : runs \in Seq(S)
  /\ \A i \in 1 .. Len(runs) : Answered(runs[i])
  /\ RowOk(row, Len(runs))
  /\ \A m \in msgs : MessageOk(m, clock)
  /\ DOMAIN pc = Clients /\ DOMAIN op = Clients /\ DOMAIN copy = Clients
  /\ DOMAIN seen = Clients /\ DOMAIN form = Clients
  /\ \A c \in Clients : ClientOk(pc[c], op[c], copy[c], seen[c], Len(runs), clock)

LockInv ==
  lock # None => lock \in Clients /\ pc[lock] = "turn" /\ op[lock].kind = "edit" /\ row # Gone

\* What a request leaves behind when no other was in progress.
Settled ==
  /\ forms = << >> \/ DOMAIN forms = {1}
  /\ row = Gone => msgs = {} /\ forms = << >>
  /\ forms = << >> /\ row # Gone /\ row.status # "executed" => Holds(row, Restored(msgs))
  /\ msgs = {} /\ row # Gone /\ row.payload # NoPlan =>
       DOMAIN forms = {1} /\ \A s \in Required : forms[1][s].status = "confirmed"

\* There is one request, and it knows what is there.
Alone ==
  /\ \A c, d \in Clients : pc[c] # "idle" /\ pc[d] # "idle" => c = d
  /\ \A c \in Clients : pc[c] # "idle" =>
       /\ copy[c] = row
       /\ pc[c] = "loaded" => seen[c] = msgs
       /\ op[c].kind = "intake" =>
            IF form[c].at = 0 THEN forms = << >>
            ELSE form[c].at \in DOMAIN forms /\ form[c].steps = forms[form[c].at]

\* The one run and the session that is to name it.
RunOnce ==
  /\ Len(runs) \in {0, 1}
  /\ Len(runs) = 1 => row = Gone \/ row.status = "executed" \/ \E c \in Clients : pc[c] = "created"
  /\ \A c \in Clients : pc[c] \in {"loaded", "turn"} /\ op[c].kind # "delete" => Len(runs) = 0

Order == InOrder => Settled /\ Alone /\ (~died => RunOnce)

IInv == Data /\ LockInv /\ Order

-----------------------------------------------------------------------------
(* Payloads.                                                               *)

(* When no question is open and there is a target, the payload is answered.*)
LEMMA NothingMissing ==
  ASSUME NEW p, NEW recognized, p.src # None, Missing(p, recognized) = << >>
  PROVE  Answered(p)
<1> DEFINE Q == {"base", "auth", "safety", "success"}
           auth    == IF "auth" \in recognized THEN << >> ELSE << "auth" >>
           success == IF "success" \in recognized THEN << >> ELSE << "success" >>
<1>1. auth \in Seq(Q) /\ success \in Seq(Q)
  <2>1. << >> \in Seq(Q) /\ << "auth" >> \in Seq(Q) /\ << "success" >> \in Seq(Q)
    OBVIOUS
  <2> QED
    BY <2>1
<1>2. ASSUME p.src \in Documents, ~p.base PROVE FALSE
  <2>1. Missing(p, recognized) = << "base" >> \o success
    BY <1>2 DEF Missing
  <2> HIDE DEF auth, success
  <2>2. Len(<< "base" >> \o success) # 0
    BY <1>1
  <2> QED
    BY <2>1, <2>2
<1>3. ASSUME p.kind = "ui", p.mode = "auto", ~HasMaterial(p), ~(p.src \in Documents /\ ~p.base)
      PROVE  FALSE
  <2>1. Missing(p, recognized) = auth \o << "safety" >> \o success
    BY <1>3 DEF Missing
  <2> HIDE DEF auth, success
  <2>2. << "safety" >> \in Seq(Q) /\ Len(<< "safety" >>) = 1
    OBVIOUS
  <2>3. auth \o << "safety" >> \in Seq(Q) /\ Len(auth \o << "safety" >>) # 0
    BY <1>1, <2>2
  <2>4. Len(auth \o << "safety" >> \o success) # 0
    BY <1>1, <2>3
  <2> QED
    BY <2>1, <2>4
<1> QED
  BY <1>2, <1>3 DEF Answered

LEMMA TurnIsAnswered ==
  ASSUME NEW llm, NEW ms
  PROVE  Turn(llm, ms).role = "assistant" /\ Offered(Turn(llm, ms).payload)
<1> DEFINE p == Payload(llm, ms)
           questions == Missing(p, Recognized(ms))
           ready == IsReady(llm, p, questions)
<1>1. Turn(llm, ms).role = "assistant" /\ Turn(llm, ms).payload = IF ready THEN p ELSE NoPlan
  BY DEF Turn
<1>2. ready => p.src # None /\ questions = << >>
  BY DEF IsReady
<1> HIDE DEF p
<1>3. ready => Answered(p)
  BY <1>2, NothingMissing
<1> QED
  BY <1>1, <1>3 DEF Offered

LEMMA FormIsSetting ==
  ASSUME NEW f
  PROVE  /\ Setting(FromForm(f))
         /\ FromForm(f).payload # NoPlan => \A s \in Required : f[s].status = "confirmed"
<1> DEFINE p == Payload(Silent, << [role |-> "user", text |-> FormText(f)] >>)
           ready == FormReady(f) /\ p.src # None /\ Missing(p, {}) = << >>
<1>1. FromForm(f) = IF ready THEN [status |-> "ready", plan |-> p, payload |-> p] ELSE Collecting
  BY DEF FromForm
<1> HIDE DEF p
<1>2. ready => Answered(p)
  BY NothingMissing
<1>3. ready => \A s \in Required : f[s].status = "confirmed"
  BY DEF FormReady, Confirmed
<1> QED
  BY <1>1, <1>2, <1>3 DEF Setting, Columns, Offered, Collecting

LEMMA CollectingIsSetting == Setting(Collecting) /\ Collecting.payload = NoPlan
  BY DEF Setting, Collecting, Columns, Offered

LEMMA OfferIsSetting ==
  ASSUME NEW m, Offered(m.payload)
  PROVE  Setting(Offer(m))
  BY DEF Setting, Offer, Columns

-----------------------------------------------------------------------------
(* Rows and messages.                                                      *)

LEMMA WrittenIs ==
  ASSUME NEW r, NEW old, NEW new, NEW n \in Nat, LiveRow(r, n), Setting(new)
  PROVE  /\ LiveRow(Written(r, old, new), n)
         /\ Holds(r, old) => Holds(Written(r, old, new), new)
<1> DEFINE w == Written(r, old, new)
<1>1. DOMAIN w = Columns \cup {"run"}
  BY DEF Written, LiveRow
<1>2. \A k \in Columns : w[k] = IF new[k] # old[k] THEN new[k] ELSE r[k]
  BY DEF Written, LiveRow, Setting
<1>3. w.run = r.run
  BY DEF Written, LiveRow, Setting, Columns
<1> HIDE DEF w
<1>4. w.status \in {new.status, r.status} /\ w.payload \in {new.payload, r.payload}
  BY <1>2 DEF Columns
<1>5. LiveRow(w, n)
  BY <1>1, <1>3, <1>4 DEF LiveRow, Setting
<1>6. Holds(r, old) => Holds(w, new)
  BY <1>2 DEF Holds
<1> QED
  BY <1>5, <1>6 DEF w

LEMMA GoneIsNotLive ==
  ASSUME NEW n PROVE ~LiveRow(Gone, n)
<1>1. DOMAIN Gone = {"status"}
  BY DEF Gone
<1> QED
  BY <1>1 DEF LiveRow, Columns

(* The latest of some messages is one of them.                             *)
LEMMA LatestIs ==
  ASSUME NEW now \in Nat, NEW ms, ms # {}, \A m \in ms : MessageOk(m, now)
  PROVE  Latest(ms) \in ms
<1> DEFINE T == {now - m.at : m \in ms}
<1>1. \A m \in ms : m.at \in Nat /\ now - m.at \in Nat
  BY DEF MessageOk
<1>2. T \subseteq Nat /\ T # {}
  BY <1>1
<1>3. \E u \in T : \A y \in T : ~ (<<y, u>> \in OpToRel(<, Nat))
  BY <1>2, NatLessThanWellFounded, WFMin, Zenon
<1>4. \E u \in T : \A y \in T : ~ (y < u)
  BY <1>2, <1>3 DEF OpToRel
<1>5. PICK u \in T : \A y \in T : ~ (y < u)
  BY <1>4
<1>6. PICK m \in ms : u = now - m.at
  OBVIOUS
<1>7. \A n \in ms : n.at <= m.at
  <2>1. SUFFICES ASSUME NEW n \in ms PROVE n.at <= m.at
    OBVIOUS
  <2>2. now - n.at \in T
    OBVIOUS
  <2>3. ~ (now - n.at < now - m.at)
    BY <1>5, <1>6, <2>2
  <2> QED
    BY <1>1, <2>3
<1> QED
  BY <1>7 DEF Latest

(* A message later than all others is the latest.                          *)
LEMMA NewestIsLatest ==
  ASSUME NEW now \in Nat, NEW ms, NEW new, new.at = now + 1, \A m \in ms : MessageOk(m, now)
  PROVE  Latest(ms \cup {new}) = new
<1> DEFINE all == ms \cup {new}
<1>1. \A m \in ms : m.at \in Nat /\ m.at <= now
  BY DEF MessageOk
<1>2. \A n \in all : n.at <= new.at
  BY <1>1
<1>3. \A m \in all : (\A n \in all : n.at <= m.at) => m = new
  BY <1>1
<1> HIDE DEF all
<1>4. new \in all
  BY DEF all
<1>5. Latest(all) = new
  BY <1>2, <1>3, <1>4 DEF Latest
<1> QED
  BY <1>5 DEF all

LEMMA RestoredIsSetting ==
  ASSUME NEW now \in Nat, NEW ms, \A m \in ms : MessageOk(m, now)
  PROVE  Setting(Restored(ms))
<1>1. CASE ms = {} \/ Latest(ms).body.role # "assistant"
  BY <1>1, CollectingIsSetting DEF Restored
<1>2. CASE ms # {} /\ Latest(ms).body.role = "assistant"
  <2>1. Latest(ms) \in ms
    BY <1>2, LatestIs
  <2>2. Offered(Latest(ms).body.payload)
    BY <1>2, <2>1 DEF MessageOk
  <2> QED
    BY <1>2, <2>2, OfferIsSetting DEF Restored
<1> QED
  BY <1>1, <1>2

LEMMA ClientStays ==
  ASSUME NEW p, NEW o, NEW r, NEW ms, NEW n \in Nat, NEW more \in Nat, NEW now \in Nat, NEW later \in Nat,
         n <= more, now <= later, ClientOk(p, o, r, ms, n, now)
  PROVE  ClientOk(p, o, r, ms, more, later)
  BY DEF ClientOk, LiveRow, MessageOk

-----------------------------------------------------------------------------
(* The steps.                                                              *)

LEMMA InitHolds ==
  ASSUME Init
  PROVE  IInv
<1>1. Data
  <2>1. runs \in Seq({}) /\ Len(runs) = 0
    BY DEF Init
  <2>2. RowOk(row, Len(runs))
    BY <2>1 DEF Init, Fresh, RowOk, LiveRow, Columns, Offered
  <2>3. \A c \in Clients : ClientOk(pc[c], op[c], copy[c], seen[c], Len(runs), clock)
    BY DEF Init, ClientOk
  <2> QED
    BY <2>1, <2>2, <2>3 DEF Init, Data
<1>2. LockInv
  BY DEF Init, LockInv
<1>3. Settled
  BY GoneIsNotLive DEF Init, Settled, Fresh, Holds, Restored, Collecting, Columns, Gone
<1>4. Alone
  BY DEF Init, Alone
<1>5. RunOnce
  BY DEF Init, RunOnce
<1> QED
  BY <1>1, <1>2, <1>3, <1>4, <1>5 DEF IInv, Order

(* A request begins: it knows the row as it is, and is alone unless another*)
(* one is in progress.                                                     *)
LEMMA BeginStep ==
  ASSUME IInv, NEW c \in Clients, NEW o, Begin(c, o), DOMAIN form' = Clients,
         o.kind # "delete" => row.status # "executed",
         o.kind \in {"edit", "rollback"} => o.at \in 1 .. clock,
         o.kind = "execute" => row.payload # NoPlan,
         InOrder /\ o.kind = "intake" =>
           IF form'[c].at = 0 THEN forms = << >>
           ELSE form'[c].at \in DOMAIN forms /\ form'[c].steps = forms[form'[c].at]
  PROVE  IInv'
<1>1. /\ pc[c] = "idle" /\ row # Gone
      /\ op' = [op EXCEPT ![c] = o] /\ pc' = [pc EXCEPT ![c] = "loaded"]
      /\ copy' = [copy EXCEPT ![c] = row] /\ seen' = [seen EXCEPT ![c] = msgs]
      /\ overlap' = (overlap \/ \E d \in Clients \ {c} : pc[d] # "idle")
      /\ row' = row /\ msgs' = msgs /\ forms' = forms /\ runs' = runs /\ lock' = lock
      /\ clock' = clock /\ died' = died
  BY DEF Begin
<1>2. /\ pc'[c] = "loaded" /\ op'[c] = o /\ copy'[c] = row /\ seen'[c] = msgs
      /\ \A d \in Clients \ {c} :
           pc'[d] = pc[d] /\ op'[d] = op[d] /\ copy'[d] = copy[d] /\ seen'[d] = seen[d]
  BY <1>1 DEF IInv, Data
<1>3. Data'
  <2>1. ClientOk("loaded", o, row, msgs, Len(runs), clock)
    BY <1>1 DEF IInv, Data, RowOk, ClientOk
  <2>2. \A d \in Clients : ClientOk(pc'[d], op'[d], copy'[d], seen'[d], Len(runs), clock)
    BY <1>2, <2>1 DEF IInv, Data
  <2>3. /\ DOMAIN pc' = Clients /\ DOMAIN op' = Clients /\ DOMAIN copy' = Clients
        /\ DOMAIN seen' = Clients
    BY <1>1 DEF IInv, Data
  <2> QED
    BY <1>1, <2>2, <2>3 DEF IInv, Data
<1>4. LockInv'
  BY <1>1, <1>2 DEF IInv, LockInv
<1>5. Order'
  <2>1. SUFFICES ASSUME InOrder' PROVE Settled' /\ Alone' /\ (~died' => RunOnce')
    BY DEF Order
  <2>2. InOrder /\ \A d \in Clients \ {c} : pc[d] = "idle"
    BY <1>1, <2>1 DEF InOrder
  <2>3. Settled'
    BY <1>1, <2>2 DEF IInv, Order, Settled
  <2>4. Alone'
    BY <1>1, <1>2, <2>2 DEF Alone
  <2>5. ASSUME ~died' PROVE RunOnce'
    <3>1. RunOnce
      BY <1>1, <2>2, <2>5 DEF IInv, Order
    <3>2. Len(runs) = 1 => row.status = "executed"
      BY <1>1, <2>2, <3>1 DEF RunOnce
    <3>3. Len(runs) \in {0, 1}
      BY <3>1 DEF RunOnce
    <3>4. o.kind # "delete" => Len(runs) = 0
      BY <3>2, <3>3, Zenon
    <3>5. \A d \in Clients \ {c} : pc'[d] = "idle"
      BY <1>2, <2>2
    <3> QED
      BY <1>1, <1>2, <3>2, <3>3, <3>4, <3>5 DEF RunOnce
  <2> QED
    BY <2>3, <2>4, <2>5
<1> QED
  BY <1>3, <1>4, <1>5 DEF IInv

(* A request ends, whatever it wrote: what it wrote alone must be settled. *)
LEMMA EndStep ==
  ASSUME IInv, NEW c \in Clients, pc[c] # "idle", End(c),
         runs' = runs, overlap' = overlap, clock' \in Nat, clock <= clock',
         lock' = Released(c), Free(c) \/ row' = row,
         RowOk(row', Len(runs)), \A m \in msgs' : MessageOk(m, clock'),
         InOrder => Settled',
         InOrder /\ ~died' => ~died /\ (Len(runs) = 1 => row' = Gone \/ row'.status = "executed")
  PROVE  IInv'
<1>1. /\ pc' = [pc EXCEPT ![c] = "idle"] /\ op' = [op EXCEPT ![c] = Idle]
      /\ copy' = [copy EXCEPT ![c] = Gone] /\ seen' = [seen EXCEPT ![c] = {}]
      /\ form' = [form EXCEPT ![c] = NoForm]
  BY DEF End
<1>2. /\ pc'[c] = "idle"
      /\ \A d \in Clients \ {c} :
           pc'[d] = pc[d] /\ op'[d] = op[d] /\ copy'[d] = copy[d] /\ seen'[d] = seen[d]
  BY <1>1 DEF IInv, Data
<1>3. Data'
  <2>1. \A d \in Clients : ClientOk(pc'[d], op'[d], copy'[d], seen'[d], Len(runs), clock')
    <3>1. ClientOk(pc'[c], op'[c], copy'[c], seen'[c], Len(runs), clock')
      BY <1>2 DEF ClientOk
    <3>2. \A d \in Clients \ {c} : ClientOk(pc[d], op[d], copy[d], seen[d], Len(runs), clock')
      BY ClientStays DEF IInv, Data
    <3> QED
      BY <1>2, <3>1, <3>2
  <2>2. /\ DOMAIN pc' = Clients /\ DOMAIN op' = Clients /\ DOMAIN copy' = Clients
        /\ DOMAIN seen' = Clients /\ DOMAIN form' = Clients
    BY <1>1 DEF IInv, Data
  <2> QED
    BY <2>1, <2>2 DEF IInv, Data
<1>4. LockInv'
  BY <1>2 DEF IInv, LockInv, Released, Free
<1>5. Order'
  <2>1. SUFFICES ASSUME InOrder' PROVE Settled' /\ Alone' /\ (~died' => RunOnce')
    BY DEF Order
  <2>2. InOrder
    BY <2>1 DEF InOrder
  <2>3. \A d \in Clients : pc'[d] = "idle"
    BY <1>2, <2>2 DEF IInv, Order, Alone
  <2>4. Alone'
    BY <2>3 DEF Alone
  <2>5. ASSUME ~died' PROVE RunOnce'
    BY <2>2, <2>3, <2>5 DEF IInv, Order, RunOnce
  <2> QED
    BY <2>2, <2>4, <2>5
<1> QED
  BY <1>3, <1>4, <1>5 DEF IInv

(* What a request writes that read the row as it is.                       *)
LEMMA OneRequest ==
  ASSUME IInv, NEW c \in Clients, pc[c] # "idle"
  PROVE  /\ LiveRow(copy[c], Len(runs)) /\ Len(runs) \in Nat /\ clock \in Nat
         /\ \A m \in seen[c] : MessageOk(m, clock)
         /\ InOrder => /\ copy[c] = row /\ row # Gone
                       /\ \A d \in Clients : pc[d] # "idle" => d = c
                       /\ ~died /\ pc[c] \in {"loaded", "turn"} /\ op[c].kind # "delete" => Len(runs) = 0
<1>1. ClientOk(pc[c], op[c], copy[c], seen[c], Len(runs), clock)
  BY DEF IInv, Data
<1>2. /\ LiveRow(copy[c], Len(runs)) /\ Len(runs) \in Nat /\ clock \in Nat
      /\ \A m \in seen[c] : MessageOk(m, clock)
  BY <1>1 DEF IInv, Data, ClientOk
<1>3. copy[c] # Gone
  BY <1>2, GoneIsNotLive
<1> QED
  BY <1>2, <1>3 DEF IInv, Order, Alone, RunOnce

(* The beginnings.                                                         *)
LEMMA RequestStep ==
  ASSUME IInv, NEW c \in Clients, Request(c)
  PROVE  IInv'
<1>1. DOMAIN form = Clients /\ \A f : DOMAIN [form EXCEPT ![c] = f] = Clients
  BY DEF IInv, Data
<1>2. CASE Say(c)
  <2>1. PICK t \in Texts : Begin(c, [kind |-> "message", text |-> t])
    BY <1>2 DEF Say
  <2>2. row.status # "executed" /\ form' = form
    BY <1>2 DEF Say, Mutable
  <2> QED
    BY <1>1, <2>1, <2>2, BeginStep
<1>3. CASE Edit(c)
  <2>1. PICK m \in msgs, t \in Texts : Begin(c, [kind |-> "edit", at |-> m.at, text |-> t])
    BY <1>3 DEF Edit
  <2>2. row.status # "executed" /\ form' = form
    BY <1>3 DEF Edit, Mutable
  <2>3. m.at \in 1 .. clock
    BY DEF IInv, Data, MessageOk
  <2> QED
    BY <1>1, <2>1, <2>2, <2>3, BeginStep
<1>4. CASE LoadRollback(c)
  <2>1. PICK m \in msgs : Begin(c, [kind |-> "rollback", at |-> m.at])
    BY <1>4 DEF LoadRollback
  <2>2. row.status # "executed" /\ form' = form
    BY <1>4 DEF LoadRollback, Mutable
  <2>3. m.at \in 1 .. clock
    BY DEF IInv, Data, MessageOk
  <2> QED
    BY <1>1, <2>1, <2>2, <2>3, BeginStep
<1>5. CASE LoadReject(c)
  <2>1. Begin(c, [kind |-> "reject"]) /\ row.status # "executed" /\ form' = form
    BY <1>5 DEF LoadReject, Mutable
  <2> QED
    BY <1>1, <2>1, BeginStep
<1>6. CASE LoadDelete(c)
  <2>1. Begin(c, [kind |-> "delete"]) /\ form' = form
    BY <1>6 DEF LoadDelete
  <2> QED
    BY <1>1, <2>1, BeginStep
<1>7. CASE IntakeChat(c)
  <2>1. PICK a \in Intakes : Begin(c, [kind |-> "message", text |-> Joined(Given(a))])
    BY <1>7 DEF IntakeChat
  <2>2. row.status # "executed" /\ form' = form
    BY <1>7 DEF IntakeChat, Mutable
  <2> QED
    BY <1>1, <2>1, <2>2, BeginStep
<1>8. CASE LoadIntake(c)
  <2>1. PICK a \in Intakes :
          /\ Begin(c, [kind |-> "intake", answer |-> a])
          /\ IF forms = << >> THEN form' = [form EXCEPT ![c] = NoForm]
             ELSE \E i \in DOMAIN forms : form' = [form EXCEPT ![c] = [at |-> i, steps |-> forms[i]]]
    BY <1>8 DEF LoadIntake
  <2>2. row.status # "executed"
    BY <1>8 DEF LoadIntake, Mutable
  <2>3. CASE forms = << >>
    <3>1. form'[c].at = 0 /\ DOMAIN form' = Clients
      BY <1>1, <2>1, <2>3 DEF NoForm
    <3> QED
      BY <2>1, <2>2, <2>3, <3>1, BeginStep
  <2>4. CASE forms # << >>
    <3>1. PICK i \in DOMAIN forms : form' = [form EXCEPT ![c] = [at |-> i, steps |-> forms[i]]]
      BY <2>1, <2>4
    <3>2. form'[c].at = i /\ form'[c].steps = forms[i] /\ DOMAIN form' = Clients
      BY <1>1, <3>1
    <3>3. InOrder => i = 1
      BY <2>4 DEF IInv, Order, Settled
    <3> QED
      BY <2>1, <2>2, <3>2, <3>3, BeginStep
  <2> QED
    BY <2>3, <2>4
<1>9. CASE LoadExecute(c)
  <2>1. Begin(c, [kind |-> "execute"]) /\ form' = form /\ row.status # "executed" /\ row.payload # NoPlan
    BY <1>9 DEF LoadExecute, Mutable
  <2> QED
    BY <1>1, <2>1, BeginStep
<1> QED
  BY <1>2, <1>3, <1>4, <1>5, <1>6, <1>7, <1>8, <1>9 DEF Request

(* A turn begins: its message has a time, and an edit takes the lock.      *)
LEMMA TurningStep ==
  ASSUME IInv, NEW c \in Clients, pc[c] = "loaded", op[c].kind \in {"message", "edit"},
         NEW at, NEW gone, Turning(c, at, gone),
         clock' \in {clock, clock + 1}, at \in 1 .. clock',
         IF op[c].kind = "edit" THEN lock = None /\ lock' = c /\ row # Gone ELSE lock' = lock
  PROVE  IInv'
<1> DEFINE o == [kind |-> op[c].kind, at |-> at, text |-> op[c].text, gone |-> gone]
<1>1. /\ pc' = [pc EXCEPT ![c] = "turn"]
      /\ op' = [op EXCEPT ![c] = o]
      /\ seen' = [seen EXCEPT ![c] = Without(msgs, gone)]
      /\ UNCHANGED << row, msgs, forms, runs, copy, form, overlap, died >>
  BY DEF Turning
<1>2. o.kind = op[c].kind /\ o.at = at
  OBVIOUS
<1> HIDE DEF o
<1>3. /\ pc'[c] = "turn" /\ op'[c] = o /\ seen'[c] = Without(msgs, gone)
      /\ \A d \in Clients \ {c} : pc'[d] = pc[d] /\ op'[d] = op[d] /\ seen'[d] = seen[d]
  BY <1>1 DEF IInv, Data
<1>4. clock \in Nat /\ clock' \in Nat /\ clock <= clock' /\ Len(runs) \in Nat
  BY DEF IInv, Data
<1>5. \A m \in msgs : MessageOk(m, clock')
  BY <1>4 DEF IInv, Data, MessageOk
<1>6. Data'
  <2>1. ClientOk("turn", o, copy[c], seen'[c], Len(runs), clock')
    <3>1. ClientOk(pc[c], op[c], copy[c], seen[c], Len(runs), clock)
      BY DEF IInv, Data
    <3>2. \A m \in seen'[c] : MessageOk(m, clock')
      BY <1>3, <1>5 DEF Without
    <3> QED
      BY <1>2, <3>1, <3>2 DEF ClientOk
  <2>2. \A d \in Clients \ {c} : ClientOk(pc[d], op[d], copy[d], seen[d], Len(runs), clock')
    BY <1>4, ClientStays DEF IInv, Data
  <2>3. \A d \in Clients : ClientOk(pc'[d], op'[d], copy'[d], seen'[d], Len(runs'), clock')
    BY <1>1, <1>3, <2>1, <2>2
  <2>4. DOMAIN pc' = Clients /\ DOMAIN op' = Clients /\ DOMAIN seen' = Clients
    BY <1>1 DEF IInv, Data
  <2>5. /\ \E S : runs' \in Seq(S)
        /\ \A i \in 1 .. Len(runs') : Answered(runs'[i])
        /\ RowOk(row', Len(runs'))
        /\ DOMAIN copy' = Clients /\ DOMAIN form' = Clients
    BY <1>1 DEF IInv, Data
  <2>6. clock' \in Nat /\ \A m \in msgs' : MessageOk(m, clock')
    BY <1>1, <1>4, <1>5
  <2> QED
    BY <2>3, <2>4, <2>5, <2>6 DEF Data
<1>7. LockInv'
  BY <1>1, <1>2, <1>3 DEF IInv, LockInv
<1>8. Order'
  <2>1. SUFFICES ASSUME InOrder' PROVE Settled' /\ Alone' /\ (~died' => RunOnce')
    BY DEF Order
  <2>2. InOrder
    BY <1>1, <2>1 DEF InOrder
  <2>3. Settled'
    BY <1>1, <2>2 DEF IInv, Order, Settled
  <2>4. Alone'
    <3>1. Alone
      BY <2>2 DEF IInv, Order
    <3>2. op'[c].kind # "intake" /\ copy' = copy /\ row' = row /\ forms' = forms /\ msgs' = msgs /\ form' = form
      BY <1>1, <1>2, <1>3
    <3> QED
      BY <1>3, <3>1, <3>2 DEF Alone
  <2>5. ASSUME ~died' PROVE RunOnce'
    <3>1. RunOnce
      BY <1>1, <2>2, <2>5 DEF IInv, Order
    <3>2. \A d \in Clients : pc[d] = "created" => pc'[d] = "created"
      BY <1>3
    <3>3. \A d \in Clients : pc'[d] \in {"loaded", "turn"} => pc[d] \in {"loaded", "turn"} /\ op'[d].kind = op[d].kind
      BY <1>2, <1>3
    <3> QED
      BY <1>1, <3>1, <3>2, <3>3 DEF RunOnce
  <2> QED
    BY <2>3, <2>4, <2>5
<1> QED
  BY <1>6, <1>7, <1>8 DEF IInv

LEMMA StartTurnStep ==
  ASSUME IInv, NEW c \in Clients, StartTurn(c)
  PROVE  IInv'
<1>1. pc[c] = "loaded" /\ op[c].kind = "message" /\ clock' = clock + 1 /\ Turning(c, clock + 1, {}) /\ lock' = lock
  BY DEF StartTurn
<1>2. clock + 1 \in 1 .. clock + 1
  BY DEF IInv, Data
<1> QED
  BY <1>1, <1>2, TurningStep

LEMMA StartEditStep ==
  ASSUME IInv, NEW c \in Clients, StartEdit(c)
  PROVE  IInv'
<1> DEFINE gone == {m \in seen[c] : m.at >= op[c].at}
<1>1. /\ pc[c] = "loaded" /\ op[c].kind = "edit" /\ lock = None /\ row # Gone
      /\ lock' = c /\ clock' = clock /\ Turning(c, op[c].at, gone)
  BY DEF StartEdit
<1>2. op[c].at \in 1 .. clock
  BY <1>1 DEF IInv, Data, ClientOk
<1> HIDE DEF gone
<1> QED
  BY <1>1, <1>2, TurningStep

(* The run is there before the session names it.                           *)
LEMMA CreateRunStep ==
  ASSUME IInv, NEW c \in Clients, CreateRun(c)
  PROVE  IInv'
<1> DEFINE n == Len(runs)
<1>1. /\ pc[c] = "loaded" /\ op[c].kind = "execute"
      /\ runs' = Append(runs, copy[c].payload)
      /\ pc' = [pc EXCEPT ![c] = "created"]
      /\ op' = [op EXCEPT ![c] = [kind |-> "execute", run |-> n + 1]]
      /\ UNCHANGED << row, msgs, forms, lock, clock, copy, seen, form, overlap, died >>
  BY DEF CreateRun
<1>2. /\ pc'[c] = "created" /\ op'[c].kind = "execute" /\ op'[c].run = n + 1
      /\ \A d \in Clients \ {c} : pc'[d] = pc[d] /\ op'[d] = op[d]
  BY <1>1 DEF IInv, Data
<1>3. ClientOk(pc[c], op[c], copy[c], seen[c], n, clock)
  BY DEF IInv, Data
<1>4. PICK S : runs \in Seq(S)
  BY DEF IInv, Data
<1>5. /\ n \in Nat /\ clock \in Nat /\ Len(runs') = n + 1
      /\ runs' \in Seq(S \cup {copy[c].payload})
      /\ \A i \in 1 .. n : runs'[i] = runs[i]
      /\ runs'[n + 1] = copy[c].payload
  <2>1. runs \in Seq(S \cup {copy[c].payload})
    BY <1>4
  <2> QED
    BY <1>1, <2>1 DEF IInv, Data
<1> HIDE DEF n
<1>6. Data'
  <2>1. Answered(copy[c].payload)
    BY <1>1, <1>3 DEF ClientOk, LiveRow, Offered
  <2>2. \A i \in 1 .. n : Answered(runs[i])
    BY DEF IInv, Data, n
  <2>3. \A i \in 1 .. n + 1 : Answered(runs'[i])
    BY <1>5, <2>1, <2>2
  <2>4. RowOk(row, n + 1)
    <3>1. RowOk(row, n)
      BY DEF IInv, Data, n
    <3> QED
      BY <1>5, <3>1 DEF RowOk, LiveRow
  <2>5. ClientOk("created", op'[c], copy[c], seen[c], n + 1, clock)
    BY <1>1, <1>2, <1>3, <1>5 DEF ClientOk, LiveRow
  <2>6. \A d \in Clients \ {c} : ClientOk(pc[d], op[d], copy[d], seen[d], n + 1, clock)
    <3>1. \A d \in Clients : ClientOk(pc[d], op[d], copy[d], seen[d], n, clock)
      BY DEF IInv, Data, n
    <3> QED
      BY <1>5, <3>1, ClientStays
  <2>7. \A d \in Clients : ClientOk(pc'[d], op'[d], copy'[d], seen'[d], n + 1, clock)
    BY <1>1, <1>2, <2>5, <2>6
  <2>8. DOMAIN pc' = Clients /\ DOMAIN op' = Clients
    BY <1>1 DEF IInv, Data
  <2> QED
    BY <1>1, <1>5, <2>3, <2>4, <2>7, <2>8 DEF IInv, Data
<1>7. LockInv'
  BY <1>1, <1>2 DEF IInv, LockInv
<1>8. Order'
  <2>1. SUFFICES ASSUME InOrder' PROVE Settled' /\ Alone' /\ (~died' => RunOnce')
    BY DEF Order
  <2>2. InOrder
    BY <1>1, <2>1 DEF InOrder
  <2>3. Settled'
    BY <1>1, <2>2 DEF IInv, Order, Settled
  <2>4. Alone'
    BY <1>1, <1>2, <2>2 DEF IInv, Order, Alone
  <2>5. ASSUME ~died' PROVE RunOnce'
    <3>1. n = 0
      BY <1>1, <2>2, <2>5 DEF IInv, Order, RunOnce, n
    <3>2. \A d \in Clients \ {c} : pc'[d] = "idle"
      BY <1>1, <1>2, <2>2 DEF IInv, Order, Alone
    <3> QED
      BY <1>2, <1>5, <3>1, <3>2 DEF RunOnce
  <2> QED
    BY <2>3, <2>4, <2>5
<1> QED
  BY <1>6, <1>7, <1>8 DEF IInv

(* What the steps that write the session leave of its row.                 *)
LEMMA RowStays ==
  ASSUME IInv, row # Gone, NEW old, NEW new, Setting(new)
  PROVE  /\ LiveRow(row, Len(runs))
         /\ LiveRow(Written(row, old, new), Len(runs))
         /\ Written(row, old, new) # Gone
         /\ Holds(row, old) => Holds(Written(row, old, new), new)
<1>1. LiveRow(row, Len(runs)) /\ Len(runs) \in Nat
  BY DEF IInv, Data, RowOk
<1>2. LiveRow(Written(row, old, new), Len(runs)) /\ (Holds(row, old) => Holds(Written(row, old, new), new))
  BY <1>1, WrittenIs
<1> QED
  BY <1>1, <1>2, GoneIsNotLive

(* A lock that is another's is not this one's.                             *)
LEMMA LockStays ==
  ASSUME IInv, NEW c \in Clients, pc[c] # "turn"
  PROVE  Released(c) = lock
  BY DEF IInv, LockInv, Released

(* The rows of messages that are taken away.                               *)
LEMMA WithoutLater ==
  ASSUME NEW ms, NEW k
  PROVE  Without(ms, ms \ {m \in ms : m.at < k}) = {m \in ms : m.at < k}
<1>1. \A m \in ms : m.at < k <=> \A g \in ms \ {x \in ms : x.at < k} : g.at # m.at
  OBVIOUS
<1> QED
  BY <1>1 DEF Without

LEMMA RollbackStep ==
  ASSUME IInv, NEW c \in Clients, Rollback(c)
  PROVE  IInv'
<1> DEFINE left == {m \in seen[c] : m.at < op[c].at}
           new  == Restored(left)
<1>1. /\ pc[c] = "loaded" /\ op[c].kind = "rollback" /\ Free(c) /\ row # Gone
      /\ msgs' = Without(msgs, seen[c] \ left)
      /\ row' = Written(row, copy[c], new)
      /\ End(c)
      /\ UNCHANGED << forms, runs, lock, clock, overlap, died >>
  BY DEF Rollback
<1>2. /\ \A m \in seen[c] : MessageOk(m, clock)
      /\ clock \in Nat
      /\ InOrder => /\ copy[c] = row /\ (~died => Len(runs) = 0)
  BY <1>1, OneRequest
<1>3. Setting(new)
  <2>1. \A m \in left : MessageOk(m, clock)
    BY <1>2
  <2> HIDE DEF left
  <2> QED
    BY <1>2, <2>1, RestoredIsSetting
<1>4. LiveRow(row', Len(runs)) /\ row' # Gone /\ (copy[c] = row => Holds(row', new))
  BY <1>1, <1>3, RowStays DEF Holds
<1>5. lock' = Released(c)
  BY <1>1, LockStays
<1>6. \A m \in msgs' : MessageOk(m, clock')
  BY <1>1 DEF Without, IInv, Data
<1>7. ASSUME InOrder PROVE Settled'
  <2>1. seen[c] = msgs
    BY <1>1, <1>7 DEF IInv, Order, Alone
  <2>2. msgs' = left
    BY <1>1, <2>1, WithoutLater
  <2>3. Holds(row', Restored(msgs'))
    BY <1>2, <1>4, <1>7, <2>2
  <2>4. msgs' = {} => row'.payload = NoPlan
    BY <2>3, CollectingIsSetting DEF Restored, Holds, Columns
  <2>5. forms' = << >> \/ DOMAIN forms' = {1}
    BY <1>1, <1>7 DEF IInv, Order, Settled
  <2> QED
    BY <1>4, <2>3, <2>4, <2>5 DEF Settled
<1>8. clock' \in Nat /\ clock <= clock' /\ RowOk(row', Len(runs))
  BY <1>1, <1>2, <1>4 DEF RowOk
<1>9. InOrder /\ ~died' => ~died /\ (Len(runs) = 1 => row' = Gone \/ row'.status = "executed")
  BY <1>1, <1>2
<1> HIDE DEF left, new
<1> QED
  BY <1>1, <1>5, <1>6, <1>7, <1>8, <1>9, EndStep

LEMMA RejectStep ==
  ASSUME IInv, NEW c \in Clients, Reject(c)
  PROVE  IInv'
<1> DEFINE note == [at |-> clock + 1, body |-> [role |-> "system"]]
<1>1. /\ pc[c] = "loaded" /\ op[c].kind = "reject" /\ Free(c) /\ row # Gone
      /\ clock' = clock + 1
      /\ msgs' = msgs \cup {note}
      /\ row' = Written(row, copy[c], Collecting)
      /\ End(c)
      /\ UNCHANGED << forms, runs, lock, overlap, died >>
  BY DEF Reject
<1>2. /\ clock \in Nat /\ \A m \in msgs : MessageOk(m, clock)
      /\ InOrder => copy[c] = row /\ (~died => Len(runs) = 0)
  BY <1>1, OneRequest DEF IInv, Data
<1>3. LiveRow(row', Len(runs)) /\ row' # Gone /\ (copy[c] = row => Holds(row', Collecting))
  BY <1>1, CollectingIsSetting, RowStays DEF Holds
<1>4. note.at = clock + 1 /\ note.body.role = "system"
  OBVIOUS
<1> HIDE DEF note
<1>5. lock' = Released(c)
  BY <1>1, LockStays
<1>6. \A m \in msgs' : MessageOk(m, clock')
  BY <1>1, <1>2, <1>4 DEF MessageOk
<1>7. ASSUME InOrder PROVE Settled'
  <2>1. Latest(msgs') = note
    BY <1>1, <1>2, <1>4, NewestIsLatest
  <2>2. Restored(msgs') = Collecting
    BY <1>4, <2>1 DEF Restored
  <2>3. msgs' # {}
    BY <1>1
  <2>4. forms' = << >> \/ DOMAIN forms' = {1}
    BY <1>1, <1>7 DEF IInv, Order, Settled
  <2> QED
    BY <1>2, <1>3, <1>7, <2>2, <2>3, <2>4 DEF Settled
<1>8. clock' \in Nat /\ clock <= clock' /\ RowOk(row', Len(runs))
  BY <1>1, <1>2, <1>3 DEF RowOk
<1>9. InOrder /\ ~died' => ~died /\ (Len(runs) = 1 => row' = Gone \/ row'.status = "executed")
  BY <1>1, <1>2
<1> QED
  BY <1>1, <1>5, <1>6, <1>7, <1>8, <1>9, EndStep

(* The answer is the latest message, and the row says what it says.        *)
LEMMA AppendStep ==
  ASSUME IInv, NEW c \in Clients, AppendTurn(c)
  PROVE  IInv'
<1>1. PICK llm \in Models \cup {Silent} :
        LET turn == Turn(llm, Shown(c))
        IN  /\ pc[c] = "turn" /\ Free(c) /\ row # Gone
            /\ clock' = clock + 1
            /\ msgs' = Without(msgs, op[c].gone) \cup Own(c) \cup {[at |-> clock + 1, body |-> turn]}
            /\ row' = Written(Cleared(c), Base(c), Offer(turn))
            /\ lock' = Released(c) /\ End(c)
            /\ UNCHANGED << forms, runs, overlap, died >>
  BY DEF AppendTurn
<1> DEFINE turn   == Turn(llm, Shown(c))
           answer == [at |-> clock + 1, body |-> turn]
           others == Without(msgs, op[c].gone) \cup Own(c)
<1>2. turn.role = "assistant" /\ Offered(turn.payload)
  BY TurnIsAnswered
<1>3. answer.at = clock + 1 /\ answer.body = turn
  OBVIOUS
<1>4. msgs' = others \cup {answer} /\ row' = Written(Cleared(c), Base(c), Offer(turn))
  BY <1>1
<1> HIDE DEF turn, answer
<1>5. /\ clock \in Nat /\ \A m \in msgs : MessageOk(m, clock)
      /\ \A m \in seen[c] : MessageOk(m, clock)
      /\ LiveRow(row, Len(runs)) /\ Len(runs) \in Nat
      /\ op[c].at \in 1 .. clock
      /\ op[c].kind # "delete"
      /\ InOrder => copy[c] = row
      /\ InOrder /\ ~died => Len(runs) = 0
  <2>1. ClientOk(pc[c], op[c], copy[c], seen[c], Len(runs), clock)
    BY DEF IInv, Data
  <2>2. op[c].kind \in {"message", "edit"} /\ op[c].at \in 1 .. clock
    BY <1>1, <2>1 DEF ClientOk
  <2>3. LiveRow(row, Len(runs))
    BY <1>1 DEF IInv, Data, RowOk
  <2> QED
    BY <1>1, <2>2, <2>3, OneRequest DEF IInv, Data
<1>6. \A m \in others : MessageOk(m, clock)
  <2>1. \A m \in Own(c) : MessageOk(m, clock)
    BY <1>5 DEF Own, User, MessageOk
  <2> QED
    BY <1>5, <2>1 DEF Without
<1> HIDE DEF others
<1>7. Setting(Offer(turn))
  BY <1>2, OfferIsSetting
<1>8. LiveRow(Cleared(c), Len(runs)) /\ (copy[c] = row => Holds(Cleared(c), Base(c)))
  <2>1. CASE op[c].kind = "edit"
    BY <1>1, <2>1, CollectingIsSetting, RowStays DEF Cleared, Base, Holds
  <2>2. CASE op[c].kind # "edit"
    BY <1>5, <2>2 DEF Cleared, Base, Holds
  <2> QED
    BY <2>1, <2>2
<1>9. LiveRow(row', Len(runs)) /\ row' # Gone /\ (copy[c] = row => Holds(row', Offer(turn)))
  BY <1>4, <1>5, <1>7, <1>8, WrittenIs, GoneIsNotLive
<1>10. \A m \in msgs' : MessageOk(m, clock')
  BY <1>1, <1>2, <1>3, <1>4, <1>5, <1>6 DEF MessageOk
<1>11. ASSUME InOrder PROVE Settled'
  <2>1. Latest(msgs') = answer
    BY <1>3, <1>4, <1>5, <1>6, NewestIsLatest
  <2>2. msgs' # {}
    BY <1>4
  <2>3. Restored(msgs') = Offer(turn)
    BY <1>2, <1>3, <2>1, <2>2 DEF Restored
  <2>4. forms' = << >> \/ DOMAIN forms' = {1}
    BY <1>1, <1>11 DEF IInv, Order, Settled
  <2> QED
    BY <1>5, <1>9, <1>11, <2>2, <2>3, <2>4 DEF Settled
<1>12. clock' \in Nat /\ clock <= clock' /\ RowOk(row', Len(runs))
  BY <1>1, <1>5, <1>9 DEF RowOk
<1>13. InOrder /\ ~died' => ~died /\ (Len(runs) = 1 => row' = Gone \/ row'.status = "executed")
  BY <1>1, <1>5
<1> QED
  BY <1>1, <1>10, <1>11, <1>12, <1>13, EndStep

LEMMA DeleteStep ==
  ASSUME IInv, NEW c \in Clients, DeleteSession(c)
  PROVE  IInv'
<1>1. /\ pc[c] = "loaded" /\ op[c].kind = "delete" /\ Free(c)
      /\ msgs' = Without(msgs, seen[c]) /\ forms' = << >> /\ row' = Gone
      /\ End(c)
      /\ UNCHANGED << runs, lock, clock, overlap, died >>
  BY DEF DeleteSession, ForgottenForms
<1>2. clock \in Nat /\ \A m \in msgs' : MessageOk(m, clock')
  BY <1>1 DEF IInv, Data, Without
<1>3. ASSUME InOrder PROVE Settled'
  <2>1. seen[c] = msgs
    BY <1>1, <1>3 DEF IInv, Order, Alone
  <2>2. msgs' = {}
    BY <1>1, <2>1 DEF Without
  <2> QED
    BY <1>1, <2>2 DEF Settled
<1>4. lock' = Released(c)
  BY <1>1, LockStays
<1> QED
  BY <1>1, <1>2, <1>3, <1>4, EndStep DEF RowOk

(* The row says what the questionnaire in the request's hands says, which  *)
(* alone is the one that is stored.                                        *)
LEMMA IntakeStep ==
  ASSUME IInv, NEW c \in Clients, Intake(c)
  PROVE  IInv'
<1> DEFINE a    == op[c].answer
           step == [status |-> StepStatus(a), text |-> Summary(a)]
           mine == [form[c].steps EXCEPT ![a.step] = step]
           at   == form[c].at
           new  == FromForm(mine)
<1>1. /\ pc[c] = "loaded" /\ op[c].kind = "intake" /\ Free(c) /\ row # Gone
      /\ forms' = IF at = 0 THEN Append(forms, mine) ELSE [forms EXCEPT ![at][a.step] = step]
      /\ row' = Written(row, copy[c], new)
      /\ End(c)
      /\ UNCHANGED << msgs, runs, lock, clock, overlap, died >>
  BY DEF Intake
<1>2. /\ clock \in Nat /\ \A m \in msgs : MessageOk(m, clock)
      /\ InOrder => copy[c] = row /\ (~died => Len(runs) = 0)
  BY <1>1, OneRequest DEF IInv, Data
<1>3. Setting(new) /\ (new.payload # NoPlan => \A s \in Required : mine[s].status = "confirmed")
  BY FormIsSetting
<1>4. InOrder => DOMAIN forms' = {1} /\ forms'[1] = mine
  <2>1. SUFFICES ASSUME InOrder PROVE DOMAIN forms' = {1} /\ forms'[1] = mine
    OBVIOUS
  <2>2. IF at = 0 THEN forms = << >> ELSE at \in DOMAIN forms /\ form[c].steps = forms[at]
    BY <1>1, <2>1 DEF IInv, Order, Alone
  <2>3. CASE at = 0
    <3>1. forms' = Append(<< >>, mine)
      BY <1>1, <2>2, <2>3
    <3> HIDE DEF mine
    <3> QED
      BY <3>1
  <2>4. CASE at # 0
    <3>1. DOMAIN forms = {1}
      BY <2>1, <2>2, <2>4 DEF IInv, Order, Settled
    <3>2. at = 1 /\ form[c].steps = forms[1]
      BY <2>2, <2>4, <3>1
    <3>3. forms' = [forms EXCEPT ![1] = [forms[1] EXCEPT ![a.step] = step]]
      BY <1>1, <2>4, <3>2
    <3> QED
      BY <3>1, <3>2, <3>3
  <2> QED
    BY <2>3, <2>4
<1> HIDE DEF mine, new
<1>5. LiveRow(row', Len(runs)) /\ row' # Gone /\ (copy[c] = row => Holds(row', new))
  BY <1>1, <1>3, RowStays DEF Holds
<1>6. ASSUME InOrder PROVE Settled'
  <2>1. row'.payload = new.payload
    BY <1>2, <1>5, <1>6 DEF Holds, Columns
  <2>2. DOMAIN forms' = {1} /\ forms'[1] = mine
    BY <1>4, <1>6
  <2>3. forms' # << >>
    BY <2>2
  <2> QED
    BY <1>3, <1>5, <2>1, <2>2, <2>3 DEF Settled
<1>7. lock' = Released(c)
  BY <1>1, LockStays
<1>8. clock' \in Nat /\ clock <= clock' /\ RowOk(row', Len(runs)) /\ \A m \in msgs' : MessageOk(m, clock')
  BY <1>1, <1>2, <1>5 DEF RowOk
<1>9. InOrder /\ ~died' => ~died /\ (Len(runs) = 1 => row' = Gone \/ row'.status = "executed")
  BY <1>1, <1>2
<1> QED
  BY <1>1, <1>6, <1>7, <1>8, <1>9, EndStep

(* The number of the run is later than any the copy names, so it is written*)
(* together with the status or after it.                                   *)
LEMMA MarkStep ==
  ASSUME IInv, NEW c \in Clients, MarkExecuted(c)
  PROVE  IInv'
<1> DEFINE new == ExecutedWith(op[c].run)
           n   == Len(runs)
<1>1. /\ pc[c] = "created" /\ Free(c) /\ row # Gone
      /\ row' = Written(row, copy[c], new)
      /\ End(c)
      /\ UNCHANGED << msgs, forms, runs, lock, clock, overlap, died >>
  BY DEF MarkExecuted
<1>2. new.status = "executed" /\ new.run = op[c].run /\ DOMAIN new = {"status", "run"}
  BY DEF ExecutedWith
<1> HIDE DEF new
<1>3. /\ op[c].kind = "execute" /\ op[c].run \in 1 .. n /\ copy[c].run < op[c].run
      /\ copy[c].run \in 0 .. n /\ copy[c].status # "executed"
  <2>1. ClientOk(pc[c], op[c], copy[c], seen[c], n, clock)
    BY DEF IInv, Data
  <2> QED
    BY <1>1, <2>1 DEF ClientOk, LiveRow
<1>4. /\ clock \in Nat /\ \A m \in msgs : MessageOk(m, clock) /\ n \in Nat
      /\ LiveRow(row, n)
      /\ InOrder => copy[c] = row
  BY <1>1, OneRequest DEF IInv, Data, RowOk
<1>5. /\ DOMAIN row' = DOMAIN row
      /\ row'.run = op[c].run /\ row'.status = "executed"
      /\ row'.payload = row.payload
  <2>1. DOMAIN row = {"status", "plan", "payload", "run"}
    BY <1>4 DEF LiveRow, Columns
  <2>2. new.run # copy[c].run /\ new.status # copy[c].status
    BY <1>2, <1>3
  <2> QED
    BY <1>1, <1>2, <2>1, <2>2 DEF Written
<1>6. LiveRow(row', n)
  BY <1>3, <1>4, <1>5 DEF LiveRow
<1>7. ASSUME InOrder PROVE Settled'
  BY <1>1, <1>5, <1>6, <1>7, GoneIsNotLive DEF IInv, Order, Settled
<1>8. lock' = Released(c)
  BY <1>1, LockStays
<1>9. clock' \in Nat /\ clock <= clock' /\ RowOk(row', n) /\ \A m \in msgs' : MessageOk(m, clock')
  BY <1>1, <1>4, <1>6 DEF RowOk
<1> QED
  BY <1>1, <1>5, <1>7, <1>8, <1>9, EndStep

(* A request that ends without a word leaves everything as it is.          *)
LEMMA SilentEnd ==
  ASSUME IInv, NEW c \in Clients, pc[c] # "idle", End(c), lock' = Released(c),
         UNCHANGED << row, msgs, forms, runs, clock, overlap >>,
         InOrder /\ ~died' => ~died /\ pc[c] # "created"
  PROVE  IInv'
<1>1. clock' \in Nat /\ clock <= clock' /\ RowOk(row', Len(runs)) /\ \A m \in msgs' : MessageOk(m, clock')
  BY DEF IInv, Data
<1>2. InOrder => Settled'
  BY DEF IInv, Order, Settled
<1>3. InOrder /\ ~died' => ~died /\ (Len(runs) = 1 => row' = Gone \/ row'.status = "executed")
  BY DEF IInv, Order, Alone, RunOnce
<1> QED
  BY <1>1, <1>2, <1>3, EndStep

LEMMA FailureStep ==
  ASSUME IInv, NEW c \in Clients, Refused(c) \/ UpdateFails(c) \/ Die(c)
  PROVE  IInv'
<1>1. CASE Refused(c)
  <2>1. /\ pc[c] = "loaded" /\ End(c)
        /\ UNCHANGED << row, msgs, forms, runs, lock, clock, overlap, died >>
    BY <1>1 DEF Refused
  <2>2. lock' = Released(c)
    BY <2>1, LockStays
  <2> QED
    BY <2>1, <2>2, SilentEnd
<1>2. CASE UpdateFails(c)
  <2>1. /\ pc[c] # "idle" /\ End(c) /\ lock' = Released(c)
        /\ row = Gone \/ pc[c] = "loaded"
        /\ UNCHANGED << row, msgs, forms, runs, clock, overlap, died >>
    BY <1>2 DEF UpdateFails, AfterFailure
  <2>2. InOrder => row # Gone
    BY <2>1, OneRequest
  <2> QED
    BY <2>1, <2>2, SilentEnd
<1>3. CASE Die(c)
  <2>1. /\ pc[c] \in {"turn", "created"} /\ End(c) /\ lock' = Released(c)
        /\ died' = (died \/ pc[c] = "created")
        /\ UNCHANGED << row, msgs, forms, runs, clock, overlap >>
    BY <1>3 DEF Die, AfterFailure
  <2> QED
    BY <2>1, SilentEnd
<1> QED
  BY <1>1, <1>2, <1>3

(* Every step of the specification.                                        *)
LEMMA StepHolds ==
  ASSUME IInv, [Next]_vars
  PROVE  IInv'
<1>1. CASE UNCHANGED vars
  BY <1>1 DEF vars, IInv, Data, LockInv, Order, InOrder, Settled, Alone, RunOnce
<1>2. ASSUME NEW c \in Clients, Request(c) \/ Serve(c) \/ Die(c)
      PROVE  IInv'
  BY <1>2, RequestStep, StartTurnStep, StartEditStep, AppendStep, RollbackStep, RejectStep,
     DeleteStep, IntakeStep, CreateRunStep, MarkStep, FailureStep DEF Serve
<1> QED
  BY <1>1, <1>2 DEF Next

LEMMA Invariance == Spec => []IInv
<1>1. Init => IInv
  BY InitHolds
<1>2. IInv /\ [Next]_vars => IInv'
  BY StepHolds
<1> QED
  BY <1>1, <1>2, PTL DEF Spec

-----------------------------------------------------------------------------
(* What a turn answers.  The invariant of the conversation: its messages   *)
(* have times of their own, every plan offered follows from what was said  *)
(* before it, and a turn in progress knows what comes before its message.  *)

\* What was said before the time k.
Earlier(ms, k) == {m \in ms : m.at < k}

Names(u) == u.body.role = "user" /\ u.body.text.src # None

\* The plan of the answer b follows the users of ms: its token, if the model did not bring it, comes
\* after the last rejection, and its target is the last one named.
Follows(b, ms) ==
  /\ b.payload.secret \notin {None, b.brought} =>
       \E u \in ms : /\ u.body.role = "user" /\ u.body.text.secret = b.payload.secret
                     /\ \A r \in ms : r.body.role = "system" => r.at < u.at
  /\ (\E u \in ms : Names(u)) =>
       \E u \in ms : /\ Names(u) /\ u.body.text.src = b.payload.src
                     /\ \A v \in ms : Names(v) => v.at <= u.at

CanAnswer(options) ==
  /\ Len(options) \in 1 .. 5 /\ Last(options) = Custom
  /\ \A j \in 1 .. (Len(options) - 1) : options[j] = "concrete"

\* A message of the three kinds, whose questions can be answered.
WellSaid(m) ==
  /\ m.body.role \in {"user", "assistant", "system"}
  /\ m.body.role = "assistant" =>
       /\ Len(m.body.asked) <= 2
       /\ \A i \in DOMAIN m.body.asked : CanAnswer(m.body.asked[i].options)

\* Messages that are told apart by their times, which are past.
Timed(ms, now) ==
  /\ now \in Nat
  /\ \A m \in ms : m.at \in 1 .. now
  /\ \A m, n \in ms : m.at = n.at => m = n

Offering(m) == m.body.role = "assistant" /\ m.body.ready

Sincere(ms) == \A m \in ms : Offering(m) => Follows(m.body, Earlier(ms, m.at))

Told ==
  /\ Timed(msgs, clock) /\ Sincere(msgs)
  /\ \A c \in Clients : pc[c] = "turn" =>
       /\ seen[c] = Earlier(msgs, op[c].at)
       /\ Without(msgs, op[c].gone) = Earlier(msgs, op[c].at)

TInv ==
  /\ \A m \in msgs : WellSaid(m)
  /\ InOrder => Told

\* The elements of s at the places I are those at this increasing row of them.
PickedAt(at, s, I) ==
  LET n == Cardinality(I)
  IN  /\ n \in Nat /\ at \in [1 .. n -> I]
      /\ Picked(s, I) = [k \in 1 .. n |-> s[at[k]]]
      /\ \A k, l \in 1 .. n : k < l => at[k] < at[l]
      /\ \A i \in I : \E k \in 1 .. n : at[k] = i

\* The conversation of these messages is those at n places, one after the other.
InTime(of, n, ms) ==
  /\ n \in Nat /\ of \in [1 .. n -> ms]
  /\ Transcript(ms) = [k \in 1 .. n |-> of[k].body]
  /\ \A k \in 1 .. n : of[k].at \in Nat
  /\ \A k, l \in 1 .. n : k < l => of[k].at < of[l].at
  /\ \A m \in ms : \E k \in 1 .. n : of[k] = m

\* The m texts of users are those at these places of a conversation of n messages.
UserPlaces(at, m, t, n) ==
  /\ m \in Nat /\ at \in [1 .. m -> 1 .. n]
  /\ DOMAIN Users(t) = 1 .. m
  /\ \A k \in 1 .. m : t[at[k]].role = "user" /\ Users(t)[k] = t[at[k]].text
  /\ \A k, l \in 1 .. m : k < l => at[k] < at[l]
  /\ \A i \in 1 .. n : t[i].role = "user" => \E k \in 1 .. m : at[k] = i

\* The elements at some positions are those at an increasing row of them that leaves none out.
LEMMA PickedPlaces ==
  ASSUME NEW s, NEW I, \A i \in I : i \in Nat, IsFiniteSet(I)
  PROVE  \E at : PickedAt(at, s, I)
<1> DEFINE n == Cardinality(I)
           Upto(i) == {j \in I : j <= i}
           Rank(i) == Cardinality(Upto(i))
           rank == [i \in I |-> Rank(i)]
           at == [k \in 1 .. n |-> CHOOSE i \in I : Rank(i) = k]
<1>1. (\A i \in I : i \in Nat) /\ IsFiniteSet(I) /\ n \in Nat
  BY FS_CardinalityType
<1>2. \A i \in I : IsFiniteSet(Upto(i)) /\ Rank(i) \in Nat /\ Rank(i) \in 1 .. n
  <2>1. ASSUME NEW i \in I
        PROVE  IsFiniteSet(Upto(i)) /\ Rank(i) \in Nat /\ Rank(i) \in 1 .. n
    <3>1. IsFiniteSet(Upto(i)) /\ Rank(i) <= n /\ Rank(i) \in Nat
      BY <1>1, FS_Subset, FS_CardinalityType
    <3>2. Upto(i) # {}
      BY <1>1
    <3>3. Rank(i) # 0
      BY <3>1, <3>2, FS_EmptySet
    <3> QED
      BY <1>1, <3>1, <3>3
  <2> QED
    BY <2>1
<1> HIDE DEF Rank
<1>3. \A i, j \in I : i < j => Rank(i) < Rank(j)
  <2> SUFFICES ASSUME NEW i \in I, NEW j \in I, i < j
               PROVE  Rank(i) < Rank(j)
    OBVIOUS
  <2>1. Upto(i) \cup {j} \subseteq Upto(j) /\ j \notin Upto(i)
    BY <1>1
  <2>2. Cardinality(Upto(i) \cup {j}) = Rank(i) + 1
    BY <1>2, <2>1, FS_AddElement DEF Rank
  <2>3. Cardinality(Upto(i) \cup {j}) <= Rank(j)
    BY <1>2, <2>1, FS_Subset DEF Rank
  <2> QED
    <3>1. Rank(i) \in Nat /\ Rank(j) \in Nat
      BY <1>1, <1>2
    <3> QED
      BY <2>2, <2>3, <3>1
<1>4. \A k \in 1 .. n : \E i \in I : Rank(i) = k
  <2>1. rank \in [I -> 1 .. n]
    BY <1>2
  <2>2. \A i, j \in I : rank[i] = rank[j] => i = j
    <3>1. ASSUME NEW i \in I, NEW j \in I, Rank(i) = Rank(j) PROVE i = j
      <4>1. Rank(i) \in Nat
        BY <1>2
      <4>2. ~(i < j) /\ ~(j < i)
        BY <1>3, <3>1, <4>1
      <4> QED
        BY <1>1, <4>2
    <3> QED
      BY <3>1
  <2>3. rank \in Injection(I, 1 .. n)
    BY <2>1, <2>2 DEF Injection, IsInjective
  <2>4. IsFiniteSet(1 .. n) /\ Cardinality(1 .. n) = n
    BY <1>1, FS_Interval
  <2>5. rank \in Surjection(I, 1 .. n)
    BY <2>3, <2>4, FS_Injection
  <2> QED
    BY <2>5 DEF Surjection
<1>5. \A k \in 1 .. n : at[k] \in I /\ Rank(at[k]) = k
  BY <1>4
<1> HIDE DEF at
<1>6. \A k, m \in 1 .. n : k < m => at[k] < at[m]
  <2>1. ASSUME NEW k \in 1 .. n, NEW m \in 1 .. n, k < m, ~(at[k] < at[m])
        PROVE  FALSE
    <3>1. at[m] < at[k] \/ at[m] = at[k]
      BY <1>1, <1>5, <2>1
    <3> QED
      BY <1>1, <1>3, <1>5, <2>1, <3>1
  <2> QED
    BY <2>1
<1>7. \A i \in I : \E k \in 1 .. n : at[k] = i
  <2>1. ASSUME NEW i \in I PROVE at[Rank(i)] = i
    <3>1. at[Rank(i)] \in I /\ Rank(at[Rank(i)]) = Rank(i)
      BY <1>2, <1>5
    <3>2. Rank(i) \in Nat
      BY <1>2
    <3>3. ~(i < at[Rank(i)]) /\ ~(at[Rank(i)] < i)
      BY <1>3, <3>1, <3>2
    <3> QED
      BY <1>1, <3>1, <3>3
  <2> QED
    BY <1>2, <2>1
<1>8. Picked(s, I) = [k \in 1 .. n |-> s[at[k]]] /\ DOMAIN at = 1 .. n
  BY DEF Picked, Rank, at
<1> QED
  <2>1. at \in [1 .. n -> I]
    BY <1>5 DEF at
  <2>2. PickedAt(at, s, I)
    BY <1>1, <1>6, <1>7, <1>8, <2>1 DEF PickedAt
  <2> QED
    BY <2>2

\* The last of some positions.
LEMMA LastPlace ==
  ASSUME NEW n \in Nat, NEW I \in SUBSET (1 .. n), I # {}
  PROVE  \E i \in I : i = (CHOOSE k \in I : \A j \in I : j <= k) /\ \A j \in I : j <= i
<1> DEFINE T == {n - i : i \in I}
<1>1. T \subseteq Nat /\ T # {}
  <2>1. \A i \in I : n - i \in Nat
    OBVIOUS
  <2> QED
    BY <2>1
<1>2. \E u \in T : \A y \in T : ~ (<<y, u>> \in OpToRel(<, Nat))
  BY <1>1, NatLessThanWellFounded, WFMin, Zenon
<1>3. \E u \in T : \A y \in T : ~ (y < u)
  BY <1>1, <1>2 DEF OpToRel
<1>4. PICK u \in T : \A y \in T : ~ (y < u)
  BY <1>3
<1>5. PICK i \in I : u = n - i
  OBVIOUS
<1>6. \A j \in I : j <= i
  <2>1. SUFFICES ASSUME NEW j \in I PROVE j <= i
    OBVIOUS
  <2>2. n - j \in T
    OBVIOUS
  <2>3. ~ (n - j < n - i)
    BY <1>4, <1>5, <2>2
  <2> QED
    BY <2>3
<1> QED
  BY <1>6

\* Tokens and targets of a row of texts.
LEMMA LastSecret ==
  ASSUME NEW n \in Nat, NEW ts, DOMAIN ts = 1 .. n, LastOf(ts, Secret) # None
  PROVE  \E i \in 1 .. n : ts[i].secret = LastOf(ts, Secret)
<1> DEFINE found == {i \in 1 .. n : ts[i].secret # None}
<1>1. LastOf(ts, Secret) = IF found = {} THEN None
                           ELSE ts[CHOOSE i \in found : \A j \in found : j <= i].secret
  BY DEF LastOf, Secret
<1>2. found # {}
  BY <1>1
<1>3. PICK i \in found : i = CHOOSE k \in found : \A j \in found : j <= k
  BY <1>2, LastPlace
<1> QED
  BY <1>1, <1>2, <1>3

LEMMA LastSource ==
  ASSUME NEW n \in Nat, NEW ts, DOMAIN ts = 1 .. n, NEW k \in 1 .. n, ts[k].src # None
  PROVE  \E i \in 1 .. n : /\ ts[i].src # None /\ ts[i].src = LastOf(ts, TextSource)
                           /\ \A j \in 1 .. n : ts[j].src # None => j <= i
<1> DEFINE found == {i \in 1 .. n : ts[i].src # None}
<1>1. LastOf(ts, TextSource) = IF found = {} THEN None
                               ELSE ts[CHOOSE i \in found : \A j \in found : j <= i].src
  BY DEF LastOf, TextSource
<1>2. found # {}
  OBVIOUS
<1>3. PICK i \in found : i = (CHOOSE m \in found : \A j \in found : j <= m) /\ \A j \in found : j <= i
  BY <1>2, LastPlace
<1> QED
  BY <1>1, <1>2, <1>3

\* The texts of the users in a conversation, in their order.
LEMMA UsersAre ==
  ASSUME NEW n \in Nat, NEW t, DOMAIN t = 1 .. n
  PROVE  \E m, at : UserPlaces(at, m, t, n)
<1> DEFINE I == {i \in 1 .. n : t[i].role = "user"}
           us == Picked(t, I)
<1>1. I \subseteq 1 .. n /\ IsFiniteSet(I) /\ \A i \in I : i \in Nat
  <2>1. IsFiniteSet(1 .. n)
    BY FS_Interval
  <2> QED
    BY <2>1, FS_Subset
<1>2. Users(t) = [k \in DOMAIN us |-> us[k].text]
  BY DEF Users
<1>3. \A i \in I : t[i].role = "user"
  OBVIOUS
<1>4. \A i \in 1 .. n : t[i].role = "user" => i \in I
  OBVIOUS
<1> HIDE DEF I
<1> DEFINE m == Cardinality(I)
<1>5. PICK at : PickedAt(at, t, I)
  <2>1. IsFiniteSet(I) /\ \A i \in I : i \in Nat
    BY <1>1
  <2> QED
    BY <2>1, PickedPlaces, Zenon
<1>6. /\ m \in Nat /\ at \in [1 .. m -> I]
      /\ us = [k \in 1 .. m |-> t[at[k]]]
      /\ \A k, l \in 1 .. m : k < l => at[k] < at[l]
      /\ \A i \in I : \E k \in 1 .. m : at[k] = i
  BY <1>5 DEF PickedAt
<1> HIDE DEF m, us
<1>7. DOMAIN Users(t) = 1 .. m /\ \A k \in 1 .. m : Users(t)[k] = t[at[k]].text
  BY <1>2, <1>6
<1>8. \A k \in 1 .. m : at[k] \in I
  BY <1>6
<1>9. at \in [1 .. m -> 1 .. n]
  BY <1>1, <1>6
<1>10. \A k \in 1 .. m : t[at[k]].role = "user"
  BY <1>3, <1>8
<1>11. \A i \in 1 .. n : t[i].role = "user" => \E k \in 1 .. m : at[k] = i
  BY <1>4, <1>6
<1>12. UserPlaces(at, m, t, n)
  BY <1>6, <1>7, <1>9, <1>10, <1>11 DEF UserPlaces
<1> QED
  BY <1>12

\* The last rejection of a conversation.
LEMMA BoundaryIs ==
  ASSUME NEW n \in Nat, NEW t, DOMAIN t = 1 .. n
  PROVE  /\ Boundary(t) \in 0 .. n
         /\ Boundary(t) # 0 => t[Boundary(t)].role = "system"
         /\ \A j \in 1 .. n : t[j].role = "system" => j <= Boundary(t)
<1> DEFINE rejections == {i \in 1 .. n : t[i].role = "system"}
<1>1. Boundary(t) = IF rejections = {} THEN 0 ELSE CHOOSE i \in rejections : \A j \in rejections : j <= i
  BY DEF Boundary
<1>2. /\ \A i \in rejections : i \in 1 .. n /\ t[i].role = "system"
      /\ \A i \in 1 .. n : t[i].role = "system" => i \in rejections
  OBVIOUS
<1>3. rejections \subseteq 1 .. n
  OBVIOUS
<1> HIDE DEF rejections
<1>4. CASE rejections = {}
  BY <1>1, <1>2, <1>4
<1>5. CASE rejections # {}
  <2>1. PICK i \in rejections : /\ i = (CHOOSE k \in rejections : \A j \in rejections : j <= k)
                                /\ \A j \in rejections : j <= i
    BY <1>3, <1>5, LastPlace
  <2> QED
    BY <1>1, <1>2, <1>5, <2>1
<1> QED
  BY <1>4, <1>5

\* The token of a payload that answers a user was given after the last rejection, unless the model
\* brought it.
LEMMA SecretIsSaid ==
  ASSUME NEW S, NEW t \in Seq(S), Len(t) # 0, t[Len(t)].role = "user",
         NEW llm, Payload(llm, t).secret \notin {None, llm.token}
  PROVE  \E i \in 1 .. Len(t) :
           /\ t[i].role = "user" /\ t[i].text.secret = Payload(llm, t).secret
           /\ \A j \in 1 .. Len(t) : t[j].role = "system" => j < i
<1> DEFINE n == Len(t)
           b == Boundary(t)
           after == SubSeq(t, b + 1, n)
<1>1. n \in Nat /\ n # 0 /\ DOMAIN t = 1 .. n
  OBVIOUS
<1>2. b \in 0 .. n /\ (b # 0 => t[b].role = "system") /\ \A j \in 1 .. n : t[j].role = "system" => j <= b
  BY <1>1, BoundaryIs
<1>3. b < n
  BY <1>1, <1>2
<1> HIDE DEF b
<1>4. n - b \in Nat /\ DOMAIN after = 1 .. n - b /\ \A k \in 1 .. n - b : after[k] = t[k + b]
  BY <1>2, <1>3
<1> HIDE DEF after
<1> DEFINE us == Users(after)
<1>5. PICK m, at : UserPlaces(at, m, after, n - b)
  BY <1>4, UsersAre
<1>6. /\ m \in Nat /\ at \in [1 .. m -> 1 .. n - b]
      /\ DOMAIN us = 1 .. m
      /\ \A k \in 1 .. m : after[at[k]].role = "user" /\ us[k] = after[at[k]].text
      /\ \A i \in 1 .. n - b : after[i].role = "user" => \E k \in 1 .. m : at[k] = i
  BY <1>5 DEF UserPlaces
<1>7. us # << >>
  <2>1. n - b \in 1 .. n - b /\ after[n - b] = t[n]
    BY <1>1, <1>2, <1>3, <1>4
  <2>2. \E k \in 1 .. m : at[k] = n - b
    BY <1>6, <2>1
  <2> QED
    BY <1>6, <2>2
<1>8. ActiveText(t) = Joined(us)
  BY <1>7 DEF ActiveText, b, after
<1>9. Payload(llm, t).secret = LastOf(us, Secret)
  <2>1. Payload(llm, t).secret = ActiveText(t).secret
    BY DEF Payload, Token
  <2> HIDE DEF us
  <2>2. Joined(us).secret = LastOf(us, Secret)
    BY DEF Joined
  <2> QED
    BY <1>8, <2>1, <2>2
<1> HIDE DEF us, n
<1>10. PICK k \in 1 .. m : us[k].secret = LastOf(us, Secret)
  BY <1>6, <1>9, LastSecret
<1>11. at[k] \in 1 .. n - b /\ after[at[k]].role = "user" /\ after[at[k]].text.secret = Payload(llm, t).secret
  BY <1>6, <1>9, <1>10
<1>12. at[k] + b \in 1 .. n /\ after[at[k]] = t[at[k] + b] /\ b < at[k] + b
  <2>1. PICK x \in 1 .. n - b : x = at[k]
    BY <1>11
  <2>2. x + b \in 1 .. n /\ b < x + b
    BY <1>1, <1>2, <1>4
  <2> QED
    BY <1>4, <2>1, <2>2
<1>13. \A j \in 1 .. n : t[j].role = "system" => j < at[k] + b
  BY <1>1, <1>2, <1>12
<1> QED
  BY <1>11, <1>12, <1>13 DEF n

\* The target of a payload is the last one a user named.
LEMMA SourceIsNamed ==
  ASSUME NEW n \in Nat, NEW t, DOMAIN t = 1 .. n, NEW llm,
         NEW i \in 1 .. n, t[i].role = "user", t[i].text.src # None
  PROVE  \E k \in 1 .. n :
           /\ t[k].role = "user" /\ t[k].text.src # None /\ t[k].text.src = Payload(llm, t).src
           /\ \A j \in 1 .. n : t[j].role = "user" /\ t[j].text.src # None => j <= k
<1> DEFINE us == Users(t)
<1>1. PICK m, at : UserPlaces(at, m, t, n)
  BY UsersAre
<1>2. /\ m \in Nat /\ at \in [1 .. m -> 1 .. n]
      /\ DOMAIN us = 1 .. m
      /\ \A k \in 1 .. m : t[at[k]].role = "user" /\ us[k] = t[at[k]].text
      /\ \A k, l \in 1 .. m : k < l => at[k] < at[l]
      /\ \A j \in 1 .. n : t[j].role = "user" => \E k \in 1 .. m : at[k] = j
  BY <1>1 DEF UserPlaces
<1>3. Payload(llm, t).src = CandidateSource(llm, t)
  BY DEF Payload
<1>4. CandidateSource(llm, t) = IF LastOf(us, TextSource) # None THEN LastOf(us, TextSource) ELSE llm.src
  BY DEF CandidateSource
<1> HIDE DEF us
<1>5. PICK l \in 1 .. m : us[l].src # None
  <2>1. PICK l \in 1 .. m : at[l] = i
    BY <1>2
  <2> QED
    BY <1>2, <2>1
<1>6. PICK k \in 1 .. m : /\ us[k].src # None /\ us[k].src = LastOf(us, TextSource)
                          /\ \A j \in 1 .. m : us[j].src # None => j <= k
  BY <1>2, <1>5, LastSource
<1>7. at[k] \in 1 .. n /\ t[at[k]].role = "user" /\ t[at[k]].text.src # None /\ t[at[k]].text.src = Payload(llm, t).src
  BY <1>2, <1>3, <1>4, <1>6
<1>8. ASSUME NEW j \in 1 .. n, t[j].role = "user", t[j].text.src # None PROVE j <= at[k]
  <2>1. PICK o \in 1 .. m : at[o] = j
    BY <1>2, <1>8
  <2>2. o <= k
    BY <1>2, <1>6, <1>8, <2>1
  <2> QED
    BY <1>2, <2>1, <2>2
<1> QED
  BY <1>7, <1>8

\* A conversation is its messages in the order of their times.
LEMMA TranscriptIs ==
  ASSUME NEW now, NEW ms, Timed(ms, now)
  PROVE  \E of, n : InTime(of, n, ms)
<1> DEFINE times == {m.at : m \in ms}
           s == [i \in times |-> (CHOOSE m \in ms : m.at = i).body]
           n == Cardinality(times)
<1>1. now \in Nat /\ (\A m \in ms : m.at \in 1 .. now) /\ \A m, l \in ms : m.at = l.at => m = l
  BY DEF Timed
<1>2. IsFiniteSet(times) /\ \A i \in times : i \in Nat
  <2>1. times \subseteq 1 .. now
    BY <1>1
  <2>2. \A i \in times : i \in 1 .. now
    BY <2>1
  <2>3. IsFiniteSet(1 .. now)
    BY <1>1, FS_Interval
  <2> HIDE DEF times
  <2>4. \A i \in times : i \in Nat
    BY <1>1, <2>2
  <2> QED
    BY <2>1, <2>3, <2>4, FS_Subset
<1>3. PICK at : PickedAt(at, s, times)
  <2> HIDE DEF times, s
  <2> QED
    BY <1>2, PickedPlaces, Zenon
<1>4. /\ n \in Nat /\ at \in [1 .. n -> times]
      /\ Picked(s, times) = [k \in 1 .. n |-> s[at[k]]]
      /\ \A k, l \in 1 .. n : k < l => at[k] < at[l]
      /\ \A i \in times : \E k \in 1 .. n : at[k] = i
  BY <1>3 DEF PickedAt
<1>5. Transcript(ms) = Picked(s, times)
  BY DEF Transcript
<1> DEFINE of == [k \in 1 .. n |-> CHOOSE m \in ms : m.at = at[k]]
<1>6. \A i \in times : \E m \in ms : m.at = i
  OBVIOUS
<1>7. \A m \in ms : m.at \in times
  OBVIOUS
<1>8. \A i \in times : s[i] = (CHOOSE m \in ms : m.at = i).body
  OBVIOUS
<1> HIDE DEF times, s, n
<1>9. \A k \in 1 .. n : of[k] \in ms /\ of[k].at = at[k] /\ at[k] \in times
  BY <1>4, <1>6
<1>10. \A k \in 1 .. n : s[at[k]] = of[k].body
  BY <1>8, <1>9
<1>11. of \in [1 .. n -> ms]
  BY <1>9
<1> HIDE DEF of
<1>12. Transcript(ms) = [k \in 1 .. n |-> of[k].body]
  BY <1>4, <1>5, <1>10
<1>13. \A k \in 1 .. n : of[k].at \in Nat
  BY <1>2, <1>9
<1>14. \A k, l \in 1 .. n : k < l => of[k].at < of[l].at
  BY <1>4, <1>9
<1>15. \A m \in ms : \E k \in 1 .. n : of[k] = m
  <2>1. SUFFICES ASSUME NEW m \in ms PROVE \E k \in 1 .. n : of[k] = m
    OBVIOUS
  <2>2. PICK k \in 1 .. n : at[k] = m.at
    BY <1>4, <1>7
  <2> QED
    BY <1>1, <1>9, <2>2
<1>16. InTime(of, n, ms)
  BY <1>4, <1>11, <1>12, <1>13, <1>14, <1>15 DEF InTime
<1> QED
  BY <1>16

\* What is earlier in a conversation has the earlier time.
LEMMA PlacesAreTimes ==
  ASSUME NEW of, NEW n, NEW ms, InTime(of, n, ms), NEW k \in 1 .. n, NEW l \in 1 .. n
  PROVE  k < l <=> of[k].at < of[l].at
<1>1. n \in Nat /\ of[k].at \in Nat /\ of[l].at \in Nat
  BY DEF InTime
<1>2. k < l => of[k].at < of[l].at
  BY DEF InTime
<1>3. l < k => of[l].at < of[k].at
  BY DEF InTime
<1>4. k = l => of[k].at = of[l].at
  OBVIOUS
<1> QED
  BY <1>1, <1>2, <1>3, <1>4

\* A plan offered to a user's message follows the conversation up to it.
LEMMA TurnFollows ==
  ASSUME NEW now, NEW ms, Timed(ms, now), NEW llm,
         NEW last \in ms, last.body.role = "user", \A m \in ms : m.at <= last.at,
         Turn(llm, Transcript(ms)).ready
  PROVE  Follows(Turn(llm, Transcript(ms)), ms)
<1> DEFINE t == Transcript(ms)
           p == Payload(llm, t)
<1>1. PICK of, n : InTime(of, n, ms)
  BY TranscriptIs
<1>2. /\ n \in Nat /\ of \in [1 .. n -> ms]
      /\ t = [k \in 1 .. n |-> of[k].body]
      /\ \A k \in 1 .. n : of[k].at \in Nat
      /\ \A m \in ms : \E k \in 1 .. n : of[k] = m
  BY <1>1 DEF InTime
<1>3. Turn(llm, t).payload = p /\ Turn(llm, t).brought = llm.token
  BY DEF Turn
<1> HIDE DEF t
<1>4. DOMAIN t = 1 .. n /\ \A k \in 1 .. n : t[k] = of[k].body /\ of[k] \in ms
  BY <1>2
<1>5. t \in Seq({of[k].body : k \in 1 .. n}) /\ Len(t) = n
  BY <1>2
<1>6. n # 0 /\ of[n] = last
  <2>1. PICK k \in 1 .. n : of[k] = last
    BY <1>2
  <2>2. n \in 1 .. n
    BY <1>2, <2>1
  <2>3. ~ (k < n)
    <3>1. of[n].at <= of[k].at
      BY <1>4, <2>1, <2>2
    <3>2. of[n].at \in Nat /\ of[k].at \in Nat
      BY <1>2, <2>2
    <3> QED
      BY <1>1, <2>2, <3>1, <3>2, PlacesAreTimes
  <2> QED
    BY <1>2, <2>1, <2>3
<1>7. ASSUME p.secret \notin {None, llm.token}
      PROVE  \E u \in ms : /\ u.body.role = "user" /\ u.body.text.secret = p.secret
                           /\ \A r \in ms : r.body.role = "system" => r.at < u.at
  <2>1. t[Len(t)].role = "user" /\ Len(t) # 0
    BY <1>2, <1>4, <1>5, <1>6
  <2>2. PICK i \in 1 .. Len(t) : /\ t[i].role = "user" /\ t[i].text.secret = p.secret
                                 /\ \A j \in 1 .. Len(t) : t[j].role = "system" => j < i
    BY <1>5, <1>7, <2>1, SecretIsSaid
  <2>3. i \in 1 .. n /\ of[i] \in ms /\ of[i].body = t[i]
    BY <1>4, <1>5, <2>2
  <2>4. ASSUME NEW r \in ms, r.body.role = "system" PROVE r.at < of[i].at
    <3>1. PICK j \in 1 .. n : of[j] = r
      BY <1>2
    <3>2. j < i
      BY <1>4, <1>5, <2>2, <2>4, <3>1
    <3> QED
      BY <1>1, <2>3, <3>1, <3>2, PlacesAreTimes
  <2> QED
    BY <2>2, <2>3, <2>4
<1>8. ASSUME NEW w \in ms, Names(w)
      PROVE  \E u \in ms : /\ Names(u) /\ u.body.text.src = p.src
                           /\ \A v \in ms : Names(v) => v.at <= u.at
  <2>1. PICK i \in 1 .. n : of[i] = w
    BY <1>2
  <2>2. t[i].role = "user" /\ t[i].text.src # None
    BY <1>4, <1>8, <2>1 DEF Names
  <2>3. PICK k \in 1 .. n :
           /\ t[k].role = "user" /\ t[k].text.src # None /\ t[k].text.src = p.src
           /\ \A j \in 1 .. n : t[j].role = "user" /\ t[j].text.src # None => j <= k
    <3>1. n \in Nat /\ DOMAIN t = 1 .. n
      BY <1>2, <1>4
    <3> QED
      BY <2>2, <3>1, SourceIsNamed, Zenon
  <2>4. of[k] \in ms /\ Names(of[k]) /\ of[k].body.text.src = p.src
    BY <1>4, <2>3 DEF Names
  <2>5. ASSUME NEW v \in ms, Names(v) PROVE v.at <= of[k].at
    <3>1. PICK j \in 1 .. n : of[j] = v
      BY <1>2
    <3>2. j <= k
      BY <1>4, <2>3, <2>5, <3>1 DEF Names
    <3>3. ~ (k < j)
      BY <1>2, <3>2
    <3>4. ~ (of[k].at < of[j].at)
      BY <1>1, <3>3, PlacesAreTimes
    <3> QED
      BY <1>2, <3>1, <3>4
  <2> QED
    BY <2>4, <2>5
<1> QED
  BY <1>3, <1>7, <1>8 DEF Follows, t

\* The elements at some positions are elements of the list.
LEMMA PickedFrom ==
  ASSUME NEW S, NEW s \in Seq(S), NEW T, NEW I, I \subseteq DOMAIN s, \A i \in I : s[i] \in T
  PROVE  Picked(s, I) \in Seq(T)
<1>1. (\A i \in I : i \in Nat) /\ IsFiniteSet(I)
  <2>1. IsFiniteSet(1 .. Len(s)) /\ I \subseteq 1 .. Len(s)
    BY FS_Interval
  <2> QED
    BY <2>1, FS_Subset
<1>2. PICK at : PickedAt(at, s, I)
  BY <1>1, PickedPlaces, Zenon
<1> DEFINE n == Cardinality(I)
<1>3. /\ n \in Nat /\ at \in [1 .. n -> I]
      /\ Picked(s, I) = [k \in 1 .. n |-> s[at[k]]]
  BY <1>2 DEF PickedAt
<1> HIDE DEF n
<1> QED
  BY <1>3

LEMMA UpToIs ==
  ASSUME NEW T, NEW s \in Seq(T), NEW n \in Nat
  PROVE  UpTo(n, s) \in Seq(T) /\ Len(UpTo(n, s)) <= n
<1>1. CASE Len(s) <= n
  BY <1>1 DEF UpTo
<1>2. CASE ~ (Len(s) <= n)
  <2>1. UpTo(n, s) = SubSeq(s, 1, n) /\ n <= Len(s)
    BY <1>2 DEF UpTo
  <2> QED
    BY <2>1
<1> QED
  BY <1>1, <1>2

\* Whatever is left of the options, the list that is offered can be answered.
LEMMA CappedIs ==
  ASSUME NEW s \in Seq({"concrete", Custom})
  PROVE  CanAnswer(Capped(s))
<1> DEFINE I == {i \in DOMAIN s : s[i] # Custom}
           most == UpTo(4, Picked(s, I))
<1>1. Picked(s, I) \in Seq({"concrete"})
  <2>1. I \subseteq DOMAIN s /\ \A i \in I : s[i] \in {"concrete"}
    OBVIOUS
  <2> HIDE DEF I
  <2> QED
    BY <2>1, PickedFrom
<1>2. most \in Seq({"concrete"}) /\ Len(most) <= 4
  <2> HIDE DEF I
  <2> QED
    BY <1>1, UpToIs
<1>3. Capped(s) = most \o << Custom >>
  BY DEF Capped
<1> HIDE DEF most
<1> DEFINE n == Len(most)
           c == Capped(s)
<1>4. n \in 0 .. 4 /\ Len(c) = n + 1 /\ c[n + 1] = Custom /\ \A j \in 1 .. n : c[j] = most[j] /\ most[j] \in {"concrete"}
  <2>1. most \in Seq({"concrete", Custom}) /\ << Custom >> \in Seq({"concrete", Custom}) /\ Len(<< Custom >>) = 1
    BY <1>2
  <2>2. n \in Nat /\ n <= 4
    BY <1>2
  <2>3. Len(c) = n + 1 /\ c[n + 1] = Custom /\ \A j \in 1 .. n : c[j] = most[j]
    BY <1>3, <2>1, <2>2
  <2>4. \A j \in 1 .. n : most[j] \in {"concrete"}
    BY <1>2
  <2> HIDE DEF c, n
  <2>5. n \in 0 .. 4
    BY <2>2
  <2> QED
    BY <2>3, <2>4, <2>5
<1> HIDE DEF c, n
<1>5. Last(c) = Custom
  BY <1>4 DEF Last
<1>6. Len(c) \in 1 .. 5 /\ \A j \in 1 .. (Len(c) - 1) : c[j] = "concrete"
  BY <1>4
<1> QED
  BY <1>5, <1>6 DEF CanAnswer, c

\* A group of the model's options can be answered, unless nothing is left of it.
LEMMA SanitizedIs ==
  ASSUME NEW g \in Group
  PROVE  LET options == SanitizedGroup(g).options IN options # << >> => CanAnswer(options)
<1> DEFINE I == {i \in DOMAIN g.options : g.options[i] \in {"concrete", Custom}}
           kept == Picked(g.options, I)
           u == Usable(g.options)
           options == IF u.replaced /\ g.step = "target" THEN SupportedTargets ELSE u.options
<1>1. g.options \in Seq(OptionKinds)
  BY DEF Group
<1>2. kept \in Seq({"concrete", Custom})
  <2>1. I \subseteq DOMAIN g.options /\ \A i \in I : g.options[i] \in {"concrete", Custom}
    OBVIOUS
  <2> HIDE DEF I
  <2> QED
    BY <1>1, <2>1, PickedFrom
<1>3. u.options = kept
  BY DEF Usable
<1>4. SupportedTargets \in Seq({"concrete", Custom})
  BY DEF SupportedTargets
<1>5. options \in Seq({"concrete", Custom})
  <2> HIDE DEF kept, u
  <2> QED
    BY <1>2, <1>3, <1>4
<1>6. SanitizedGroup(g).options = IF options = << >> THEN << >> ELSE Capped(options)
  BY DEF SanitizedGroup
<1> HIDE DEF options
<1> QED
  BY <1>5, <1>6, CappedIs

\* What a turn asks can be answered.
LEMMA TurnCanBeAnswered ==
  ASSUME NEW llm \in Models \cup {Silent}, NEW t, NEW m, m.body = Turn(llm, t)
  PROVE  WellSaid(m)
<1> DEFINE p == Payload(llm, t)
           questions == Missing(p, Recognized(t))
           ready == IsReady(llm, p, questions)
           all == [i \in DOMAIN llm.groups |-> SanitizedGroup(llm.groups[i])]
           I == {i \in DOMAIN all : all[i].options # << >>}
           own == Picked(all, I)
           fallback == FallbackGroups(p, questions)
           options == QuestionOptions(llm, p, questions)
           names == {"target", "base", "auth", "scope"}
           T == {g \in {all[i] : i \in I} \cup {[step |-> s, options |-> SupportedTargets] : s \in names} :
                   CanAnswer(g.options)}
<1>1. llm.groups \in Seq(Group)
  <2>1. CASE llm = Silent
    BY <2>1 DEF Silent
  <2>2. CASE llm \in Models
    BY <2>2, ModelsAssumption DEF Answer
  <2> QED
    BY <2>1, <2>2
<1>2. CanAnswer(SupportedTargets)
  BY DEF CanAnswer, SupportedTargets, Last
<1>3. own \in Seq(T)
  <2> DEFINE S == {all[i] : i \in DOMAIN all}
  <2>1. all \in Seq(S) /\ I \subseteq DOMAIN all
    BY <1>1
  <2>2. \A i \in I : all[i] \in T
    <3>1. SUFFICES ASSUME NEW i \in I PROVE CanAnswer(all[i].options)
      OBVIOUS
    <3>2. llm.groups[i] \in Group /\ all[i] = SanitizedGroup(llm.groups[i]) /\ all[i].options # << >>
      BY <1>1
    <3> QED
      BY <3>2, SanitizedIs
  <2> HIDE DEF all, I, T, S
  <2> QED
    BY <2>1, <2>2, PickedFrom
<1>4. fallback \in Seq(T)
  <2> DEFINE steps == << "target", "base", "auth", "scope" >>
             groups == [i \in DOMAIN steps |-> [step |-> steps[i], options |-> SupportedTargets]]
  <2>1. PICK J : J \subseteq DOMAIN groups /\ fallback = Picked(groups, J)
    BY DEF FallbackGroups
  <2>2. DOMAIN groups = 1 .. 4 /\ \A i \in 1 .. 4 : groups[i] \in T
    <3>1. DOMAIN groups = 1 .. 4
      OBVIOUS
    <3>2. SUFFICES ASSUME NEW i \in 1 .. 4 PROVE groups[i] \in T
      BY <3>1
    <3>3. groups[i] = [step |-> steps[i], options |-> SupportedTargets] /\ steps[i] \in names
      <4>1. i = 1 \/ i = 2 \/ i = 3 \/ i = 4
        OBVIOUS
      <4>2. DOMAIN steps = 1 .. 4 /\ steps[i] \in names
        BY <4>1
      <4> HIDE DEF steps, names
      <4> QED
        BY <4>2
    <3>4. groups[i].options = SupportedTargets /\ groups[i] \in {[step |-> s, options |-> SupportedTargets] : s \in names}
      BY <3>3
    <3> HIDE DEF groups, all, I, names
    <3> QED
      BY <1>2, <3>4
  <2> HIDE DEF T, groups
  <2>3. groups \in Seq(T)
    <3>1. groups = [i \in 1 .. 4 |-> groups[i]]
      BY <2>2 DEF groups
    <3> QED
      BY <2>2, <3>1
  <2> HIDE DEF groups, fallback
  <2> QED
    BY <2>1, <2>2, <2>3, PickedFrom
<1> HIDE DEF T, own, fallback
<1>5. options \in Seq(T) /\ Len(options) <= 2
  <2>1. UpTo(2, own) \in Seq(T) /\ Len(UpTo(2, own)) <= 2
    BY <1>3, UpToIs
  <2>2. UpTo(1, fallback) \in Seq(T) /\ Len(UpTo(1, fallback)) <= 1
    BY <1>4, UpToIs
  <2>3. options = IF own # << >> THEN UpTo(2, own) ELSE UpTo(1, fallback)
    BY DEF QuestionOptions, own, fallback
  <2> QED
    BY <2>1, <2>2, <2>3
<1>6. \A g \in T : CanAnswer(g.options)
  BY DEF T
<1>7. m.body.role = "assistant" /\ m.body.asked = IF ready THEN << >> ELSE options
  BY DEF Turn
<1> HIDE DEF options, ready
<1>8. Len(m.body.asked) <= 2 /\ \A i \in DOMAIN m.body.asked : m.body.asked[i] \in T
  BY <1>5, <1>7
<1> QED
  BY <1>6, <1>7, <1>8 DEF WellSaid

-----------------------------------------------------------------------------
(* The steps of the conversation.                                          *)

(* What is taken away or added later changes nothing of what was earlier.  *)
LEMMA SincereStays ==
  ASSUME NEW ms, NEW now, Timed(ms, now), Sincere(ms), NEW k \in Nat, NEW more,
         \A m \in more : m.at \in Nat /\ k <= m.at,
         \A m \in more : Offering(m) => Follows(m.body, Earlier(Earlier(ms, k) \cup more, m.at))
  PROVE  Sincere(Earlier(ms, k) \cup more)
<1> DEFINE all == Earlier(ms, k) \cup more
<1>1. \A m \in ms : m.at \in Nat
  BY DEF Timed
<1>2. SUFFICES ASSUME NEW m \in Earlier(ms, k), Offering(m) PROVE Follows(m.body, Earlier(all, m.at))
  BY DEF Sincere
<1>3. m \in ms /\ m.at < k /\ m.at \in Nat
  BY <1>1 DEF Earlier
<1>4. \A x \in ms : x.at < m.at => x.at < k
  BY <1>1, <1>3
<1>5. \A x \in more : ~ (x.at < m.at)
  BY <1>3
<1>6. Earlier(all, m.at) = Earlier(ms, m.at)
  BY <1>4, <1>5 DEF Earlier
<1> QED
  BY <1>2, <1>3, <1>6 DEF Sincere

(* A request that ends is in no turn, and no other is if it was alone.     *)
LEMMA EndTold ==
  ASSUME IInv, TInv, NEW c \in Clients, pc[c] # "idle", End(c), overlap' = overlap,
         \A m \in msgs' : WellSaid(m),
         InOrder => Timed(msgs', clock') /\ Sincere(msgs')
  PROVE  TInv'
<1>1. pc' = [pc EXCEPT ![c] = "idle"] /\ DOMAIN pc = Clients
  BY DEF End, IInv, Data
<1>2. SUFFICES ASSUME InOrder PROVE \A d \in Clients : pc'[d] # "turn"
  BY DEF TInv, Told, InOrder
<1>3. \A d \in Clients : pc[d] # "idle" => d = c
  BY <1>2 DEF IInv, Order, Alone
<1> QED
  BY <1>1, <1>3

(* Nothing is said.                                                        *)
LEMMA QuietTold ==
  ASSUME IInv, TInv, UNCHANGED << msgs, clock >>, InOrder' => InOrder,
         InOrder => \A d \in Clients : pc'[d] = "turn" =>
                      pc[d] = "turn" /\ seen'[d] = seen[d] /\ op'[d] = op[d]
  PROVE  TInv'
<1>1. InOrder' => Told'
  <2>1. SUFFICES ASSUME InOrder PROVE Told'
    OBVIOUS
  <2>2. Timed(msgs', clock') /\ Sincere(msgs')
    BY <2>1 DEF TInv, Told
  <2>3. \A d \in Clients : pc'[d] = "turn" =>
       /\ seen'[d] = Earlier(msgs', op'[d].at)
       /\ Without(msgs', op'[d].gone) = Earlier(msgs', op'[d].at)
    BY <2>1 DEF TInv, Told
  <2> QED
    BY <2>2, <2>3 DEF Told
<1> QED
  BY <1>1 DEF TInv

LEMMA BeginTold ==
  ASSUME IInv, TInv, NEW c \in Clients, NEW o, Begin(c, o)
  PROVE  TInv'
<1>1. /\ op' = [op EXCEPT ![c] = o] /\ pc' = [pc EXCEPT ![c] = "loaded"]
      /\ seen' = [seen EXCEPT ![c] = msgs]
      /\ overlap' = (overlap \/ \E d \in Clients \ {c} : pc[d] # "idle")
      /\ msgs' = msgs /\ clock' = clock
  BY DEF Begin
<1>2. \A d \in Clients : pc'[d] = "turn" => pc[d] = "turn" /\ seen'[d] = seen[d] /\ op'[d] = op[d]
  BY <1>1 DEF IInv, Data
<1>3. InOrder' => InOrder
  BY <1>1 DEF InOrder
<1> QED
  BY <1>1, <1>2, <1>3, QuietTold

LEMMA TurningTold ==
  ASSUME IInv, TInv, NEW c \in Clients, NEW at, NEW gone, Turning(c, at, gone),
         clock' \in {clock, clock + 1},
         InOrder => Without(msgs, gone) = Earlier(msgs, at)
  PROVE  TInv'
<1> DEFINE o == [kind |-> op[c].kind, at |-> at, text |-> op[c].text, gone |-> gone]
<1>1. /\ pc' = [pc EXCEPT ![c] = "turn"]
      /\ op' = [op EXCEPT ![c] = o]
      /\ seen' = [seen EXCEPT ![c] = Without(msgs, gone)]
      /\ msgs' = msgs /\ overlap' = overlap
  BY DEF Turning
<1>2. o.at = at /\ o.gone = gone
  OBVIOUS
<1> HIDE DEF o
<1>3. /\ pc'[c] = "turn" /\ op'[c] = o /\ seen'[c] = Without(msgs, gone)
      /\ \A d \in Clients \ {c} : pc'[d] = pc[d] /\ op'[d] = op[d] /\ seen'[d] = seen[d]
  BY <1>1 DEF IInv, Data
<1>4. SUFFICES ASSUME InOrder PROVE Told'
  BY <1>1 DEF TInv, InOrder
<1>5. Timed(msgs', clock')
  BY <1>1, <1>4 DEF TInv, Told, Timed
<1>6. Sincere(msgs')
  BY <1>1, <1>4 DEF TInv, Told
<1>7. ASSUME NEW d \in Clients, pc'[d] = "turn"
      PROVE  /\ seen'[d] = Earlier(msgs, op'[d].at)
             /\ Without(msgs, op'[d].gone) = Earlier(msgs, op'[d].at)
  <2>1. CASE d = c
    BY <1>2, <1>3, <1>4, <2>1
  <2>2. CASE d # c
    BY <1>3, <1>4, <1>7, <2>2 DEF TInv, Told
  <2> QED
    BY <2>1, <2>2
<1> QED
  BY <1>1, <1>5, <1>6, <1>7 DEF Told

LEMMA StartTold ==
  ASSUME IInv, TInv, NEW c \in Clients, StartTurn(c) \/ StartEdit(c)
  PROVE  TInv'
<1>1. CASE StartTurn(c)
  <2>1. Turning(c, clock + 1, {}) /\ clock' = clock + 1
    BY <1>1 DEF StartTurn
  <2>2. ASSUME InOrder PROVE Without(msgs, {}) = Earlier(msgs, clock + 1)
    <3>1. clock \in Nat /\ \A m \in msgs : m.at \in 1 .. clock
      BY <2>2 DEF TInv, Told, Timed
    <3>2. \A m \in msgs : m.at < clock + 1
      BY <3>1
    <3> QED
      BY <3>2 DEF Without, Earlier
  <2> QED
    BY <2>1, <2>2, TurningTold
<1>2. CASE StartEdit(c)
  <2> DEFINE k == op[c].at
             gone == {m \in seen[c] : m.at >= k}
  <2>1. pc[c] = "loaded" /\ op[c].kind = "edit" /\ Turning(c, k, gone) /\ clock' = clock
    BY <1>2 DEF StartEdit
  <2>2. k \in 1 .. clock /\ clock \in Nat
    BY <2>1 DEF IInv, Data, ClientOk
  <2>3. ASSUME InOrder PROVE Without(msgs, gone) = Earlier(msgs, k)
    <3>1. seen[c] = msgs /\ \A m \in msgs : m.at \in Nat
      BY <2>1, <2>3 DEF IInv, Order, Alone, TInv, Told, Timed
    <3>2. \A m \in msgs : m.at >= k <=> ~ (m.at < k)
      BY <2>2, <3>1
    <3>3. gone = msgs \ {m \in msgs : m.at < k}
      BY <3>1, <3>2
    <3> HIDE DEF gone, k
    <3> QED
      BY <3>3, WithoutLater DEF Earlier
  <2> HIDE DEF gone, k
  <2> QED
    BY <2>1, <2>3, TurningTold
<1> QED
  BY <1>1, <1>2

LEMMA AppendTold ==
  ASSUME IInv, TInv, NEW c \in Clients, AppendTurn(c)
  PROVE  TInv'
<1>1. PICK llm \in Models \cup {Silent} :
        LET turn == Turn(llm, Shown(c))
        IN  /\ pc[c] = "turn"
            /\ clock' = clock + 1
            /\ msgs' = Without(msgs, op[c].gone) \cup Own(c) \cup {[at |-> clock + 1, body |-> turn]}
            /\ End(c) /\ overlap' = overlap
  BY DEF AppendTurn
<1> DEFINE k      == op[c].at
           turn   == Turn(llm, Shown(c))
           answer == [at |-> clock + 1, body |-> turn]
           mine   == User(k, op[c].text)
           more   == {mine, answer}
<1>2. k \in 1 .. clock /\ clock \in Nat
  BY <1>1 DEF IInv, Data, ClientOk
<1>3. answer.at = clock + 1 /\ answer.body = turn /\ mine.at = k /\ mine.body.role = "user" /\ Own(c) = {mine}
  BY DEF User, Own
<1>4. msgs' = Without(msgs, op[c].gone) \cup more
  BY <1>1, <1>3
<1> HIDE DEF answer, turn, mine, k
<1>5. WellSaid(answer)
  BY <1>3, TurnCanBeAnswered DEF turn
<1>6. WellSaid(mine)
  BY <1>3 DEF WellSaid
<1>7. \A m \in msgs' : WellSaid(m)
  BY <1>4, <1>5, <1>6 DEF TInv, Without
<1>8. ASSUME InOrder PROVE Timed(msgs', clock') /\ Sincere(msgs')
  <2>1. /\ seen[c] = Earlier(msgs, k) /\ Without(msgs, op[c].gone) = Earlier(msgs, k)
        /\ Timed(msgs, clock) /\ Sincere(msgs)
    BY <1>1, <1>8 DEF TInv, Told, k
  <2>2. msgs' = Earlier(msgs, k) \cup more
    BY <1>4, <2>1
  <2>3. \A m \in Earlier(msgs, k) : m \in msgs /\ m.at \in 1 .. clock /\ m.at < k
    BY <2>1 DEF Earlier, Timed
  <2>4. \A m, n \in Earlier(msgs, k) : m.at = n.at => m = n
    BY <2>1 DEF Earlier, Timed
  <2>5. mine.at \in 1 .. clock + 1 /\ answer.at \in 1 .. clock + 1 /\ mine.at # answer.at
    BY <1>2, <1>3
  <2>6. \A m \in Earlier(msgs, k) : m.at # mine.at /\ m.at # answer.at
    BY <1>2, <1>3, <2>3
  <2>7. Timed(msgs', clock')
    <3>1. \A m \in msgs' : m.at \in 1 .. clock + 1
      BY <1>2, <2>2, <2>3, <2>5
    <3>2. \A m, n \in msgs' : m.at = n.at => m = n
      BY <2>2, <2>4, <2>5, <2>6
    <3> QED
      BY <1>1, <1>2, <3>1, <3>2 DEF Timed
  <2> DEFINE shown == Earlier(msgs, k) \cup {mine}
  <2>8. Earlier(msgs', clock + 1) = shown
    <3>1. \A m \in shown : m.at < clock + 1 /\ m \in msgs'
      BY <1>2, <1>3, <2>2, <2>3
    <3>2. \A m \in msgs' : m.at < clock + 1 => m \in shown
      BY <1>2, <1>3, <2>2
    <3> QED
      BY <3>1, <3>2 DEF Earlier
  <2>9. turn = Turn(llm, Transcript(shown))
    BY <1>3, <2>1 DEF turn, Shown
  <2>10. Timed(shown, clock)
    <3>1. \A m \in shown : m.at \in 1 .. clock
      BY <1>2, <1>3, <2>3
    <3>2. \A m, n \in shown : m.at = n.at => m = n
      BY <2>4, <2>6
    <3> QED
      BY <1>2, <3>1, <3>2 DEF Timed
  <2>11. \A m \in shown : m.at <= mine.at
    BY <1>2, <1>3, <2>3
  <2>12. Offering(answer) => Follows(answer.body, Earlier(msgs', answer.at))
    <3>1. SUFFICES ASSUME Offering(answer) PROVE Follows(turn, shown)
      BY <1>3, <2>8
    <3>2. Turn(llm, Transcript(shown)).ready
      BY <1>3, <2>9, <3>1 DEF Offering
    <3>3. mine \in shown
      OBVIOUS
    <3> HIDE DEF shown
    <3> QED
      BY <1>3, <2>9, <2>10, <2>11, <3>2, <3>3, TurnFollows
  <2>13. ~ Offering(mine)
    BY <1>3 DEF Offering
  <2>14. \A m \in more : /\ m.at \in Nat /\ k <= m.at
                         /\ Offering(m) => Follows(m.body, Earlier(msgs', m.at))
    BY <1>2, <1>3, <2>12, <2>13
  <2>15. k \in Nat
    BY <1>2
  <2> HIDE DEF more
  <2>16. Sincere(msgs')
    BY <2>1, <2>2, <2>14, <2>15, SincereStays
  <2> QED
    BY <2>7, <2>16
<1> QED
  BY <1>1, <1>7, <1>8, EndTold

LEMMA RollbackTold ==
  ASSUME IInv, TInv, NEW c \in Clients, Rollback(c)
  PROVE  TInv'
<1> DEFINE k == op[c].at
<1>1. /\ pc[c] = "loaded" /\ op[c].kind = "rollback" /\ End(c)
      /\ msgs' = Without(msgs, seen[c] \ {m \in seen[c] : m.at < k})
      /\ clock' = clock /\ overlap' = overlap
  BY DEF Rollback
<1>2. k \in 1 .. clock /\ clock \in Nat
  BY <1>1 DEF IInv, Data, ClientOk
<1> HIDE DEF k
<1>3. \A m \in msgs' : WellSaid(m)
  BY <1>1 DEF TInv, Without
<1>4. ASSUME InOrder PROVE Timed(msgs', clock') /\ Sincere(msgs')
  <2>1. seen[c] = msgs /\ Timed(msgs, clock) /\ Sincere(msgs)
    BY <1>1, <1>4 DEF IInv, Order, Alone, TInv, Told
  <2>2. msgs' = Earlier(msgs, k)
    BY <1>1, <2>1, WithoutLater DEF Earlier
  <2>3. Timed(msgs', clock')
    BY <1>1, <2>1, <2>2 DEF Timed, Earlier
  <2>4. k \in Nat
    BY <1>2
  <2>5. Sincere(Earlier(msgs, k) \cup {})
    BY <2>1, <2>4, SincereStays
  <2> QED
    BY <2>2, <2>3, <2>5
<1> QED
  BY <1>1, <1>3, <1>4, EndTold

LEMMA RejectTold ==
  ASSUME IInv, TInv, NEW c \in Clients, Reject(c)
  PROVE  TInv'
<1> DEFINE note == [at |-> clock + 1, body |-> [role |-> "system"]]
<1>1. /\ pc[c] = "loaded" /\ End(c)
      /\ msgs' = msgs \cup {note}
      /\ clock' = clock + 1 /\ overlap' = overlap
  BY DEF Reject
<1>2. note.at = clock + 1 /\ note.body.role = "system"
  OBVIOUS
<1> HIDE DEF note
<1>3. \A m \in msgs' : WellSaid(m)
  <2>1. WellSaid(note)
    BY <1>2 DEF WellSaid
  <2> QED
    BY <1>1, <2>1 DEF TInv
<1>4. ASSUME InOrder PROVE Timed(msgs', clock') /\ Sincere(msgs')
  <2>1. /\ Timed(msgs, clock) /\ Sincere(msgs) /\ clock \in Nat
        /\ (\A m \in msgs : m.at \in 1 .. clock) /\ \A m, n \in msgs : m.at = n.at => m = n
    BY <1>4 DEF TInv, Told, Timed
  <2>2. msgs = Earlier(msgs, clock + 1)
    <3>1. \A m \in msgs : m.at < clock + 1
      BY <2>1
    <3> QED
      BY <3>1 DEF Earlier
  <2>3. Timed(msgs', clock')
    BY <1>1, <1>2, <2>1 DEF Timed
  <2>4. ~ Offering(note) /\ clock + 1 \in Nat
    BY <1>2, <2>1 DEF Offering
  <2>5. \A m \in {note} : m.at \in Nat /\ clock + 1 <= m.at /\ ~ Offering(m)
    BY <1>2, <2>4
  <2>6. Sincere(Earlier(msgs, clock + 1) \cup {note})
    BY <2>1, <2>4, <2>5, SincereStays, Zenon
  <2> QED
    BY <1>1, <2>2, <2>3, <2>6
<1> QED
  BY <1>1, <1>3, <1>4, EndTold

LEMMA DeleteTold ==
  ASSUME IInv, TInv, NEW c \in Clients, DeleteSession(c)
  PROVE  TInv'
<1>1. /\ pc[c] = "loaded" /\ End(c) /\ msgs' = Without(msgs, seen[c])
      /\ clock' = clock /\ overlap' = overlap
  BY DEF DeleteSession
<1>2. \A m \in msgs' : WellSaid(m)
  BY <1>1 DEF TInv, Without
<1>3. ASSUME InOrder PROVE Timed(msgs', clock') /\ Sincere(msgs')
  <2>1. seen[c] = msgs /\ Timed(msgs, clock)
    BY <1>1, <1>3 DEF IInv, Order, Alone, TInv, Told
  <2>2. msgs' = {}
    BY <1>1, <2>1 DEF Without
  <2> QED
    BY <1>1, <2>1, <2>2 DEF Timed, Sincere
<1> QED
  BY <1>1, <1>2, <1>3, EndTold

(* The steps that end a request and say nothing.                           *)
LEMMA OtherEnds ==
  ASSUME IInv, TInv, NEW c \in Clients, pc[c] # "idle", End(c), UNCHANGED << msgs, clock, overlap >>
  PROVE  TInv'
  BY EndTold DEF TInv, Told

LEMMA StepTold ==
  ASSUME IInv, TInv, [Next]_vars
  PROVE  TInv'
<1>1. CASE UNCHANGED vars
  BY <1>1, QuietTold DEF vars, InOrder
<1>2. ASSUME NEW c \in Clients, Request(c) PROVE TInv'
  <2>1. PICK o : Begin(c, o)
    BY <1>2 DEF Request, Say, Edit, LoadRollback, LoadReject, LoadDelete, IntakeChat, LoadIntake, LoadExecute
  <2> QED
    BY <2>1, BeginTold
<1>3. ASSUME NEW c \in Clients, CreateRun(c) PROVE TInv'
  <2>1. /\ pc' = [pc EXCEPT ![c] = "created"] /\ seen' = seen
        /\ op' = [op EXCEPT ![c] = [kind |-> "execute", run |-> Len(runs) + 1]]
        /\ UNCHANGED << msgs, clock, overlap >>
    BY <1>3 DEF CreateRun
  <2>2. \A d \in Clients : pc'[d] = "turn" => pc[d] = "turn" /\ seen'[d] = seen[d] /\ op'[d] = op[d]
    BY <2>1 DEF IInv, Data
  <2> QED
    BY <2>1, <2>2, QuietTold DEF InOrder
<1>4. ASSUME NEW c \in Clients, Intake(c) \/ MarkExecuted(c) \/ Refused(c) \/ UpdateFails(c) \/ Die(c)
      PROVE  TInv'
  <2>1. pc[c] # "idle" /\ End(c) /\ UNCHANGED << msgs, clock, overlap >>
    BY <1>4 DEF Intake, MarkExecuted, Refused, UpdateFails, Die
  <2> QED
    BY <2>1, OtherEnds
<1>5. ASSUME NEW c \in Clients, Serve(c) \/ Die(c) PROVE TInv'
  BY <1>3, <1>4, <1>5, StartTold, AppendTold, RollbackTold, RejectTold, DeleteTold DEF Serve
<1> QED
  BY <1>1, <1>2, <1>5 DEF Next

LEMMA Conversing == Spec => []TInv
<1>1. Init => TInv
  BY DEF Init, TInv, Told, Timed, Sincere
<1>2. IInv /\ TInv /\ [Next]_vars => TInv'
  BY StepTold
<1> QED
  BY <1>1, <1>2, Invariance, PTL DEF Spec

\* What follows from the messages follows from their conversation, place by place.
LEMMA PlansAreFollowing ==
  ASSUME TInv PROVE PlansFollowTheUser
<1> DEFINE t == Transcript(msgs)
<1> SUFFICES ASSUME InOrder, NEW i \in DOMAIN t, t[i].role = "assistant", t[i].ready
             PROVE  LET before == SubSeq(t, 1, i - 1)
                        said == {j \in DOMAIN before : t[j].role = "user"}
                        named == {j \in said : t[j].text.src # None}
                    IN  /\ t[i].payload.secret \notin {None, t[i].brought} =>
                             \E j \in said : j > Boundary(before) /\ t[j].text.secret = t[i].payload.secret
                        /\ named # {} => \E j \in named :
                             t[j].text.src = t[i].payload.src /\ \A k \in named : k <= j
  BY DEF PlansFollowTheUser
<1> DEFINE before == SubSeq(t, 1, i - 1)
           said == {j \in DOMAIN before : t[j].role = "user"}
           named == {j \in said : t[j].text.src # None}
<1>1. Timed(msgs, clock) /\ Sincere(msgs)
  BY DEF TInv, Told
<1>2. PICK of, n : InTime(of, n, msgs)
  BY <1>1, TranscriptIs
<1>3. /\ n \in Nat /\ of \in [1 .. n -> msgs]
      /\ t = [k \in 1 .. n |-> of[k].body]
      /\ \A k \in 1 .. n : of[k].at \in Nat
      /\ \A m \in msgs : \E k \in 1 .. n : of[k] = m
  BY <1>2 DEF InTime
<1> HIDE DEF t
<1>4. /\ DOMAIN t = 1 .. n /\ i \in 1 .. n
      /\ \A k \in 1 .. n : t[k] = of[k].body /\ of[k] \in msgs
  BY <1>3
<1>5. t \in Seq({of[k].body : k \in 1 .. n}) /\ Len(t) = n
  BY <1>3
<1>6. DOMAIN before = 1 .. (i - 1) /\ \A j \in 1 .. (i - 1) : before[j] = t[j]
  BY <1>3, <1>4, <1>5
<1>7. i - 1 \in Nat /\ \A j \in 1 .. (i - 1) : j \in 1 .. n /\ j < i
  BY <1>3, <1>4
<1>8. Follows(t[i], Earlier(msgs, of[i].at))
  BY <1>1, <1>4 DEF Sincere, Offering
<1>9. \A j \in 1 .. n : of[j] \in Earlier(msgs, of[i].at) <=> j \in 1 .. (i - 1)
  <2>1. SUFFICES ASSUME NEW j \in 1 .. n PROVE of[j].at < of[i].at <=> j \in 1 .. (i - 1)
    BY <1>4 DEF Earlier
  <2>2. j < i <=> of[j].at < of[i].at
    BY <1>2, <1>4, PlacesAreTimes
  <2> QED
    BY <1>3, <1>4, <2>2
<1>10. \A m \in Earlier(msgs, of[i].at) : \E j \in 1 .. (i - 1) : of[j] = m
  BY <1>3, <1>9 DEF Earlier
<1> HIDE DEF before
<1>11. ASSUME t[i].payload.secret \notin {None, t[i].brought}
       PROVE  \E j \in said : j > Boundary(before) /\ t[j].text.secret = t[i].payload.secret
  <2>1. PICK u \in Earlier(msgs, of[i].at) :
           /\ u.body.role = "user" /\ u.body.text.secret = t[i].payload.secret
           /\ \A r \in Earlier(msgs, of[i].at) : r.body.role = "system" => r.at < u.at
    BY <1>8, <1>11 DEF Follows
  <2>2. PICK j \in 1 .. (i - 1) : of[j] = u
    BY <1>10, <2>1
  <2>3. j \in said /\ t[j].text.secret = t[i].payload.secret
    BY <1>4, <1>6, <1>7, <2>1, <2>2
  <2>4. /\ Boundary(before) \in 0 .. (i - 1)
        /\ Boundary(before) # 0 => before[Boundary(before)].role = "system"
    BY <1>6, <1>7, BoundaryIs
  <2>5. ASSUME Boundary(before) # 0 PROVE Boundary(before) < j
    <3> DEFINE b == Boundary(before)
    <3>1. b \in 1 .. (i - 1) /\ before[b].role = "system"
      BY <1>7, <2>4, <2>5
    <3> HIDE DEF b
    <3>2. b \in 1 .. n /\ of[b] \in Earlier(msgs, of[i].at) /\ of[b].body.role = "system"
      BY <1>4, <1>6, <1>7, <1>9, <3>1
    <3>3. of[b].at < of[j].at
      BY <2>1, <2>2, <3>2
    <3>4. b < j
      BY <1>2, <1>7, <3>2, <3>3, PlacesAreTimes
    <3> QED
      BY <3>4 DEF b
  <2>6. Boundary(before) < j
    BY <1>7, <2>4, <2>5
  <2>7. j > Boundary(before)
    BY <1>7, <2>4, <2>6
  <2> QED
    BY <2>3, <2>7
<1>12. ASSUME named # {}
       PROVE  \E j \in named : t[j].text.src = t[i].payload.src /\ \A k \in named : k <= j
  <2>1. \A j : j \in named <=> j \in 1 .. (i - 1) /\ Names(of[j])
    BY <1>4, <1>6, <1>7 DEF Names
  <2> HIDE DEF named, said
  <2>2. \E u \in Earlier(msgs, of[i].at) : Names(u)
    BY <1>7, <1>9, <1>12, <2>1
  <2>3. PICK u \in Earlier(msgs, of[i].at) :
           /\ Names(u) /\ u.body.text.src = t[i].payload.src
           /\ \A v \in Earlier(msgs, of[i].at) : Names(v) => v.at <= u.at
    BY <1>8, <2>2 DEF Follows
  <2>4. PICK j \in 1 .. (i - 1) : of[j] = u
    BY <1>10, <2>3
  <2>5. j \in named /\ t[j].text.src = t[i].payload.src
    BY <1>4, <1>7, <2>1, <2>3, <2>4
  <2>6. ASSUME NEW k \in named PROVE k <= j
    <3>1. k \in 1 .. n /\ j \in 1 .. n /\ of[k].at <= of[j].at
      BY <1>7, <1>9, <2>1, <2>3, <2>4, <2>6
    <3>2. ~ (of[j].at < of[k].at)
      BY <1>3, <3>1
    <3>3. ~ (j < k)
      BY <1>2, <3>1, <3>2, PlacesAreTimes
    <3> QED
      BY <1>3, <3>1, <3>3
  <2> QED
    BY <2>5, <2>6
<1> QED
  BY <1>11, <1>12 DEF before

-----------------------------------------------------------------------------
(* The bounds.  The third invariant: a request in progress is one of the   *)
(* seven kinds, only finitely many are, and what they may still write has  *)
(* its room.                                                               *)

Kinds == {"message", "edit", "rollback", "reject", "delete", "intake", "execute"}

Places == {"idle", "loaded", "turn", "created"}

Busy == {c \in Clients : pc[c] # "idle"}

CInv ==
  /\ \A c \in Clients : IF pc[c] = "idle" THEN op[c] = Idle ELSE op[c].kind \in Kinds
  /\ pc \in [Clients -> Places] /\ IsFiniteSet(Busy)
  /\ clock + Pending <= MaxMessages /\ Len(runs) + Cardinality(Creating) <= MaxRuns
  /\ requests \in 0 .. MaxRequests
  /\ row # Gone => row.status \in Statuses
  /\ overlap \in BOOLEAN /\ died \in BOOLEAN

LEMMA Lengths ==
  ASSUME IInv PROVE Len(runs) \in Nat /\ clock \in Nat
  BY DEF IInv, Data

LEMMA OneLess ==
  ASSUME NEW S, NEW c, IsFiniteSet(S)
  PROVE  /\ Cardinality(S) \in Nat /\ Cardinality(S \ {c}) \in Nat
         /\ Cardinality(S \ {c}) <= Cardinality(S)
         /\ c \in S => Cardinality(S \ {c}) + 1 = Cardinality(S)
<1>1. Cardinality(S) \in Nat
  BY FS_CardinalityType
<1>2. IsFiniteSet(S \ {c}) /\ Cardinality(S \ {c}) = IF c \in S THEN Cardinality(S) - 1 ELSE Cardinality(S)
  BY FS_RemoveElement, Zenon
<1>3. Cardinality(S \ {c}) \in Nat
  BY <1>2, FS_CardinalityType
<1> HIDE DEF Cardinality
<1> QED
  BY <1>1, <1>2, <1>3

\* Those who may still write are in progress.
LEMMA Few ==
  ASSUME CInv
  PROVE  /\ IsFiniteSet(Speaking) /\ IsFiniteSet(Unsaid) /\ IsFiniteSet(Creating)
         /\ Cardinality(Speaking) \in Nat /\ Cardinality(Unsaid) \in Nat /\ Cardinality(Creating) \in Nat
         /\ \A c \in Speaking \cup Unsaid \cup Creating : pc[c] # "idle"
<1>1. \A c \in Clients : pc[c] = "idle" => op[c].kind \notin Kinds
  BY DEF CInv, Idle, None, Kinds
<1>2. Speaking \subseteq Busy /\ Unsaid \subseteq Busy /\ Creating \subseteq Busy
  BY <1>1 DEF Speaking, Unsaid, Creating, Busy, Kinds
<1>3. IsFiniteSet(Speaking) /\ IsFiniteSet(Unsaid) /\ IsFiniteSet(Creating)
  BY <1>2, FS_Subset DEF CInv
<1> QED
  BY <1>2, <1>3, FS_CardinalityType DEF Busy

(* A request begins only if there is room for what it may write.           *)
LEMMA BeginCounts ==
  ASSUME IInv, CInv, NEW c \in Clients, NEW o, Begin(c, o), o.kind \in Kinds,
         o.kind = "execute" => Len(runs) + Cardinality(Creating) < MaxRuns
  PROVE  CInv'
<1>1. /\ pc[c] = "idle"
      /\ clock + Pending + Needs(o) <= MaxMessages /\ requests < MaxRequests
      /\ requests' = requests + 1
      /\ op' = [op EXCEPT ![c] = o] /\ pc' = [pc EXCEPT ![c] = "loaded"]
      /\ row' = row /\ runs' = runs /\ clock' = clock /\ died' = died
      /\ overlap' = (overlap \/ \E d \in Clients \ {c} : pc[d] # "idle")
  BY DEF Begin
<1>2. /\ pc'[c] = "loaded" /\ op'[c] = o
      /\ \A d \in Clients \ {c} : pc'[d] = pc[d] /\ op'[d] = op[d]
  BY <1>1 DEF IInv, Data
<1>3. \A d \in Clients : IF pc'[d] = "idle" THEN op'[d] = Idle ELSE op'[d].kind \in Kinds
  BY <1>2 DEF CInv
<1>4. IsFiniteSet(Busy') /\ pc' \in [Clients -> Places]
  <2>1. Busy' = Busy \cup {c}
    BY <1>2 DEF Busy
  <2>2. pc' \in [Clients -> Places]
    BY <1>1 DEF CInv, Places
  <2> QED
    BY <2>1, <2>2, FS_AddElement DEF CInv
<1>5. c \notin Speaking /\ c \notin Unsaid /\ c \notin Creating
  BY <1>1, Few
<1> DEFINE more(S) == Cardinality(S \cup {c}) = Cardinality(S) + 1
<1>6. more(Speaking) /\ more(Unsaid) /\ more(Creating)
  BY <1>5, Few, FS_AddElement
<1>7. Pending' = Pending + Needs(o)
  <2>1. Speaking' = IF o.kind \in {"message", "edit", "reject"} THEN Speaking \cup {c} ELSE Speaking
    BY <1>2, <1>5 DEF Speaking
  <2>2. Unsaid' = IF o.kind = "message" THEN Unsaid \cup {c} ELSE Unsaid
    BY <1>2, <1>5 DEF Unsaid, Speaking
  <2> DEFINE sp == Cardinality(Speaking)
             un == Cardinality(Unsaid)
  <2>3. sp \in Nat /\ un \in Nat
    BY Few
  <2>4. Cardinality(Speaking') = IF o.kind \in {"message", "edit", "reject"} THEN sp + 1 ELSE sp
    BY <1>6, <2>1
  <2>5. Cardinality(Unsaid') = IF o.kind = "message" THEN un + 1 ELSE un
    BY <1>6, <2>2
  <2>6. Pending = sp + un /\ Pending' = Cardinality(Speaking') + Cardinality(Unsaid')
    BY DEF Pending
  <2> HIDE DEF sp, un
  <2> QED
    BY <2>3, <2>4, <2>5, <2>6 DEF Needs
<1>8. Len(runs') + Cardinality(Creating') <= MaxRuns
  <2>1. Creating' = IF o.kind = "execute" THEN Creating \cup {c} ELSE Creating
    BY <1>2, <1>5 DEF Creating
  <2>2. CASE o.kind = "execute"
    <3>1. Cardinality(Creating') = Cardinality(Creating) + 1
      BY <1>6, <2>1, <2>2
    <3>2. Len(runs) \in Nat /\ Cardinality(Creating) \in Nat /\ MaxRuns \in Nat
      BY Few, Lengths, BoundsAssumption
    <3> QED
      BY <1>1, <2>2, <3>1, <3>2
  <2>3. CASE o.kind # "execute"
    BY <1>1, <2>1, <2>3 DEF CInv
  <2> QED
    BY <2>2, <2>3
<1>9. clock' + Pending' <= MaxMessages
  <2>1. clock \in Nat /\ Pending \in Nat /\ Needs(o) \in Nat
    BY Few, Lengths DEF Pending, Needs
  <2>2. clock + (Pending + Needs(o)) <= MaxMessages
    BY <1>1, <2>1
  <2> QED
    BY <1>1, <1>7, <2>2
<1>10. requests' \in 0 .. MaxRequests /\ (overlap' \in BOOLEAN) /\ (died' \in BOOLEAN)
  BY <1>1, BoundsAssumption DEF CInv
<1>11. row' # Gone' => row'.status \in Statuses
  BY <1>1 DEF CInv, Gone
<1> QED
  BY <1>3, <1>4, <1>8, <1>9, <1>10, <1>11 DEF CInv, Places, Statuses, Gone, Idle, Kinds, None

(* A request that ends writes no more.                                     *)
LEMMA EndCounts ==
  ASSUME IInv, CInv, NEW c \in Clients, pc[c] # "idle", End(c)
  PROVE  /\ \A d \in Clients : IF pc'[d] = "idle" THEN op'[d] = Idle ELSE op'[d].kind \in Kinds
         /\ pc' \in [Clients -> Places] /\ IsFiniteSet(Busy')
         /\ Pending \in Nat /\ Pending' \in Nat
         /\ Pending' <= Pending /\ (c \in Speaking => Pending' + 1 <= Pending)
         /\ Cardinality(Creating) \in Nat /\ Cardinality(Creating') \in Nat
         /\ Cardinality(Creating') <= Cardinality(Creating)
<1>1. pc' = [pc EXCEPT ![c] = "idle"] /\ op' = [op EXCEPT ![c] = Idle]
  BY DEF End
<1>2. /\ pc'[c] = "idle" /\ op'[c] = Idle /\ op'[c].kind = None
      /\ \A d \in Clients \ {c} : pc'[d] = pc[d] /\ op'[d] = op[d]
  BY <1>1 DEF IInv, Data, Idle
<1>3. \A d \in Clients : IF pc'[d] = "idle" THEN op'[d] = Idle ELSE op'[d].kind \in Kinds
  BY <1>2 DEF CInv
<1>4. Busy' = Busy \ {c}
  BY <1>2 DEF Busy
<1>5. IsFiniteSet(Busy') /\ pc' \in [Clients -> Places]
  <2>1. pc' \in [Clients -> Places]
    BY <1>1 DEF CInv, Places
  <2> QED
    BY <1>4, <2>1, FS_Subset DEF CInv
<1>6. Speaking' = Speaking \ {c} /\ Unsaid' = Unsaid \ {c} /\ Creating' = Creating \ {c}
  BY <1>2 DEF Speaking, Unsaid, Creating, None
<1> DEFINE sp == Cardinality(Speaking)
           un == Cardinality(Unsaid)
<1>7. /\ Cardinality(Speaking') \in Nat /\ Cardinality(Unsaid') \in Nat /\ sp \in Nat /\ un \in Nat
      /\ Cardinality(Speaking') <= sp /\ Cardinality(Unsaid') <= un
      /\ c \in Speaking => Cardinality(Speaking') + 1 = sp
      /\ Cardinality(Creating) \in Nat /\ Cardinality(Creating') \in Nat
      /\ Cardinality(Creating') <= Cardinality(Creating)
  BY <1>6, Few, OneLess
<1>8. Pending = sp + un /\ Pending' = Cardinality(Speaking') + Cardinality(Unsaid')
  BY DEF Pending
<1> HIDE DEF sp, un
<1>9. Pending \in Nat /\ Pending' \in Nat /\ Pending' <= Pending /\ (c \in Speaking => Pending' + 1 <= Pending)
  BY <1>7, <1>8
<1> QED
  BY <1>3, <1>5, <1>7, <1>9

LEMMA StillFits ==
  ASSUME NEW a \in Nat, NEW p \in Nat, NEW q \in Nat, NEW m \in Nat, a + q <= m
  PROVE  (p <= q => a + p <= m) /\ (p + 1 <= q => (a + 1) + p <= m)
  OBVIOUS

(* The end of a request that writes a message or none, and no run.         *)
LEMMA EndKeepsCount ==
  ASSUME IInv, CInv, NEW c \in Clients, pc[c] # "idle", End(c),
         clock' = clock \/ (clock' = clock + 1 /\ op[c].kind \in {"message", "edit", "reject"}),
         runs' = runs, requests' = requests, overlap' = overlap, died' \in BOOLEAN,
         row' # Gone => row'.status \in Statuses
  PROVE  CInv'
<1>1. /\ \A d \in Clients : IF pc'[d] = "idle" THEN op'[d] = Idle ELSE op'[d].kind \in Kinds
      /\ pc' \in [Clients -> Places] /\ IsFiniteSet(Busy')
      /\ Pending \in Nat /\ Pending' \in Nat
      /\ Pending' <= Pending /\ (c \in Speaking => Pending' + 1 <= Pending)
      /\ Cardinality(Creating) \in Nat /\ Cardinality(Creating') \in Nat
      /\ Cardinality(Creating') <= Cardinality(Creating)
  BY EndCounts
<1>2. clock \in Nat /\ Len(runs) \in Nat /\ MaxMessages \in Nat /\ MaxRuns \in Nat
  BY Lengths, BoundsAssumption
<1>3. clock + Pending <= MaxMessages /\ Len(runs) + Cardinality(Creating) <= MaxRuns
  BY DEF CInv
<1>4. clock' + Pending' <= MaxMessages
  <2>1. CASE clock' = clock
    <3>1. clock + Pending' <= MaxMessages
      BY <1>1, <1>2, <1>3, StillFits
    <3> QED
      BY <2>1, <3>1
  <2>2. CASE clock' = clock + 1 /\ op[c].kind \in {"message", "edit", "reject"}
    <3>1. c \in Speaking
      BY <2>2 DEF Speaking
    <3>2. Pending' + 1 <= Pending /\ Pending \in Nat /\ Pending' \in Nat
      BY <1>1, <3>1
    <3>3. (clock + 1) + Pending' <= MaxMessages
      BY <1>2, <1>3, <3>2, StillFits
    <3> QED
      BY <2>2, <3>3
  <2> QED
    BY <2>1, <2>2
<1>5. Len(runs') + Cardinality(Creating') <= MaxRuns
  <2>1. Len(runs) + Cardinality(Creating') <= MaxRuns
    BY <1>1, <1>2, <1>3
  <2> QED
    BY <2>1
<1>6. requests' \in 0 .. MaxRequests /\ (overlap' \in BOOLEAN) /\ (died' \in BOOLEAN)
  BY DEF CInv
<1> QED
  BY <1>1, <1>4, <1>5, <1>6 DEF CInv, Places, Statuses, Gone, Idle, Kinds, None

LEMMA StatusWritten ==
  ASSUME NEW r, NEW old, NEW new, "status" \in DOMAIN r, r.status \in Statuses,
         "status" \in DOMAIN new => new.status \in Statuses
  PROVE  "status" \in DOMAIN Written(r, old, new) /\ Written(r, old, new).status \in Statuses
  BY DEF Written

LEMMA RowHasStatus ==
  ASSUME IInv, CInv, row # Gone
  PROVE  "status" \in DOMAIN row /\ row.status \in Statuses
  BY DEF IInv, Data, RowOk, LiveRow, Columns, CInv

(* A turn that begins makes the one message or locks the row.              *)
LEMMA TurningCounts ==
  ASSUME IInv, CInv, NEW c \in Clients, StartTurn(c) \/ StartEdit(c)
  PROVE  CInv'
<1>1. PICK at, gone : Turning(c, at, gone)
  BY DEF StartTurn, StartEdit
<1>2. /\ pc' = [pc EXCEPT ![c] = "turn"]
      /\ op' = [op EXCEPT ![c] = [kind |-> op[c].kind, at |-> at, text |-> op[c].text, gone |-> gone]]
      /\ row' = row /\ runs' = runs /\ requests' = requests /\ overlap' = overlap /\ died' = died
  BY <1>1 DEF Turning
<1>3. /\ pc'[c] = "turn" /\ op'[c].kind = op[c].kind
      /\ \A d \in Clients \ {c} : pc'[d] = pc[d] /\ op'[d] = op[d]
  BY <1>2 DEF IInv, Data
<1>4. pc[c] = "loaded" /\ op[c].kind \in {"message", "edit"}
  BY DEF StartTurn, StartEdit
<1>5. /\ \A d \in Clients : IF pc'[d] = "idle" THEN op'[d] = Idle ELSE op'[d].kind \in Kinds
      /\ Busy' = Busy
  BY <1>3, <1>4 DEF CInv, Busy, Kinds
<1>6. Speaking' = Speaking /\ Unsaid' = Unsaid \ {c} /\ Creating' = Creating
  BY <1>3, <1>4 DEF Speaking, Unsaid, Creating
<1> DEFINE sp == Cardinality(Speaking)
           un == Cardinality(Unsaid)
<1>7. /\ sp \in Nat /\ un \in Nat /\ Cardinality(Unsaid') \in Nat /\ Cardinality(Unsaid') <= un
      /\ c \in Unsaid => Cardinality(Unsaid') + 1 = un
  BY <1>6, Few, OneLess
<1>8. clock + (sp + un) <= MaxMessages
  BY DEF CInv, Pending
<1>9. Cardinality(Speaking') = sp /\ Pending' = Cardinality(Speaking') + Cardinality(Unsaid')
  BY <1>6 DEF Pending
<1>10. clock \in Nat /\ MaxMessages \in Nat
  BY Lengths, BoundsAssumption
<1> HIDE DEF sp, un
<1>11. clock' + Pending' <= MaxMessages
  <2>1. CASE StartTurn(c)
    <3>1. clock' = clock + 1 /\ c \in Unsaid
      BY <2>1 DEF StartTurn, Unsaid, Speaking
    <3> QED
      BY <1>7, <1>8, <1>9, <1>10, <3>1
  <2>2. CASE StartEdit(c)
    <3>1. clock' = clock
      BY <2>2 DEF StartEdit
    <3> QED
      BY <1>7, <1>8, <1>9, <1>10, <3>1
  <2> QED
    BY <2>1, <2>2
<1>12. pc' \in [Clients -> Places]
  BY <1>2 DEF CInv, Places
<1> QED
  BY <1>2, <1>5, <1>6, <1>11, <1>12 DEF CInv, Places, Statuses, Gone, Idle, Kinds, None

(* The run that was announced is made.                                     *)
LEMMA CreateCounts ==
  ASSUME IInv, CInv, NEW c \in Clients, CreateRun(c)
  PROVE  CInv'
<1>1. /\ pc[c] = "loaded" /\ op[c].kind = "execute"
      /\ runs' = Append(runs, copy[c].payload)
      /\ pc' = [pc EXCEPT ![c] = "created"]
      /\ op' = [op EXCEPT ![c] = [kind |-> "execute", run |-> Len(runs) + 1]]
      /\ row' = row /\ clock' = clock /\ requests' = requests /\ overlap' = overlap /\ died' = died
  BY DEF CreateRun
<1>2. /\ pc'[c] = "created" /\ op'[c].kind = "execute"
      /\ \A d \in Clients \ {c} : pc'[d] = pc[d] /\ op'[d] = op[d]
  BY <1>1 DEF IInv, Data
<1>3. /\ \A d \in Clients : IF pc'[d] = "idle" THEN op'[d] = Idle ELSE op'[d].kind \in Kinds
      /\ Busy' = Busy
  BY <1>1, <1>2 DEF CInv, Busy, Kinds
<1>4. Speaking' = Speaking /\ Unsaid' = Unsaid /\ Creating' = Creating \ {c} /\ c \in Creating
  BY <1>1, <1>2 DEF Speaking, Unsaid, Creating
<1>5. Pending' = Pending
  BY <1>4 DEF Pending
<1>6. Cardinality(Creating') + 1 = Cardinality(Creating) /\ Cardinality(Creating') \in Nat
  BY <1>4, Few, OneLess
<1>7. Len(runs') = Len(runs) + 1 /\ Len(runs) \in Nat
  <2>1. PICK S : runs \in Seq(S)
    BY DEF IInv, Data
  <2> QED
    BY <1>1, <2>1
<1>8. Len(runs) + Cardinality(Creating) <= MaxRuns /\ MaxRuns \in Nat
  BY BoundsAssumption DEF CInv
<1>9. Len(runs') + Cardinality(Creating') <= MaxRuns
  BY <1>6, <1>7, <1>8
<1>10. pc' \in [Clients -> Places]
  BY <1>1 DEF CInv, Places
<1> QED
  BY <1>1, <1>3, <1>5, <1>9, <1>10 DEF CInv, Places, Statuses, Gone, Idle, Kinds, None

LEMMA EndingCounts ==
  ASSUME IInv, CInv, NEW c \in Clients,
         \/ AppendTurn(c) \/ Rollback(c) \/ Reject(c) \/ DeleteSession(c) \/ Intake(c)
         \/ MarkExecuted(c) \/ Refused(c) \/ UpdateFails(c) \/ Die(c)
  PROVE  CInv'
<1>1. CASE AppendTurn(c)
  <2>1. PICK llm \in Models \cup {Silent} :
          LET turn == Turn(llm, Shown(c)) IN row' = Written(Cleared(c), Base(c), Offer(turn))
    BY <1>1 DEF AppendTurn
  <2>2. /\ pc[c] = "turn" /\ row # Gone /\ End(c) /\ clock' = clock + 1
        /\ runs' = runs /\ requests' = requests /\ overlap' = overlap /\ died' = died
    BY <1>1 DEF AppendTurn
  <2>3. op[c].kind \in {"message", "edit"}
    BY <2>2 DEF IInv, Data, ClientOk
  <2>4. "status" \in DOMAIN row /\ row.status \in Statuses
    BY <2>2, RowHasStatus
  <2>5. Collecting.status \in Statuses /\ \A m : Offer(m).status \in Statuses
    BY DEF Collecting, Offer, Statuses
  <2>6. "status" \in DOMAIN Cleared(c) /\ Cleared(c).status \in Statuses
    BY <2>4, <2>5, StatusWritten DEF Cleared
  <2>7. row'.status \in Statuses
    BY <2>1, <2>5, <2>6, StatusWritten
  <2>8. died' \in BOOLEAN
    BY <2>2 DEF CInv
  <2> QED
    BY <2>2, <2>3, <2>7, <2>8, EndKeepsCount
<1>2. CASE Rollback(c)
  <2>1. /\ pc[c] = "loaded" /\ row # Gone /\ End(c)
        /\ row' = Written(row, copy[c], Restored({m \in seen[c] : m.at < op[c].at}))
        /\ clock' = clock /\ runs' = runs /\ requests' = requests /\ overlap' = overlap /\ died' = died
    BY <1>2 DEF Rollback
  <2>2. \A ms : Restored(ms).status \in Statuses
    BY DEF Restored, Collecting, Offer, Statuses
  <2>3. row'.status \in Statuses
    BY <2>1, <2>2, RowHasStatus, StatusWritten
  <2>4. died' \in BOOLEAN
    BY <2>1 DEF CInv
  <2> QED
    BY <2>1, <2>3, <2>4, EndKeepsCount
<1>3. CASE Reject(c)
  <2>1. /\ pc[c] = "loaded" /\ op[c].kind = "reject" /\ row # Gone /\ End(c)
        /\ row' = Written(row, copy[c], Collecting)
        /\ clock' = clock + 1 /\ runs' = runs /\ requests' = requests
        /\ overlap' = overlap /\ died' = died
    BY <1>3 DEF Reject
  <2>2. Collecting.status \in Statuses
    BY DEF Collecting, Statuses
  <2>3. row'.status \in Statuses
    BY <2>1, <2>2, RowHasStatus, StatusWritten
  <2>4. died' \in BOOLEAN
    BY <2>1 DEF CInv
  <2> QED
    BY <2>1, <2>3, <2>4, EndKeepsCount
<1>4. CASE DeleteSession(c)
  <2>1. /\ pc[c] = "loaded" /\ End(c) /\ row' = Gone
        /\ clock' = clock /\ runs' = runs /\ requests' = requests /\ overlap' = overlap /\ died' = died
    BY <1>4 DEF DeleteSession
  <2>2. (died' \in BOOLEAN) /\ (row' # Gone => row'.status \in Statuses)
    BY <2>1 DEF CInv
  <2> QED
    BY <2>1, <2>2, EndKeepsCount
<1>5. CASE Intake(c)
  <2>1. /\ pc[c] = "loaded" /\ row # Gone /\ End(c)
        /\ \E f : row' = Written(row, copy[c], FromForm(f))
        /\ clock' = clock /\ runs' = runs /\ requests' = requests /\ overlap' = overlap /\ died' = died
    BY <1>5 DEF Intake
  <2>2. \A f : FromForm(f).status \in Statuses
    BY FormIsSetting DEF Setting, Statuses
  <2>3. row'.status \in Statuses
    BY <2>1, <2>2, RowHasStatus, StatusWritten
  <2>4. died' \in BOOLEAN
    BY <2>1 DEF CInv
  <2> QED
    BY <2>1, <2>3, <2>4, EndKeepsCount
<1>6. CASE MarkExecuted(c)
  <2>1. /\ pc[c] = "created" /\ row # Gone /\ End(c)
        /\ row' = Written(row, copy[c], ExecutedWith(op[c].run))
        /\ clock' = clock /\ runs' = runs /\ requests' = requests /\ overlap' = overlap /\ died' = died
    BY <1>6 DEF MarkExecuted
  <2>2. \A n : ExecutedWith(n).status \in Statuses
    BY DEF ExecutedWith, Statuses
  <2>3. row'.status \in Statuses
    BY <2>1, <2>2, RowHasStatus, StatusWritten
  <2>4. died' \in BOOLEAN
    BY <2>1 DEF CInv
  <2> QED
    BY <2>1, <2>3, <2>4, EndKeepsCount
<1>7. CASE Refused(c) \/ UpdateFails(c) \/ Die(c)
  <2>1. /\ pc[c] # "idle" /\ End(c) /\ row' = row
        /\ clock' = clock /\ runs' = runs /\ requests' = requests /\ overlap' = overlap
    BY <1>7 DEF Refused, UpdateFails, Die
  <2>2. died' = died \/ died' = (died \/ pc[c] = "created")
    BY <1>7 DEF Refused, UpdateFails, Die
  <2>3. died' \in BOOLEAN
    BY <2>2 DEF CInv
  <2>4. row' # Gone => row'.status \in Statuses
    BY <2>1 DEF CInv
  <2> QED
    BY <2>1, <2>3, <2>4, EndKeepsCount
<1> QED
  BY <1>1, <1>2, <1>3, <1>4, <1>5, <1>6, <1>7

LEMMA StepCounts ==
  ASSUME IInv, CInv, [Next]_vars
  PROVE  CInv'
<1>1. CASE UNCHANGED vars
  BY <1>1 DEF vars, CInv, Places, Busy, Pending, Speaking, Unsaid, Creating, Gone, Idle, Kinds, Statuses, None
<1>2. ASSUME NEW c \in Clients, Request(c) PROVE CInv'
  <2>1. PICK o : /\ Begin(c, o) /\ o.kind \in Kinds
                 /\ o.kind = "execute" => Len(runs) + Cardinality(Creating) < MaxRuns
    <3>1. CASE Say(c)
      <4>1. PICK t \in Texts : Begin(c, [kind |-> "message", text |-> t])
        BY <3>1 DEF Say
      <4> QED
        BY <4>1 DEF Kinds
    <3>2. CASE Edit(c)
      <4>1. PICK m \in msgs, t \in Texts : Begin(c, [kind |-> "edit", at |-> m.at, text |-> t])
        BY <3>2 DEF Edit
      <4> QED
        BY <4>1 DEF Kinds
    <3>3. CASE LoadRollback(c)
      <4>1. PICK m \in msgs : Begin(c, [kind |-> "rollback", at |-> m.at])
        BY <3>3 DEF LoadRollback
      <4> QED
        BY <4>1 DEF Kinds
    <3>4. CASE LoadReject(c) \/ LoadDelete(c)
      BY <3>4 DEF LoadReject, LoadDelete, Kinds
    <3>5. CASE IntakeChat(c)
      <4>1. PICK a \in Intakes : Begin(c, [kind |-> "message", text |-> Joined(Given(a))])
        BY <3>5 DEF IntakeChat
      <4> QED
        BY <4>1 DEF Kinds
    <3>6. CASE LoadIntake(c)
      <4>1. PICK a \in Intakes : Begin(c, [kind |-> "intake", answer |-> a])
        BY <3>6 DEF LoadIntake
      <4> QED
        BY <4>1 DEF Kinds
    <3>7. CASE LoadExecute(c)
      BY <3>7 DEF LoadExecute, Kinds
    <3> QED
      BY <1>2, <3>1, <3>2, <3>3, <3>4, <3>5, <3>6, <3>7 DEF Request
  <2> QED
    BY <2>1, BeginCounts
<1>3. ASSUME NEW c \in Clients, Serve(c) \/ Die(c) PROVE CInv'
  BY <1>3, TurningCounts, CreateCounts, EndingCounts DEF Serve
<1> QED
  BY <1>1, <1>2, <1>3 DEF Next

LEMMA Counting == Spec => []CInv
<1>1. Init => CInv
  <2> SUFFICES ASSUME Init PROVE CInv
    OBVIOUS
  <2>1. Busy = {} /\ Speaking = {} /\ Unsaid = {} /\ Creating = {}
    BY DEF Init, Busy, Speaking, Unsaid, Creating, Idle, None
  <2>2. Cardinality({}) = 0 /\ IsFiniteSet({})
    BY FS_EmptySet
  <2>3. Pending = 0 /\ Cardinality(Creating) = 0 /\ IsFiniteSet(Busy)
    BY <2>1, <2>2 DEF Pending
  <2>4. clock = 0 /\ Len(runs) = 0 /\ requests = 0
    BY DEF Init
  <2>5. {MaxMessages, MaxRuns, MaxRequests} \subseteq Nat
    BY BoundsAssumption
  <2>6. clock + Pending <= MaxMessages /\ Len(runs) + Cardinality(Creating) <= MaxRuns
        /\ requests \in 0 .. MaxRequests
    BY <2>3, <2>4, <2>5
  <2>7. pc \in [Clients -> Places] /\ \A c \in Clients : pc[c] = "idle" /\ op[c] = Idle
    BY DEF Init, Places
  <2>8. row.status \in Statuses /\ (overlap \in BOOLEAN) /\ (died \in BOOLEAN)
    BY DEF Init, Fresh, Statuses
  <2> QED
    BY <2>3, <2>6, <2>7, <2>8 DEF CInv
<1>2. IInv /\ CInv /\ [Next]_vars => CInv'
  BY StepCounts
<1> QED
  BY <1>1, <1>2, Invariance, PTL DEF Spec

-----------------------------------------------------------------------------
(* The properties.                                                         *)

\* The row of a session that was served one request at a time is what its last message says,
\* a deleted session leaves nothing, and a lock is held by an edit in progress, in every order
\* of the requests and whatever failed (_restore_session_state_from_messages, edit_user_message).
THEOREM RowAndLockAgree == Spec => []RowAgrees
<1>1. IInv => RowAgrees
  <2> SUFFICES ASSUME IInv PROVE RowAgrees
    OBVIOUS
  <2>1. LastMessageDecides
    <3>1. SUFFICES ASSUME InOrder, forms = << >>, row.status \notin {"executed", "gone"}
                   PROVE  [k \in DOMAIN Collecting |-> row[k]] = Restored(msgs)
      BY DEF LastMessageDecides
    <3>2. row # Gone
      BY <3>1 DEF Gone
    <3>3. Holds(row, Restored(msgs))
      BY <3>1, <3>2 DEF IInv, Order, Settled
    <3>4. DOMAIN Collecting = Columns
      BY DEF Collecting, Columns
    <3>5. Restored(msgs) = [k \in Columns |-> Restored(msgs)[k]]
      <4>1. Collecting = [k \in Columns |-> Collecting[k]]
        BY DEF Collecting, Columns
      <4>2. \A m : Offer(m) = [k \in Columns |-> Offer(m)[k]]
        BY DEF Offer, Columns
      <4> QED
        BY <4>1, <4>2 DEF Restored
    <3> QED
      BY <3>3, <3>4, <3>5 DEF Holds
  <2>2. NothingLeftBehind
    BY DEF NothingLeftBehind, IInv, Order, Settled
  <2>3. LockIsHeld
    BY DEF LockIsHeld, IInv, LockInv
  <2> QED
    BY <2>1, <2>2, <2>3 DEF RowAgrees
<1> QED
  BY <1>1, Invariance, PTL

\* A session leads to one run unless requests overlapped or one died, the session names a run that
\* was made from it in every interleaving, no run is made with a question open, and a required
\* step put off keeps the questionnaire's plan from being run (_create_run_from_plan_session,
\* _missing_questions, _structured_plan_ready_for_generation).
THEOREM RunsWanted == Spec => []RunsAreWanted
<1>1. IInv => RunsAreWanted
  <2> SUFFICES ASSUME IInv PROVE RunsAreWanted
    OBVIOUS
  <2>1. OneRun
    BY DEF OneRun, IInv, Order, RunOnce
  <2>2. \E S : runs \in Seq(S)
    BY DEF IInv, Data
  <2>3. ExecutedHasRun
    <3>1. SUFFICES ASSUME row.status = "executed" PROVE row.run \in DOMAIN runs
      BY DEF ExecutedHasRun
    <3>2. LiveRow(row, Len(runs))
      BY <3>1 DEF IInv, Data, RowOk, Gone
    <3> QED
      BY <2>2, <3>1, <3>2 DEF LiveRow
  <2>4. RunsAreAnswered
    BY <2>2 DEF RunsAreAnswered, IInv, Data, Answered
  <2>5. DeferredBlocks
    <3>1. SUFFICES ASSUME InOrder, msgs = {}, row # Gone, row.payload # NoPlan
                   PROVE  \E i \in DOMAIN forms : \A s \in Required : forms[i][s].status = "confirmed"
      BY DEF DeferredBlocks
    <3> QED
      BY <3>1 DEF IInv, Order, Settled
  <2> QED
    BY <2>1, <2>3, <2>4, <2>5 DEF RunsAreWanted
<1> QED
  BY <1>1, Invariance, PTL

\* Every plan offered is for the target the user named last and with a token given after the last
\* rejection, and every question asked can be answered (normalize_planner_run_payload,
\* _dedupe_question_options).
THEOREM TurnsServe == Spec => []TurnsServeTheUser
<1>1. TInv => TurnsServeTheUser
  <2> SUFFICES ASSUME TInv PROVE TurnsServeTheUser
    OBVIOUS
  <2>1. PlansFollowTheUser
    BY PlansAreFollowing
  <2>2. OptionsUsable
    BY DEF OptionsUsable, TInv, WellSaid, CanAnswer
  <2> QED
    BY <2>1, <2>2 DEF TurnsServeTheUser
<1> QED
  BY <1>1, Conversing, PTL

\* The row, the messages, the runs and the requests in progress are what the code writes, and stay
\* within the bounds, whatever the requests and their order (PlanningSession, PlanningMessage).
THEOREM TypeCorrect == Spec => []TypeOK
<1>1. IInv /\ TInv /\ CInv => TypeOK
  <2> SUFFICES ASSUME IInv, TInv, CInv PROVE TypeOK
    OBVIOUS
  <2>1. /\ clock \in Nat /\ Len(runs) \in Nat /\ MaxMessages \in Nat /\ MaxRuns \in Nat
        /\ Pending \in Nat /\ Cardinality(Creating) \in Nat
    BY Few, Lengths, BoundsAssumption DEF Pending
  <2>2. clock \in 0 .. MaxMessages /\ Len(runs) <= MaxRuns
    BY <2>1 DEF CInv
  <2>3. row = Gone \/ (row.status \in Statuses /\ row.run \in 0 .. MaxRuns)
    <3>1. row # Gone => row.run \in 0 .. Len(runs)
      BY DEF IInv, Data, RowOk, LiveRow
    <3> QED
      BY <2>1, <2>2, <3>1 DEF CInv
  <2>4. \A m \in msgs : m.at \in 1 .. MaxMessages /\ m.body.role \in {"user", "assistant", "system"}
    <3>1. \A m \in msgs : m.at \in 1 .. clock
      BY DEF IInv, Data, MessageOk
    <3> QED
      BY <2>1, <2>2, <3>1 DEF TInv, WellSaid
  <2>5. lock \in Clients \cup {None}
    BY DEF IInv, LockInv
  <2>6. pc \in [Clients -> {"idle", "loaded", "turn", "created"}]
    BY DEF CInv, Places
  <2>7. \A c \in Clients : (pc[c] = "idle") <=> (op[c] = Idle)
    BY DEF CInv, Idle, Kinds, None
  <2> QED
    BY <2>2, <2>3, <2>4, <2>5, <2>6, <2>7 DEF TypeOK, CInv
<1> QED
  BY <1>1, Invariance, Conversing, Counting, PTL

=============================================================================
