-------------------------- MODULE Approval_proofs --------------------------
(* Proofs about Approval, for every set of requests, clients, operations,  *)
(* execution policies, and for both places the loop can run in.            *)
EXTENDS Approval, TLAPS

(* PersistProgress keeps the lists typed and invents no answer.            *)
LEMMA ProgressKeeps ==
  ASSUME TypeOK, GroundInv, PersistProgress, UNCHANGED accepted
  PROVE  /\ rowStatus' \in {"RUNNING", "CANCELLED", "deleted"} /\ rec' \in Records
         /\ copyStatus' \in {"RUNNING", "CANCELLED", "gone"} /\ copyRec' \in Records
         /\ Grounded(rec)' /\ Grounded(copyRec)'
  BY DEF PersistProgress, Written, TypeOK, GroundInv, Grounded, Given, row, copy

(* Loading the row does not either.                                        *)
LEMMA LoadKeeps ==
  ASSUME TypeOK, GroundInv, LoadTask, UNCHANGED accepted
  PROVE  /\ copyStatus' \in {"RUNNING", "CANCELLED", "gone"} /\ copyRec' \in Records
         /\ Grounded(copyRec)'
  BY DEF LoadTask, TypeOK, GroundInv, Grounded, Given

(* The variables of the clients stay typed when a request begins or ends.  *)
ClientType ==
  /\ cpc \in [Clients -> {"idle", "answer", "cancel", "delete", "done"}]
  /\ csnap \in [Clients -> Records]
  /\ cask \in [Clients -> (Requests \cup {"none"}) \X (Votes \cup {"none"})]

(* What a client asks for is a request and a vote, or nothing.             *)
LEMMA AskType ==
  ASSUME TypeOK, NEW c \in Clients
  PROVE  cask[c] \in (Requests \cup {"none"}) \X (Votes \cup {"none"})
<1> DEFINE Asks == (Requests \cup {"none"}) \X (Votes \cup {"none"})
<1>1. cask \in [Clients -> Asks]
  BY DEF TypeOK
<1> HIDE DEF Asks
<1>2. cask[c] \in Asks
  BY <1>1
<1> QED
  BY <1>2 DEF Asks

(* A client that ends forgets its copy, and stays typed.                   *)
LEMMA DoneType ==
  ASSUME TypeOK, NEW c \in Clients, ClientDone(c)
  PROVE  ClientType'
<1> DEFINE Asks == (Requests \cup {"none"}) \X (Votes \cup {"none"})
<1>1. Blank \in Records /\ <<"none", "none">> \in Asks
  BY DEF Blank, Records
<1>2. cask \in [Clients -> Asks]
  BY DEF TypeOK
<1> HIDE DEF Asks
<1>3. cask' \in [Clients -> Asks]
  BY <1>1, <1>2 DEF ClientDone
<1> QED
  BY <1>1, <1>3 DEF ClientType, ClientDone, TypeOK, Asks

(* A client that loads a row takes a copy of the list, and stays typed.    *)
LEMMA BeginType ==
  ASSUME TypeOK, NEW c \in Clients, NEW act \in {"answer", "cancel", "delete"},
         NEW ask \in (Requests \cup {"none"}) \X (Votes \cup {"none"}),
         Begin(c, act, ask)
  PROVE  ClientType'
<1> DEFINE Asks == (Requests \cup {"none"}) \X (Votes \cup {"none"})
<1>1. ask \in Asks /\ cask \in [Clients -> Asks]
  BY DEF TypeOK
<1> HIDE DEF Asks
<1>2. cask' \in [Clients -> Asks]
  BY <1>1 DEF Begin
<1> QED
  BY <1>2 DEF ClientType, Begin, TypeOK, Asks

(* So does every first step of a request.                                  *)
LEMMA LoadType ==
  ASSUME TypeOK, NEW c \in Clients, ClientLoad(c)
  PROVE  ClientType' /\ UNCHANGED <<row, mode, loop, future, past>>
<1>1. \/ ClientDone(c)
      \/ \E r \in Requests, v \in Votes : Begin(c, "answer", <<r, v>>)
      \/ Begin(c, "cancel", cask[c]) \/ Begin(c, "delete", cask[c])
  BY DEF ClientLoad
<1>2. cask[c] \in (Requests \cup {"none"}) \X (Votes \cup {"none"})
  BY AskType
<1>3. ASSUME NEW r \in Requests, NEW v \in Votes
      PROVE  <<r, v>> \in (Requests \cup {"none"}) \X (Votes \cup {"none"})
  OBVIOUS
<1>4. ClientType'
  BY <1>1, <1>2, <1>3, DoneType, BeginType
<1> QED
  BY <1>4 DEF ClientLoad

(* What an accepted answer to r changes, in the terms of the answer.       *)
AnswerCommit(c, r, v) ==
  /\ rec' = [csnap[c] EXCEPT ![r] = Recorded(v)]
  /\ accepted' = accepted \cup {<<c, r, v>>} /\ Overwrites(c)
  /\ future' \in {future, [future EXCEPT ![r] = v]}

(* A request that answers was asked for a call and a vote.                 *)
LEMMA AskedPair ==
  ASSUME AskInv, NEW c \in Clients, AnswerRequest(c)
  PROVE  \E r \in Requests, v \in Votes : cask[c] = <<r, v>>
<1>1. cpc[c] = "answer"
  BY DEF AnswerRequest
<1>2. cask[c] \in Requests \X Votes
  BY <1>1 DEF AskInv
<1> QED
  BY <1>2

(* An answer is committed, or the run was deleted and nothing changes.     *)
LEMMA AnswerCases ==
  ASSUME NEW c \in Clients, NEW r \in Requests, NEW v \in Votes, cask[c] = <<r, v>>,
         AnswerRequest(c)
  PROVE  UNCHANGED <<rec, past, future>> \/ AnswerCommit(c, r, v)
  BY DEF AnswerRequest, AnswerCommit, past

(* The types are inductive, given what the loop waits for.                 *)
LEMMA TypeInductive == IInv /\ [Next]_vars => TypeOK'
<1> SUFFICES ASSUME IInv, [Next]_vars PROVE TypeOK'
  OBVIOUS
<1> USE DEF IInv, TypeOK, Records, Answers, Votes, PCs, row, mode, copy, call, loop,
            past, client
<1>1. CASE UnguardedCall
  BY <1>1, ProgressKeeps DEF UnguardedCall
<1>2. CASE PersistRequest
  BY <1>2 DEF PersistRequest, LoadTask
<1>3. CASE PersistRecords
  BY <1>3 DEF PersistRecords
<1>4. CASE PollFuture
  BY <1>4 DEF PollFuture
<1>5. CASE PollRecord
  BY <1>5 DEF PollRecord, LoadTask, StateFollows, Overdue
<1>6. CASE MarkTimeout
  BY <1>6 DEF MarkTimeout, LoadTask
<1>7. CASE NoTask
  BY <1>7 DEF NoTask, Overdue
<1>8. CASE RefreshRaises
  BY <1>8 DEF RefreshRaises
<1>9. CASE Act
  BY <1>9 DEF Act, Runs
<1>10. CASE ReportCall
  BY <1>10, ProgressKeeps DEF ReportCall
<1>11. CASE EndLoop
  BY <1>11 DEF EndLoop
<1>12. CASE NodeUpdate
  BY <1>12, ProgressKeeps DEF NodeUpdate
<1>13. CASE FinalPersist
  BY <1>13 DEF FinalPersist
<1>14. CASE PersistFailure
  BY <1>14 DEF PersistFailure
<1>15. CASE Raise
  BY <1>15 DEF Raise
<1>16. CASE Deadline
  BY <1>16 DEF Deadline
<1>17. ASSUME NEW r \in Requests, Ask(r) PROVE TypeOK'
  BY <1>17, ProgressKeeps DEF Ask
<1>18. ASSUME NEW c \in Clients, Client(c) PROVE TypeOK'
  <2>1. CASE ClientLoad(c)
    BY <2>1, LoadType DEF ClientType
  <2>2. CASE AnswerRequest(c)
    <3>1. PICK r \in Requests, v \in Votes : cask[c] = <<r, v>>
      BY <2>2, AskedPair
    <3>2. ClientType'
      BY <2>2, DoneType DEF AnswerRequest
    <3>3. CASE UNCHANGED <<rec, past, future>>
      BY <2>2, <3>2, <3>3 DEF AnswerRequest, ClientType
    <3>4. CASE AnswerCommit(c, r, v)
      <4>1. rec' \in Records
        BY <3>4 DEF AnswerCommit, Recorded
      <4>4. future' \in [Requests -> Votes \cup {"none"}]
        BY <3>4 DEF AnswerCommit
      <4>2. /\ accepted' \subseteq Clients \X Requests \X Votes
            /\ lost' \subseteq Requests
        BY <3>4 DEF AnswerCommit, Overwrites
      <4> QED
        BY <2>2, <3>2, <4>1, <4>2, <4>4 DEF AnswerRequest, ClientType
    <3> QED
      BY <2>2, <3>1, <3>3, <3>4, AnswerCases
  <2>3. CASE CancelRun(c)
    BY <2>3, DoneType DEF CancelRun, ClientType, Overwrites
  <2>4. CASE DeleteRun(c)
    BY <2>4, DoneType DEF DeleteRun, ClientType
  <2> QED
    BY <1>18, <2>1, <2>2, <2>3, <2>4 DEF Client
<1>19. CASE UNCHANGED vars
  BY <1>19 DEF vars
<1> QED
  BY <1>1, <1>2, <1>3, <1>4, <1>5, <1>6, <1>7, <1>8, <1>9, <1>10, <1>11, <1>12, <1>13,
     <1>14, <1>15, <1>16, <1>17, <1>18, <1>19 DEF Next, Worker
-----------------------------------------------------------------------------
(* No answer is forgotten.                                                 *)
LEMMA GivenStays ==
  ASSUME [Next]_vars PROVE accepted \subseteq accepted'
<1>1. CASE \E c \in Clients : Client(c)
  BY <1>1 DEF Client, ClientLoad, AnswerRequest, CancelRun, DeleteRun, past
<1>2. CASE UNCHANGED past
  BY <1>2 DEF past
<1> QED
  BY <1>1, <1>2 DEF Next, Worker, vars, UnguardedCall, Ask, PersistRequest, PersistRecords,
     PollFuture, PollRecord, MarkTimeout, NoTask, RefreshRaises, Act, ReportCall, EndLoop,
     NodeUpdate, FinalPersist, PersistFailure, Raise, Deadline

(* Every list stays grounded: a load copies a grounded list, a commit      *)
(* writes one, and an answer is given where it is recorded.                *)
LEMMA GroundInductive == IInv /\ [Next]_vars => GroundInv'
<1> SUFFICES ASSUME IInv, [Next]_vars PROVE GroundInv'
  OBVIOUS
<1> USE DEF IInv, GroundInv, Grounded, TypeOK, Records, Answers, Votes,
            row, mode, copy, call, loop, past, client
<1>0. ASSUME NEW r \in Requests, NEW v \in Votes, Given(r, v) PROVE Given(r, v)'
  BY <1>0, GivenStays DEF Given
<1>1. CASE UnguardedCall
  BY <1>0, <1>1, ProgressKeeps DEF UnguardedCall
<1>2. CASE PersistRequest
  BY <1>0, <1>2 DEF PersistRequest, LoadTask
<1>3. CASE PersistRecords
  BY <1>0, <1>3 DEF PersistRecords
<1>4. CASE PollFuture
  BY <1>0, <1>4 DEF PollFuture
<1>5. CASE PollRecord
  BY <1>0, <1>5 DEF PollRecord, LoadTask, StateFollows
<1>6. CASE MarkTimeout
  BY <1>0, <1>6 DEF MarkTimeout, LoadTask
<1>7. CASE NoTask
  BY <1>0, <1>7 DEF NoTask
<1>8. CASE RefreshRaises
  BY <1>0, <1>8 DEF RefreshRaises
<1>9. CASE Act
  BY <1>0, <1>9 DEF Act
<1>10. CASE ReportCall
  BY <1>0, <1>10, ProgressKeeps DEF ReportCall
<1>11. CASE EndLoop
  BY <1>0, <1>11 DEF EndLoop
<1>12. CASE NodeUpdate
  BY <1>0, <1>12, ProgressKeeps DEF NodeUpdate
<1>13. CASE FinalPersist
  BY <1>0, <1>13 DEF FinalPersist
<1>14. CASE PersistFailure
  BY <1>0, <1>14 DEF PersistFailure
<1>15. CASE Raise
  BY <1>0, <1>15 DEF Raise
<1>16. CASE Deadline
  BY <1>0, <1>16 DEF Deadline
<1>17. ASSUME NEW r \in Requests, Ask(r) PROVE GroundInv'
  BY <1>0, <1>17, ProgressKeeps DEF Ask
<1>18. ASSUME NEW c \in Clients, Client(c) PROVE GroundInv'
  <2>1. CASE ClientLoad(c)
    <3>1. UNCHANGED <<row, loop, future, past>>
      BY <2>1 DEF ClientLoad
    <3>2. Grounded(rec)' /\ Grounded(copyRec)' /\ Grounded(stRec)'
      BY <1>0, <3>1
    <3>3. \A r \in Requests, v \in Votes : future'[r] = v => Given(r, v)'
      BY <1>0, <3>1
    <3>4. ASSUME NEW d \in Clients PROVE csnap'[d] \in {csnap[d], rec, Blank}
      BY <2>1 DEF ClientLoad, Begin, ClientDone
    <3>5. ASSUME NEW d \in Clients PROVE Grounded(csnap[d])'
      <4>1. CASE csnap'[d] = csnap[d]
        BY <1>0, <4>1
      <4>2. CASE csnap'[d] = rec
        BY <1>0, <4>2
      <4>3. CASE csnap'[d] = Blank
        BY <4>3 DEF Blank
      <4> QED
        BY <3>4, <4>1, <4>2, <4>3
    <3> QED
      BY <3>2, <3>3, <3>5
  <2>2. CASE AnswerRequest(c)
    <3>1. PICK r \in Requests, v \in Votes : cask[c] = <<r, v>>
      BY <2>2, AskedPair
    <3>2. CASE UNCHANGED <<rec, past, future>>
      BY <1>0, <2>2, <3>2 DEF AnswerRequest, ClientDone, Blank
    <3>3. CASE AnswerCommit(c, r, v)
      <4>1. Given(r, v)'
        BY <3>3 DEF AnswerCommit, Given
      <4>2. Grounded(rec)'
        BY <1>0, <3>3, <4>1 DEF AnswerCommit, Recorded
      <4>3. \A q \in Requests, w \in Votes : future'[q] = w => Given(q, w)'
        BY <1>0, <3>3, <4>1 DEF AnswerCommit
      <4> QED
        BY <1>0, <2>2, <4>2, <4>3 DEF AnswerRequest, ClientDone, Blank
    <3> QED
      BY <2>2, <3>1, <3>2, <3>3, AnswerCases
  <2>3. CASE CancelRun(c)
    BY <1>0, <2>3 DEF CancelRun, ClientDone, Blank
  <2>4. CASE DeleteRun(c)
    BY <1>0, <2>4 DEF DeleteRun, ClientDone, Blank
  <2> QED
    BY <1>18, <2>1, <2>2, <2>3, <2>4 DEF Client
<1>19. CASE UNCHANGED vars
  BY <1>0, <1>19 DEF vars
<1> QED
  BY <1>1, <1>2, <1>3, <1>4, <1>5, <1>6, <1>7, <1>8, <1>9, <1>10, <1>11, <1>12, <1>13,
     <1>14, <1>15, <1>16, <1>17, <1>18, <1>19 DEF Next, Worker

(* The loop keeps one open request, and knows why it goes on.              *)
LEMMA WaitInductive == IInv /\ [Next]_vars => WaitInv'
<1> SUFFICES ASSUME IInv, [Next]_vars PROVE WaitInv'
  OBVIOUS
<1> USE DEF IInv, WaitInv, TypeOK, row, mode, copy, call, loop, past, client
<1>0. ASSUME NEW r \in Requests, NEW v \in Votes, Given(r, v) PROVE Given(r, v)'
  BY <1>0, GivenStays DEF Given
<1>1. CASE UnguardedCall
  BY <1>0, <1>1 DEF UnguardedCall, Votes
<1>2. CASE PersistRequest
  BY <1>0, <1>2 DEF PersistRequest, Votes
<1>3. CASE PersistRecords
  BY <1>0, <1>3 DEF PersistRecords, Votes
<1>4. CASE PollFuture
  BY <1>0, <1>4 DEF PollFuture, GroundInv, Votes
<1>5. CASE PollRecord
  <2>1. req \in Requests /\ pc = "poll" /\ pc' \in {"act", "timeout", "poll"}
    BY <1>5 DEF PollRecord
  <2>2. CASE rec[req] \in Answers
    BY <1>0, <1>5, <2>1, <2>2 DEF PollRecord, GroundInv, Grounded, Answers, Votes
  <2>3. CASE rec[req] \notin Answers
    BY <1>5, <2>1, <2>3 DEF PollRecord, Overdue
  <2> QED
    BY <2>2, <2>3
<1>6. CASE MarkTimeout
  BY <1>0, <1>6 DEF MarkTimeout, Votes
<1>7. CASE NoTask
  BY <1>0, <1>7 DEF NoTask, Overdue, Votes
<1>8. CASE RefreshRaises
  BY <1>0, <1>8 DEF RefreshRaises, Votes
<1>9. CASE Act
  BY <1>0, <1>9 DEF Act, Votes
<1>10. CASE ReportCall
  BY <1>0, <1>10 DEF ReportCall, Votes
<1>11. CASE EndLoop
  BY <1>0, <1>11 DEF EndLoop, Votes
<1>12. CASE NodeUpdate
  BY <1>0, <1>12 DEF NodeUpdate, Votes
<1>13. CASE FinalPersist
  BY <1>0, <1>13 DEF FinalPersist, Votes
<1>14. CASE PersistFailure
  BY <1>0, <1>14 DEF PersistFailure, Votes
<1>15. CASE Raise
  BY <1>0, <1>15 DEF Raise, Votes
<1>16. CASE Deadline
  BY <1>0, <1>16 DEF Deadline, Votes
<1>17. ASSUME NEW r \in Requests, Ask(r) PROVE WaitInv'
  BY <1>17 DEF Ask
<1>18. ASSUME NEW c \in Clients, Client(c) PROVE WaitInv'
  BY <1>0, <1>18 DEF Client, ClientLoad, AnswerRequest, CancelRun, DeleteRun, Votes
<1>19. CASE UNCHANGED vars
  BY <1>0, <1>19 DEF vars, Votes
<1> QED
  BY <1>1, <1>2, <1>3, <1>4, <1>5, <1>6, <1>7, <1>8, <1>9, <1>10, <1>11, <1>12, <1>13,
     <1>14, <1>15, <1>16, <1>17, <1>18, <1>19 DEF Next, Worker

(* An answer that is under way names a request and a vote.                 *)
LEMMA AskInductive == IInv /\ [Next]_vars => AskInv'
<1> SUFFICES ASSUME IInv, [Next]_vars PROVE AskInv'
  OBVIOUS
<1> USE DEF IInv, AskInv
<1>1. CASE UNCHANGED client
  BY <1>1 DEF client
<1>2. ASSUME NEW c \in Clients, Client(c) PROVE AskInv'
  <2>1. CASE ClientDone(c)
    BY <2>1 DEF ClientDone, TypeOK
  <2>2. CASE \E r \in Requests, v \in Votes : Begin(c, "answer", <<r, v>>)
    BY <2>2 DEF Begin, TypeOK
  <2>3. CASE Begin(c, "cancel", cask[c]) \/ Begin(c, "delete", cask[c])
    BY <2>3 DEF Begin, TypeOK
  <2> QED
    BY <1>2, <2>1, <2>2, <2>3 DEF Client, ClientLoad, AnswerRequest, CancelRun, DeleteRun
<1> QED
  BY <1>1, <1>2 DEF Next, Worker, vars, UnguardedCall, Ask, PersistRequest, PersistRecords,
     PollFuture, PollRecord, MarkTimeout, NoTask, RefreshRaises, Act, ReportCall, EndLoop,
     NodeUpdate, FinalPersist, PersistFailure, Raise, Deadline

(* The first state has nothing on file.                                    *)
LEMMA SafetyInit == Init => IInv
<1> SUFFICES ASSUME Init PROVE IInv
  OBVIOUS
<1> DEFINE Asks == (Requests \cup {"none"}) \X (Votes \cup {"none"})
<1>1. Blank \in Records
  BY DEF Blank, Records
<1>2. <<"none", "none">> \in Asks
  OBVIOUS
<1> HIDE DEF Asks
<1>3. cask \in [Clients -> Asks]
  BY <1>2 DEF Init
<1>4. future \in [Requests -> Votes \cup {"none"}] /\ csnap \in [Clients -> Records]
  BY <1>1 DEF Init, Blank
<1>5. TypeOK
  BY <1>1, <1>3, <1>4 DEF Init, TypeOK, PCs, Blank, Asks
<1>6. GroundInv
  BY DEF Init, GroundInv, Grounded, Blank, Votes
<1> QED
  BY <1>5, <1>6 DEF Init, IInv, WaitInv, AskInv

(* Every reachable state is well typed and grounded.                       *)
THEOREM Safety == Spec => []IInv
<1>1. IInv /\ [Next]_vars => IInv'
  BY TypeInductive, GroundInductive, WaitInductive, AskInductive DEF IInv
<1> QED
  BY <1>1, SafetyInit, PTL DEF Spec

(* Every variable keeps its type.                                          *)
THEOREM TypeCorrect == Spec => []TypeOK
<1>1. IInv => TypeOK
  BY DEF IInv
<1> QED
  BY <1>1, Safety, PTL
-----------------------------------------------------------------------------
(* The answers of the promise, as a function of the accepted ones.         *)
Cast(given) ==
  [r \in Requests |-> {v \in Votes : \E c \in Clients : <<c, r, v>> \in given}]

(* An accepted answer adds its vote to its request, and nothing else.      *)
LEMMA CastAnswer ==
  ASSUME NEW given, NEW c \in Clients, NEW r \in Requests, NEW v \in Votes
  PROVE  Cast(given \cup {<<c, r, v>>}) = [Cast(given) EXCEPT ![r] = @ \cup {v}]
<1>1. ASSUME NEW q \in Requests, NEW w \in Votes
      PROVE  (\E d \in Clients : <<d, q, w>> \in given \cup {<<c, r, v>>})
               <=> (\E d \in Clients : <<d, q, w>> \in given) \/ (q = r /\ w = v)
  OBVIOUS
<1> QED
  BY <1>1 DEF Cast

(* The loop's act is the promise's execution or refusal.                   *)
LEMMA ActPromise == ASSUME IInv, Act PROVE Promise!Next
<1>1. req \in Requests /\ decision[req] = "open"
  BY DEF Act, IInv, WaitInv
<1>2. UNCHANGED <<policy, expired, accepted>>
  BY DEF Act, mode, past
<1>3. CASE granted /\ policy = "write_allowed"
  <2>1. decision' = [decision EXCEPT ![req] = "executed"]
    BY <1>3 DEF Act, Runs
  <2>2. Given(req, "approve")
    BY <1>3 DEF Act, IInv, WaitInv
  <2>3. Promise!Execute(req)
    BY <1>1, <1>2, <1>3, <2>1, <2>2 DEF Promise!Execute, Votes, Given
  <2> QED
    BY <1>1, <2>3 DEF Promise!Next
<1>4. CASE ~(granted /\ policy = "write_allowed")
  <2>1. decision' = [decision EXCEPT ![req] = "refused"]
    BY <1>4 DEF Act, Runs
  <2>2. Given(req, "deny") \/ expired[req] \/ policy # "write_allowed"
    BY <1>4 DEF Act, IInv, WaitInv
  <2>3. Promise!Refuse(req)
    BY <1>1, <1>2, <2>1, <2>2 DEF Promise!Refuse, Votes, Given
  <2> QED
    BY <1>1, <2>3 DEF Promise!Next
<1> QED
  BY <1>3, <1>4

(* What the promise sees of a step that accepts no answer, decides nothing *)
(* and ends no deadline is a stutter.                                      *)
LEMMA QuietStep ==
  ASSUME UNCHANGED <<policy, expired, accepted, decision>>
  PROVE  UNCHANGED Promise!vars
  BY DEF Promise!vars, Given

(* Every step is a step of the promise, or nothing to it.                  *)
LEMMA PromiseStep == IInv /\ [Next]_vars => [Promise!Next]_(Promise!vars)
<1> SUFFICES ASSUME IInv, [Next]_vars PROVE Promise!Next \/ UNCHANGED Promise!vars
  OBVIOUS
<1>1. CASE Act
  BY <1>1, ActPromise
<1>2. CASE Deadline
  <2>1. req \in Requests /\ expired' = [expired EXCEPT ![req] = TRUE]
    BY <1>2 DEF Deadline, IInv, WaitInv
  <2>2. UNCHANGED <<policy, accepted, decision>>
    BY <1>2 DEF Deadline, mode, past, call
  <2>3. Promise!TimeOut(req)
    BY <2>1, <2>2 DEF Promise!TimeOut, Given
  <2> QED
    BY <2>1, <2>3 DEF Promise!Next
<1>3. ASSUME NEW c \in Clients, AnswerRequest(c)
      PROVE  Promise!Next \/ UNCHANGED Promise!vars
  <2>1. PICK r \in Requests, v \in Votes : cask[c] = <<r, v>>
    BY <1>3 DEF AnswerRequest, IInv, AskInv
  <2>2. UNCHANGED <<policy, expired, decision>>
    BY <1>3 DEF AnswerRequest, mode, loop, call
  <2>3. CASE UNCHANGED past
    BY <2>2, <2>3, QuietStep DEF past
  <2>4. CASE AnswerCommit(c, r, v)
    <3>1. accepted' = accepted \cup {<<c, r, v>>}
      BY <2>4 DEF AnswerCommit
    <3>2. Cast(accepted') = [Cast(accepted) EXCEPT ![r] = @ \cup {v}]
      BY <3>1, CastAnswer
    <3>3. Promise!Answer(r, v)
      BY <2>2, <3>2 DEF Promise!Answer, Cast, Given
    <3> QED
      BY <3>3 DEF Promise!Next, Promise!Votes, Votes
  <2> QED
    BY <1>3, <2>1, <2>3, <2>4, AnswerCases DEF past
<1>4. CASE UnguardedCall \/ (\E r \in Requests : Ask(r)) \/ PersistRequest \/ PersistRecords
  BY <1>4, QuietStep
     DEF UnguardedCall, Ask, PersistRequest, PersistRecords, mode, past, call
<1>5. CASE PollFuture \/ PollRecord \/ MarkTimeout \/ NoTask \/ RefreshRaises
  BY <1>5, QuietStep
     DEF PollFuture, PollRecord, MarkTimeout, NoTask, RefreshRaises, mode, past, call
<1>6. CASE ReportCall \/ EndLoop \/ NodeUpdate \/ FinalPersist \/ PersistFailure \/ Raise
  BY <1>6, QuietStep
     DEF ReportCall, EndLoop, NodeUpdate, FinalPersist, PersistFailure, Raise, mode, past, call
<1>7. ASSUME NEW c \in Clients, ClientLoad(c) \/ CancelRun(c) \/ DeleteRun(c)
      PROVE  UNCHANGED Promise!vars
  BY <1>7, QuietStep DEF ClientLoad, CancelRun, DeleteRun, mode, past, loop, call
<1>8. CASE UNCHANGED vars
  BY <1>8, QuietStep DEF vars, mode, past, loop, call
<1> QED
  BY <1>1, <1>2, <1>3, <1>4, <1>5, <1>6, <1>7, <1>8 DEF Next, Worker, Client

(* The approval machinery implements the promise.                          *)
THEOREM Refinement == Spec => ImplementsPromise
<1>1. Init => Promise!Init
  <2>1. ASSUME Init, NEW r \in Requests PROVE {v \in Votes : Given(r, v)} = {}
    BY <2>1 DEF Init, Given
  <2> QED
    BY <2>1 DEF Init, Promise!Init
<1> QED
  BY <1>1, PromiseStep, Safety, PTL DEF Spec, ImplementsPromise, Promise!Spec
-----------------------------------------------------------------------------
(* Answers, the lost ones set aside.                                       *)

(* Before a request is committed, no list, nobody's copy and no answer     *)
(* knows of it; the state holds it from its load to its commit.            *)
Unfiled(r) ==
  /\ how[r] = "none"
  /\ req = r => pc \notin {"poll", "timeout", "timeout_commit", "aborting", "aborted"}

FileInv ==
  /\ pc \in {"file", "file_commit", "poll", "timeout", "timeout_commit"} => how[req] = "none"
  /\ \A r \in Requests : decision[r] = "open" => how[r] = "none" \/ (pc = "act" /\ req = r)
  /\ pc = "timeout_commit" => stRec[req] = "timed_out"
  /\ \A c \in Clients : cpc[c] = "answer" => csnap[c][cask[c][1]] = "pending"
  /\ \A r \in Requests : Unfiled(r) =>
       /\ rec[r] = "none" /\ copyRec[r] = "none"
       /\ stRec[r] = IF req = r /\ pc = "file_commit" THEN "pending" ELSE "none"
       /\ \A c \in Clients : csnap[c][r] = "none"
       /\ \A a \in accepted : a[2] # r

(* A request nobody wrote over, in a loop that looked at the row.          *)
Kept(r) == r \notin lost /\ how[r] \in {"none", "poll", "timeout"} /\ pc # "aborted"

(* Its record is pending only before its answer, and what the loop decided *)
(* on stays in the row and in the state.                                   *)
KeptInv ==
  \A r \in Requests : Kept(r) =>
    /\ \A a \in accepted : a[2] = r => rec[r] # "pending"
    /\ \A a, b \in accepted : a[2] = r /\ b[2] = r => a = b
    /\ how[r] # "none" => rec[r] = stRec[r]
    /\ how[r] = "timeout" => rec[r] = "timed_out"
    /\ how[r] = "poll" =>
         /\ rec[r] \in Answers
         /\ decision[r] = "executed" \/ (pc = "act" /\ req = r /\ granted)
              => rec[r] = "approved"

AInv == IInv /\ FileInv /\ KeptInv

(* The loop, its errors and the clock leave the clients alone.             *)
LEMMA LoopAlone ==
  ASSUME Worker \/ Raise \/ Deadline
  PROVE  UNCHANGED <<cpc, csnap, cask, accepted, lost>>
  BY DEF Worker, UnguardedCall, Ask, PersistRequest, PersistRecords, PollFuture, PollRecord,
     MarkTimeout, NoTask, RefreshRaises, Act, ReportCall, EndLoop, NodeUpdate, FinalPersist,
     PersistFailure, Raise, Deadline, client, past

(* A progress write puts the state's list in the row, or nothing.          *)
LEMMA ProgressWrites ==
  ASSUME PersistProgress
  PROVE  /\ rec' = rec \/ rec' = stRec
         /\ copyRec' = copyRec \/ copyRec' = stRec
  BY DEF PersistProgress, Written, row, copy

(* What a step of the loop leaves of FileInv is this.                      *)
LEMMA FileLoop ==
  ASSUME IInv, FileInv, Worker \/ Raise \/ Deadline
  PROVE  FileInv'
<1>0. UNCHANGED <<cpc, csnap, cask, accepted, lost>>
  BY LoopAlone
<1> USE DEF IInv, FileInv, Unfiled, WaitInv, TypeOK, Records, row, mode, copy, call, loop,
            past, client
<1>1. CASE UnguardedCall
  BY <1>0, <1>1, ProgressWrites DEF UnguardedCall
<1>2. CASE PersistRequest
  BY <1>0, <1>2 DEF PersistRequest, LoadTask
<1>3. CASE PersistRecords
  BY <1>0, <1>3 DEF PersistRecords
<1>4. CASE PollFuture
  BY <1>0, <1>4 DEF PollFuture
<1>5. CASE PollRecord
  BY <1>0, <1>5 DEF PollRecord, LoadTask, StateFollows, Overdue
<1>6. CASE MarkTimeout
  BY <1>0, <1>6 DEF MarkTimeout, LoadTask
<1>7. CASE NoTask
  BY <1>0, <1>7 DEF NoTask, Overdue
<1>8. CASE RefreshRaises
  BY <1>0, <1>8 DEF RefreshRaises
<1>9. CASE Act
  BY <1>0, <1>9 DEF Act, Runs
<1>10. CASE ReportCall
  BY <1>0, <1>10, ProgressWrites DEF ReportCall
<1>11. CASE EndLoop
  BY <1>0, <1>11 DEF EndLoop
<1>12. CASE NodeUpdate
  BY <1>0, <1>12, ProgressWrites DEF NodeUpdate
<1>13. CASE FinalPersist
  BY <1>0, <1>13 DEF FinalPersist
<1>14. CASE PersistFailure
  BY <1>0, <1>14 DEF PersistFailure
<1>15. CASE Raise
  BY <1>0, <1>15 DEF Raise
<1>16. CASE Deadline
  BY <1>0, <1>16 DEF Deadline
<1>17. ASSUME NEW r \in Requests, Ask(r) PROVE FileInv'
  BY <1>0, <1>17, ProgressWrites DEF Ask
<1> QED
  BY <1>1, <1>2, <1>3, <1>4, <1>5, <1>6, <1>7, <1>8, <1>9, <1>10, <1>11, <1>12, <1>13,
     <1>14, <1>15, <1>16, <1>17 DEF Worker

(* A client that commits puts its copy in the row, with its answer in it.  *)
LEMMA FileClient ==
  ASSUME IInv, FileInv, NEW c \in Clients, Client(c)
  PROVE  FileInv'
<1>0. UNCHANGED <<pc, req, how, decision, stRec, copyRec>>
  BY DEF Client, ClientLoad, AnswerRequest, CancelRun, DeleteRun, loop, call, copy
<1> USE DEF IInv, FileInv, Unfiled, TypeOK, Records, past
<1>1. CASE ClientLoad(c)
  <2>1. UNCHANGED <<rec, accepted>>
    BY <1>1 DEF ClientLoad, row
  <2>2. ASSUME NEW d \in Clients
        PROVE  \/ csnap'[d] = csnap[d] /\ cpc'[d] = cpc[d] /\ cask'[d] = cask[d]
               \/ cpc'[d] = "done" /\ csnap'[d] = Blank
               \/ cpc'[d] # "answer" /\ csnap'[d] = rec
               \/ csnap'[d] = rec /\ rec[cask'[d][1]] = "pending"
    BY <1>1 DEF ClientLoad, Begin, ClientDone, Answerable
  <2>3. ASSUME NEW d \in Clients, cpc'[d] = "answer"
        PROVE  csnap'[d][cask'[d][1]] = "pending"
    BY <2>2, <2>3
  <2>4. ASSUME NEW d \in Clients, NEW r \in Requests, Unfiled(r)
        PROVE  csnap'[d][r] = "none"
    BY <2>2, <2>4 DEF Blank
  <2>5. ASSUME NEW r \in Requests
        PROVE  Unfiled(r)' <=> Unfiled(r)
    BY <1>0
  <2> HIDE DEF Unfiled
  <2> QED
    BY <1>0, <2>1, <2>3, <2>4, <2>5
<1>2. CASE AnswerRequest(c)
  <2>1. PICK r \in Requests, v \in Votes : cask[c] = <<r, v>>
    BY <1>2, AskedPair
  <2>2. csnap[c][r] = "pending"
    BY <1>2, <2>1 DEF AnswerRequest
  <2>3. ~Unfiled(r)
    BY <2>2
  <2>4. ASSUME NEW d \in Clients
        PROVE  \/ csnap'[d] = csnap[d] /\ cpc'[d] = cpc[d] /\ cask'[d] = cask[d]
               \/ cpc'[d] = "done" /\ csnap'[d] = Blank
    BY <1>2 DEF AnswerRequest, ClientDone
  <2>5. ASSUME NEW d \in Clients, cpc'[d] = "answer"
        PROVE  csnap'[d][cask'[d][1]] = "pending"
    BY <2>4, <2>5
  <2>6. ASSUME NEW d \in Clients, NEW q \in Requests, Unfiled(q)
        PROVE  csnap'[d][q] = "none"
    BY <2>4, <2>6 DEF Blank
  <2>7. ASSUME NEW q \in Requests
        PROVE  Unfiled(q)' <=> Unfiled(q)
    BY <1>0
  <2>8. ASSUME NEW q \in Requests, Unfiled(q)
        PROVE  rec'[q] = "none" /\ \A a \in accepted' : a[2] # q
    <3>1. CASE UNCHANGED <<rec, past, future>>
      BY <2>8, <3>1
    <3>2. CASE AnswerCommit(c, r, v)
      BY <2>3, <2>8, <3>2 DEF AnswerCommit
    <3> QED
      BY <1>2, <2>1, <3>1, <3>2, AnswerCases
  <2> HIDE DEF Unfiled
  <2> QED
    BY <1>0, <2>5, <2>6, <2>7, <2>8
<1>3. CASE CancelRun(c)
  BY <1>0, <1>3 DEF CancelRun, ClientDone, Blank, row
<1>4. CASE DeleteRun(c)
  BY <1>0, <1>4 DEF DeleteRun, ClientDone, Blank
<1> QED
  BY <1>1, <1>2, <1>3, <1>4 DEF Client

(* How the loop came to leave a request is settled once and for all.       *)
LEMMA KeptLoop ==
  ASSUME IInv, FileInv, KeptInv, Worker \/ Raise \/ Deadline
  PROVE  KeptInv'
<1>0. UNCHANGED <<cpc, csnap, cask, accepted, lost>>
  BY LoopAlone
<1>00. ASSUME NEW r \in Requests, how[r] = "none",
              req = r => pc \notin {"poll", "timeout", "timeout_commit", "aborting", "aborted"}
       PROVE  rec[r] = "none" /\ \A a \in accepted : a[2] # r
  BY <1>00 DEF FileInv, Unfiled
<1>000. /\ pc \in {"file", "file_commit", "poll", "timeout", "timeout_commit"} => how[req] = "none"
        /\ pc = "timeout_commit" => stRec[req] = "timed_out"
  BY DEF FileInv
<1> USE DEF IInv, KeptInv, Kept, WaitInv, TypeOK, Records, Answers, row, mode, copy, call, loop
<1>1. CASE UnguardedCall
  BY <1>0, <1>00, <1>1, ProgressWrites DEF UnguardedCall
<1>2. CASE PersistRequest
  BY <1>0, <1>000, <1>2 DEF PersistRequest, LoadTask
<1>3. CASE PersistRecords
  BY <1>0, <1>00, <1>000, <1>3 DEF PersistRecords
<1>4. CASE PollFuture
  BY <1>0, <1>000, <1>4 DEF PollFuture
<1>5. CASE PollRecord
  BY <1>0, <1>000, <1>5 DEF PollRecord, LoadTask, StateFollows, Overdue
<1>6. CASE MarkTimeout
  BY <1>0, <1>000, <1>6 DEF MarkTimeout, LoadTask
<1>7. CASE NoTask
  BY <1>0, <1>000, <1>7 DEF NoTask, Overdue
<1>8. CASE RefreshRaises
  BY <1>0, <1>8 DEF RefreshRaises
<1>9. CASE Act
  BY <1>0, <1>9 DEF Act, Runs
<1>10. CASE ReportCall
  BY <1>0, <1>00, <1>10, ProgressWrites DEF ReportCall
<1>11. CASE EndLoop
  BY <1>0, <1>11 DEF EndLoop
<1>12. CASE NodeUpdate
  BY <1>0, <1>00, <1>12, ProgressWrites DEF NodeUpdate
<1>13. CASE FinalPersist
  BY <1>0, <1>00, <1>13 DEF FinalPersist
<1>14. CASE PersistFailure
  BY <1>14 DEF PersistFailure
<1>15. CASE Raise
  BY <1>0, <1>15 DEF Raise
<1>16. CASE Deadline
  BY <1>0, <1>16 DEF Deadline
<1>17. ASSUME NEW r \in Requests, Ask(r) PROVE KeptInv'
  BY <1>0, <1>00, <1>17, ProgressWrites DEF Ask
<1> QED
  BY <1>1, <1>2, <1>3, <1>4, <1>5, <1>6, <1>7, <1>8, <1>9, <1>10, <1>11, <1>12, <1>13,
     <1>14, <1>15, <1>16, <1>17 DEF Worker

(* A stale list that is committed shows in lost; a second answer to the    *)
(* same request is one.                                                    *)
LEMMA KeptClient ==
  ASSUME IInv, FileInv, KeptInv, NEW c \in Clients, Client(c)
  PROVE  KeptInv'
<1>0. UNCHANGED <<pc, req, granted, how, decision, stRec>>
  BY DEF Client, ClientLoad, AnswerRequest, CancelRun, DeleteRun, loop, call
<1> USE DEF IInv, KeptInv, Kept, TypeOK, Records, past
<1>1. CASE ClientLoad(c) \/ DeleteRun(c)
  BY <1>0, <1>1 DEF ClientLoad, DeleteRun, row
<1>2. CASE CancelRun(c)
  BY <1>0, <1>2 DEF CancelRun, Overwrites, row
<1>3. CASE AnswerRequest(c)
  <2>1. PICK r \in Requests, v \in Votes : cask[c] = <<r, v>>
    BY <1>3, AskedPair
  <2>2. csnap[c][r] = "pending"
    BY <1>3, <2>1 DEF AnswerRequest, FileInv
  <2>3. CASE UNCHANGED <<rec, past, future>>
    BY <1>0, <2>3
  <2>4. CASE AnswerCommit(c, r, v)
    <3>1. /\ rec' = [csnap[c] EXCEPT ![r] = Recorded(v)]
          /\ accepted' = accepted \cup {<<c, r, v>>}
          /\ lost' = lost \cup {q \in Requests : rec[q] # csnap[c][q]}
      BY <2>4 DEF AnswerCommit, Overwrites
    <3>2. Recorded(v) # "pending"
      BY DEF Recorded
    <3>3. ASSUME NEW q \in Requests, q # r, Kept(q)'
          PROVE  Kept(q) /\ rec'[q] = rec[q] /\ \A a \in accepted' : a[2] = q => a \in accepted
      BY <1>0, <3>1, <3>3
    <3>4. ASSUME Kept(r)'
          PROVE  /\ rec[r] = "pending" /\ how[r] = "none"
                 /\ \A a \in accepted : a[2] # r
      <4>1. Kept(r) /\ rec[r] = "pending"
        BY <1>0, <2>2, <3>1, <3>4
      <4> QED
        BY <4>1 DEF Answers
    <3>5. ASSUME NEW q \in Requests, Kept(q)'
          PROVE  /\ \A a \in accepted' : a[2] = q => rec'[q] # "pending"
                 /\ \A a, b \in accepted' : a[2] = q /\ b[2] = q => a = b
                 /\ how'[q] # "none" => rec'[q] = stRec'[q]
                 /\ how'[q] = "timeout" => rec'[q] = "timed_out"
                 /\ how'[q] = "poll" =>
                      /\ rec'[q] \in Answers
                      /\ decision'[q] = "executed" \/ (pc' = "act" /\ req' = q /\ granted')
                           => rec'[q] = "approved"
      <4>1. CASE q # r
        BY <1>0, <3>3, <3>5, <4>1
      <4>2. CASE q = r
        <5>1. \A a \in accepted' : a[2] = r => a = <<c, r, v>>
          BY <3>1, <3>4, <3>5, <4>2
        <5>2. rec'[r] # "pending"
          BY <3>1, <3>2
        <5>3. how'[r] = "none"
          BY <1>0, <3>4, <3>5, <4>2
        <5> QED
          BY <4>2, <5>1, <5>2, <5>3
      <4> QED
        BY <4>1, <4>2
    <3> QED
      BY <3>5
  <2> QED
    BY <1>3, <2>1, <2>3, <2>4, AnswerCases
<1> QED
  BY <1>1, <1>2, <1>3 DEF Client

(* Every reachable state, with what is on file in it.                      *)
LEMMA AnswersKept == Spec => []AInv
<1>1. Init => FileInv /\ KeptInv
  BY DEF Init, FileInv, Unfiled, KeptInv, Kept, Blank
<1>2. AInv /\ [Next]_vars => AInv'
  <2> SUFFICES ASSUME AInv, [Next]_vars PROVE AInv'
    OBVIOUS
  <2>1. IInv'
    BY TypeInductive, GroundInductive, WaitInductive, AskInductive DEF AInv, IInv
  <2>2. CASE Worker \/ Raise \/ Deadline
    BY <2>1, <2>2, FileLoop, KeptLoop DEF AInv
  <2>3. CASE \E c \in Clients : Client(c)
    BY <2>1, <2>3, FileClient, KeptClient DEF AInv
  <2>4. CASE UNCHANGED vars
    BY <2>1, <2>4 DEF AInv, FileInv, Unfiled, KeptInv, Kept, vars, row, mode, copy, call,
       loop, past, client
  <2> QED
    BY <2>2, <2>3, <2>4 DEF Next
<1> QED
  BY <1>1, <1>2, SafetyInit, PTL DEF Spec, AInv

(* Of several answers to one request the API accepts one, unless somebody  *)
(* wrote over it or the loop left without having read the row.             *)
THEOREM OneAnswer == Spec => []SoleAnswer
<1>1. AInv => SoleAnswer
  <2> SUFFICES ASSUME AInv, NEW a \in accepted, NEW b \in accepted,
                      a[2] = b[2], a[2] \notin lost,
                      how[a[2]] \in {"none", "poll", "timeout"}, pc # "aborted"
               PROVE  a = b
    BY DEF SoleAnswer
  <2>1. a[2] \in Requests
    BY DEF AInv, IInv, TypeOK
  <2> QED
    BY <2>1 DEF AInv, KeptInv, Kept
<1> QED
  BY <1>1, AnswersKept, PTL

(* The log of a run that ends shows what was decided by polling or by the  *)
(* timeout, but for what a client's stale list wrote over.                 *)
THEOREM AuditHolds == Spec => AuditAgrees
<1>1. AInv /\ [Next]_vars
        => [pc = "final" /\ pc' = "done" /\ rowStatus # "deleted" =>
              \A r \in Requests \ lost : how[r] \in {"poll", "timeout"} =>
                Agrees(rec'[r], decision[r], how[r])]_vars
  <2> SUFFICES ASSUME AInv, Next, pc = "final", pc' = "done", rowStatus # "deleted",
                      NEW r \in Requests \ lost, how[r] \in {"poll", "timeout"}
               PROVE  Agrees(rec'[r], decision[r], how[r])
    OBVIOUS
  <2>1. rec' = stRec
    <3>1. FinalPersist
      BY DEF Next, Worker, UnguardedCall, Ask, PersistRequest, PersistRecords, PollFuture,
         PollRecord, MarkTimeout, NoTask, RefreshRaises, Act, ReportCall, EndLoop,
         NodeUpdate, PersistFailure, Raise, Deadline, Client, ClientLoad, AnswerRequest,
         CancelRun, DeleteRun, loop
    <3> QED
      BY <3>1 DEF FinalPersist
  <2>2. Kept(r)
    BY DEF Kept
  <2> QED
    BY <2>1, <2>2 DEF AInv, KeptInv, Agrees
<1> QED
  BY <1>1, AnswersKept, PTL DEF Spec, AuditAgrees
=============================================================================
