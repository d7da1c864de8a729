-------------------------- MODULE RunEvents_proofs --------------------------
(* Proofs about RunEvents, for every set of connections and every bound on *)
(* records, nodes, calls and plans.                                        *)
EXTENDS RunEvents, TLAPS, FiniteSetTheorems, SequenceTheorems

----------------------------------------------------------------------------
(* The operators *)

(* The five kinds of record.                                               *)
LEMMA KindsAre ==
  Kinds = {"action", "tool_call", "evidence", "observation", "evaluation"}
<1>1. DOMAIN KindOrder = 1 .. 5
  BY DEF KindOrder
<1> QED
  BY <1>1 DEF Kinds, KindOrder

(* Their ranks are those of the flush functions.                           *)
LEMMA RanksAre ==
  /\ Rank("action") = 1 /\ Rank("tool_call") = 2 /\ Rank("evidence") = 3
  /\ Rank("observation") = 4 /\ Rank("evaluation") = 5
<1>1. DOMAIN KindOrder = 1 .. 5
  BY DEF KindOrder
<1>2. ASSUME NEW i \in 1 .. 5 PROVE Rank(KindOrder[i]) = i
  <2>1. \A j \in DOMAIN KindOrder : KindOrder[j] = KindOrder[i] <=> j = i
    BY <1>1, <1>2 DEF KindOrder
  <2> QED
    BY <1>1, <2>1 DEF Rank
<1>3. /\ KindOrder[1] = "action" /\ KindOrder[2] = "tool_call"
      /\ KindOrder[3] = "evidence" /\ KindOrder[4] = "observation"
      /\ KindOrder[5] = "evaluation"
  BY DEF KindOrder
<1> QED
  BY <1>2, <1>3

(* The tables load_runtime_detail selects, in their order.                 *)
LEMMA SelectsAre ==
  /\ Len(Selects) = 5 /\ DOMAIN Selects = 1 .. 5
  /\ Selects[1] = "action" /\ Selects[2] = "observation"
  /\ Selects[3] = "evaluation" /\ Selects[4] = "tool_call"
  /\ Selects[5] = "evidence"
  BY DEF Selects

(* A bounded set of naturals that is not empty has a largest element.      *)
LEMMA MaxIs ==
  ASSUME NEW S \in SUBSET Nat, S # {}, NEW b \in Nat, \A x \in S : x <= b
  PROVE  MaxOf(S) \in S /\ \A x \in S : x <= MaxOf(S)
<1> DEFINE T == {u \in Nat : \A x \in S : x <= u}
<1>1. b \in T /\ T \subseteq Nat
  OBVIOUS
<1>2. \E u \in T : \A y \in T : ~ (<<y, u>> \in OpToRel(<, Nat))
  BY <1>1, NatLessThanWellFounded, WFMin, Zenon
<1>3. \E u \in T : \A y \in T : ~ (y < u)
  BY <1>1, <1>2 DEF OpToRel
<1>4. PICK m \in T : \A y \in T : ~ (y < m)
  BY <1>3
<1>5. m \in Nat /\ \A x \in S : x <= m
  OBVIOUS
<1>6. m \in S
  <2>1. SUFFICES ASSUME m \notin S PROVE FALSE
    OBVIOUS
  <2>2. \A x \in S : x < m /\ x <= m - 1
    BY <1>5, <2>1
  <2>3. PICK x \in S : TRUE
    OBVIOUS
  <2>4. m - 1 \in Nat
    BY <1>5, <2>2, <2>3
  <2>5. m - 1 \in T
    BY <2>2, <2>4
  <2> QED
    BY <1>4, <1>5, <2>5
<1> HIDE DEF T
<1> QED
  BY <1>5, <1>6 DEF MaxOf

----------------------------------------------------------------------------
(* Types *)

Log        == [version : Nat, lists : SUBSET Nat]
RowStatus  == Statuses \cup {"none"}
Row        == [status : RowStatus, log : Log]
Detail     == [Kinds -> SUBSET Nat]
Connection ==
  [pc : {"off", "poll", "select", "end", "closed"}, next : Nat,
   seen : [status : RowStatus, version : Nat], now : Row,
   select : 1 .. 6, detail : Detail, shown : Detail]

(* TypeOK with what it leaves open: the shape of the run and of a          *)
(* connection, the lists a poll has read, a bound of the sequences.        *)
TInv ==
  /\ TypeOK
  /\ row \in Row
  /\ clients \in [Clients -> Connection]
  /\ \A c \in Clients : clients[c].now.log.lists \subseteq Records
  /\ \E b \in Nat : \A r \in DOMAIN stored : stored[r] <= b

(* A tool call leaves four records behind those there are.                 *)
LEMMA CallGrows ==
  ASSUME kinds \in Seq(Kinds), CallTool
  PROVE  /\ kinds' \in Seq(Kinds)
         /\ Len(kinds) \in Nat /\ Len(kinds') = Len(kinds) + 4
         /\ \A r \in Records : kinds'[r] = kinds[r]
         /\ kinds'[Len(kinds) + 1] = "tool_call"
         /\ kinds'[Len(kinds) + 2] = "evidence"
         /\ kinds'[Len(kinds) + 3] = "observation"
         /\ kinds'[Len(kinds) + 4] = "evaluation"
         /\ held' = Trimmed(held \cup {Len(kinds) + 1, Len(kinds) + 2,
                                       Len(kinds) + 3, Len(kinds) + 4})
<1> DEFINE one == ResultLeaves  two == EvaluationLeaves
<1>1. /\ one \in Seq(Kinds) /\ Len(one) = 3
      /\ one[1] = "tool_call" /\ one[2] = "evidence" /\ one[3] = "observation"
  BY KindsAre DEF ResultLeaves
<1>2. two \in Seq(Kinds) /\ Len(two) = 1 /\ two[1] = "evaluation"
  BY KindsAre DEF EvaluationLeaves
<1>3. /\ one \o two \in Seq(Kinds)
      /\ Len(one \o two) = Len(one) + Len(two)
      /\ \A i \in 1 .. Len(one) + Len(two) :
           (one \o two)[i] = IF i <= Len(one) THEN one[i] ELSE two[i - Len(one)]
  <2> HIDE DEF one, two
  <2> QED
    BY <1>1, <1>2, ConcatProperties, Zenon
<1>4. /\ Left \in Seq(Kinds) /\ Len(Left) = 4
      /\ Left[1] = "tool_call" /\ Left[2] = "evidence" /\ Left[3] = "observation"
      /\ Left[4] = "evaluation"
  <2>1. Left = one \o two
    BY DEF Left
  <2> HIDE DEF one, two
  <2>2. Len(one \o two) = 4
    BY <1>1, <1>2, <1>3
  <2>3. (one \o two)[1] = one[1] /\ (one \o two)[2] = one[2] /\ (one \o two)[3] = one[3]
        /\ (one \o two)[4] = two[1]
    BY <1>1, <1>2, <1>3
  <2> QED
    BY <1>1, <1>2, <1>3, <2>1, <2>2, <2>3
<1>5. DOMAIN Left = 1 .. 4
  BY <1>4, LenProperties
<1>6. Len(kinds) \in Nat
  BY LenProperties
<1>7. /\ kinds \o Left \in Seq(Kinds)
      /\ Len(kinds \o Left) = Len(kinds) + Len(Left)
      /\ \A i \in 1 .. Len(kinds) + Len(Left) :
           (kinds \o Left)[i] = IF i <= Len(kinds) THEN kinds[i] ELSE Left[i - Len(kinds)]
  BY <1>4, ConcatProperties, Zenon
<1>8. kinds' = kinds \o Left /\ held' = Trimmed(held \cup {Len(kinds) + i : i \in DOMAIN Left})
  BY DEF CallTool
<1>9. {Len(kinds) + i : i \in DOMAIN Left}
        = {Len(kinds) + 1, Len(kinds) + 2, Len(kinds) + 3, Len(kinds) + 4}
  BY <1>5, <1>6
<1>10. \A r \in Records : kinds'[r] = kinds[r]
  BY <1>4, <1>6, <1>7, <1>8 DEF Records
<1>11. /\ kinds'[Len(kinds) + 1] = Left[1] /\ kinds'[Len(kinds) + 2] = Left[2]
       /\ kinds'[Len(kinds) + 3] = Left[3] /\ kinds'[Len(kinds) + 4] = Left[4]
  BY <1>4, <1>6, <1>7, <1>8
<1> QED
  BY <1>4, <1>6, <1>7, <1>8, <1>9, <1>10, <1>11

(* A plan leaves one.                                                      *)
LEMMA PlanGrows ==
  ASSUME kinds \in Seq(Kinds), ReplaceActions
  PROVE  /\ kinds' \in Seq(Kinds)
         /\ Len(kinds) \in Nat /\ Len(kinds') = Len(kinds) + 1
         /\ \A r \in Records : kinds'[r] = kinds[r]
         /\ kinds'[Len(kinds) + 1] = "action"
<1>1. "action" \in Kinds
  BY KindsAre
<1>2. Len(kinds) \in Nat
  BY LenProperties
<1>3. kinds' = Append(kinds, "action")
  BY DEF ReplaceActions
<1> QED
  BY <1>1, <1>2, <1>3, AppendProperties DEF Records

(* Whatever happens, a record stays what it is.                            *)
LEMMA Grows ==
  ASSUME kinds \in Seq(Kinds), [Next]_vars
  PROVE  /\ kinds' \in Seq(Kinds)
         /\ Records \subseteq Records'
         /\ \A r \in Records : kinds'[r] = kinds[r]
         /\ \A k \in Kinds : OfKind(Records, k) \subseteq OfKind(Records, k)'
<1>1. /\ kinds' \in Seq(Kinds)
      /\ Records \subseteq Records'
      /\ \A r \in Records : kinds'[r] = kinds[r]
  <2>1. CASE CallTool
    BY <2>1, CallGrows DEF Records
  <2>2. CASE ReplaceActions
    BY <2>2, PlanGrows DEF Records
  <2>3. CASE UNCHANGED kinds
    BY <2>3 DEF Records
  <2>4. CallTool \/ ReplaceActions \/ UNCHANGED kinds
    <3>1. Execute => CallTool \/ ReplaceActions \/ UNCHANGED kinds
      BY DEF Execute, FlushStage, EndNode, WriteLog, SkipLog, Abort, FlushRead,
             FlushCommit, FlushFail
    <3>2. Cancel \/ Delete => UNCHANGED kinds
      BY DEF Cancel, Delete, Executor
    <3>3. ASSUME NEW c \in Clients, Connect(c) \/ Stream(c) PROVE UNCHANGED kinds
      BY <3>3 DEF Connect, Stream, Poll, RowGone, SelectTable, ShowLog, Rest, Moves,
                  Executor
    <3> QED
      BY <3>1, <3>2, <3>3 DEF Next, vars
  <2> QED
    BY <2>1, <2>2, <2>3, <2>4
<1> QED
  BY <1>1 DEF OfKind

(* The next sequence is above every one that is stored or streamed.        *)
LEMMA NextAbove ==
  ASSUME TInv
  PROVE  /\ NextSequence \in Nat \ {0}
         /\ streamTop < NextSequence
         /\ \A r \in DOMAIN stored : stored[r] < NextSequence
<1> DEFINE S == Sequences \cup {streamTop, 0}
<1>1. PICK b \in Nat : \A r \in DOMAIN stored : stored[r] <= b
  BY DEF TInv
<1>2. streamTop \in Nat /\ \A r \in DOMAIN stored : stored[r] \in Nat
  BY DEF TInv, TypeOK
<1>3. S \in SUBSET Nat /\ S # {}
  BY <1>2 DEF Sequences
<1>4. b + streamTop \in Nat /\ \A x \in S : x <= b + streamTop
  BY <1>1, <1>2 DEF Sequences
<1>5. streamTop \in S /\ \A r \in DOMAIN stored : stored[r] \in S
  BY DEF Sequences
<1> HIDE DEF S
<1>6. MaxOf(S) \in S /\ \A x \in S : x <= MaxOf(S)
  BY <1>3, <1>4, MaxIs
<1>7. NextSequence = MaxOf(S) + 1
  BY DEF NextSequence, S
<1>8. MaxOf(S) \in Nat
  BY <1>3, <1>6
<1>9. \A x \in S : x \in Nat /\ x < MaxOf(S) + 1
  BY <1>3, <1>6, <1>8
<1> QED
  BY <1>5, <1>7, <1>8, <1>9

(* What is new to the tables is a finite set of records; a position in it  *)
(* is a natural below its size.                                            *)
LEMMA PositionIs ==
  ASSUME TInv, NEW new, new = held \ DOMAIN stored
  PROVE  /\ IsFiniteSet(new) /\ Cardinality(new) \in Nat
         /\ \A r \in new : Position(r, new) \in Nat /\ Position(r, new) <= Cardinality(new)
<1>1. Len(kinds) \in Nat /\ new \subseteq 1 .. Len(kinds)
  BY LenProperties DEF TInv, TypeOK, Records
<1>2. IsFiniteSet(new)
  <2>1. IsFiniteSet(1 .. Len(kinds)) /\ new \in SUBSET (1 .. Len(kinds))
    BY <1>1, FS_Interval
  <2> QED
    BY <2>1, FS_Subset
<1>3. ASSUME NEW r \in new
      PROVE  Position(r, new) \in Nat /\ Position(r, new) <= Cardinality(new)
  <2>1. {q \in new : Before(q, r)} \in SUBSET new
    OBVIOUS
  <2> QED
    BY <1>2, <2>1, FS_Subset, FS_CardinalityType DEF Position
<1> QED
  BY <1>2, <1>3, FS_CardinalityType

(* A flush keeps the tables what they are: bounded naturals.               *)
LEMMA FlushedIs ==
  ASSUME TInv
  PROVE  /\ DOMAIN Flushed = DOMAIN stored \cup held
         /\ Flushed \in [DOMAIN stored \cup held -> Nat]
         /\ \E b \in Nat : \A r \in DOMAIN Flushed : Flushed[r] <= b
<1> DEFINE new == held \ DOMAIN stored
<1>1. /\ Cardinality(new) \in Nat
      /\ \A r \in new : Position(r, new) \in Nat /\ Position(r, new) <= Cardinality(new)
  BY PositionIs
<1>2. flushNext \in Nat /\ \A r \in DOMAIN stored : stored[r] \in Nat
  BY DEF TInv, TypeOK
<1>3. DOMAIN Flushed = DOMAIN stored \cup held
  BY DEF Flushed
<1>4. \A r \in DOMAIN Flushed :
        Flushed[r] = IF r \in new THEN flushNext + Position(r, new) ELSE stored[r]
  BY DEF Flushed
<1>5. PICK b \in Nat : \A r \in DOMAIN stored : stored[r] <= b
  BY DEF TInv
<1>6. DOMAIN stored \cup held = DOMAIN stored \cup new
  OBVIOUS
<1> HIDE DEF new
<1>7. \A r \in DOMAIN Flushed : Flushed[r] \in Nat
  BY <1>1, <1>2, <1>3, <1>4, <1>6
<1>8. b + flushNext + Cardinality(new) \in Nat
      /\ \A r \in DOMAIN Flushed : Flushed[r] <= b + flushNext + Cardinality(new)
  BY <1>1, <1>2, <1>3, <1>4, <1>5, <1>6
<1>9. Flushed = [r \in DOMAIN Flushed |-> Flushed[r]]
  BY DEF Flushed
<1> QED
  BY <1>3, <1>7, <1>8, <1>9

(* A step of one connection keeps the types if its record does.            *)
LEMMA ClientType ==
  ASSUME TInv, NEW c \in Clients, NEW cl \in Connection, Moves(c, cl),
         streamTop' \in Nat, cl.now.log.lists \subseteq Records,
         \A k \in Kinds : cl.detail[k] \cup cl.shown[k] \subseteq OfKind(Records, k)
  PROVE  TInv'
<1>1. UNCHANGED <<pc, back, node, kinds, held, flushNext, flushed, saved, stored, row>>
  BY DEF Moves, Executor
<1>2. clients' = [clients EXCEPT ![c] = cl]
  BY DEF Moves
<1>3. clients' \in [Clients -> Connection]
  BY <1>2 DEF TInv
<1>4. \A d \in Clients : clients'[d] = IF d = c THEN cl ELSE clients[d]
  BY <1>2 DEF TInv
<1>5. Records' = Records /\ \A k \in Kinds : OfKind(Records, k)' = OfKind(Records, k)
  BY <1>1 DEF Records, OfKind
<1>6. \A d \in Clients : clients'[d].now.log.lists \subseteq Records'
  BY <1>4, <1>5 DEF TInv
<1>7. \A d \in Clients : \A k \in Kinds :
        clients'[d].detail[k] \cup clients'[d].shown[k] \subseteq OfKind(Records, k)'
  BY <1>4, <1>5 DEF TInv, TypeOK
<1>8. \A d \in Clients :
       /\ clients'[d].pc \in {"off", "poll", "select", "end", "closed"}
       /\ clients'[d].next \in Nat
       /\ clients'[d].select \in 1 .. Len(Selects) + 1
  BY <1>3, SelectsAre DEF Connection
<1>9. TypeOK'
  BY <1>1, <1>7, <1>8 DEF TInv, TypeOK, Records
<1>10. \E b \in Nat : \A r \in DOMAIN stored' : stored'[r] <= b
  BY <1>1 DEF TInv
<1> QED
  BY <1>1, <1>3, <1>6, <1>9, <1>10 DEF TInv

(* The executor and the API leave the connections alone.                   *)
LEMMA ClientsKeepType ==
  ASSUME TInv, [Next]_vars, UNCHANGED clients
  PROVE  /\ clients' \in [Clients -> Connection]
         /\ \A c \in Clients :
              /\ clients'[c].now.log.lists \subseteq Records'
              /\ clients'[c].pc \in {"off", "poll", "select", "end", "closed"}
              /\ clients'[c].next \in Nat
              /\ clients'[c].select \in 1 .. Len(Selects) + 1
              /\ \A k \in Kinds :
                   clients'[c].detail[k] \cup clients'[c].shown[k] \subseteq OfKind(Records, k)'
<1>1. /\ Records \subseteq Records'
      /\ \A k \in Kinds : OfKind(Records, k) \subseteq OfKind(Records, k)'
  BY Grows DEF TInv, TypeOK
<1>2. \A c \in Clients :
         /\ clients[c].now.log.lists \subseteq Records
         /\ clients[c].pc \in {"off", "poll", "select", "end", "closed"}
         /\ clients[c].next \in Nat
         /\ clients[c].select \in 1 .. Len(Selects) + 1
         /\ \A k \in Kinds :
              clients[c].detail[k] \cup clients[c].shown[k] \subseteq OfKind(Records, k)
  BY DEF TInv, TypeOK
<1>3. clients' = clients /\ clients \in [Clients -> Connection]
  BY DEF TInv
<1> QED
  BY <1>1, <1>2, <1>3

(* What is written to the run keeps its shape.                             *)
LEMMA WrittenType ==
  ASSUME TInv, NEW s \in RowStatus, NEW lists \in SUBSET Records
  PROVE  /\ Written(s, lists) \in Row /\ Written(s, lists).status = s
         /\ Written(s, lists).log.version = row.log.version + 1
         /\ Written(s, lists).log.lists = lists
<1>1. Records \subseteq Nat
  BY DEF Records
<1>2. row.log.version \in Nat
  BY DEF TInv, TypeOK
<1> QED
  BY <1>1, <1>2 DEF Written, Row, Log

(* The executor's steps keep the types.                                    *)
LEMMA ExecutorType == TInv /\ Execute => TInv'
<1> SUFFICES ASSUME TInv, Execute PROVE TInv'
  OBVIOUS
<1>1. [Next]_vars
  BY DEF Next
<1>2. /\ pc \in {"plan", "node", "log", "read", "write", "done"}
      /\ back \in {"plan", "log", "done"} /\ node \in Nat
      /\ kinds \in Seq(Kinds) /\ held \subseteq Records
      /\ flushNext \in Nat /\ flushed \in BOOLEAN
      /\ saved \subseteq DOMAIN stored /\ DOMAIN stored \subseteq Records
      /\ stored \in [DOMAIN stored -> Nat] /\ streamTop \in Nat
      /\ row \in Row /\ row.status \in RowStatus
      /\ row.log.version \in Nat /\ row.log.lists \subseteq Records
  BY DEF TInv, TypeOK, RowStatus
<1>3. \E b \in Nat : \A r \in DOMAIN stored : stored[r] <= b
  BY DEF TInv
<1>4. kinds' \in Seq(Kinds) /\ Records \subseteq Records'
  BY <1>1, <1>2, Grows
<1>5. UNCHANGED clients
  BY DEF Execute, CallTool, ReplaceActions, FlushStage, EndNode, WriteLog, SkipLog,
         Abort, FlushRead, FlushCommit, FlushFail
<1>6. SUFFICES
        /\ pc' \in {"plan", "node", "log", "read", "write", "done"}
        /\ back' \in {"plan", "log", "done"} /\ node' \in Nat
        /\ held' \subseteq Records'
        /\ flushNext' \in Nat /\ flushed' \in BOOLEAN
        /\ saved' \subseteq DOMAIN stored' /\ DOMAIN stored' \subseteq Records'
        /\ stored' \in [DOMAIN stored' -> Nat] /\ streamTop' \in Nat
        /\ row' \in Row /\ row'.log.lists \subseteq Records'
        /\ \E b \in Nat : \A r \in DOMAIN stored' : stored'[r] <= b
  <2>1. /\ clients' \in [Clients -> Connection]
         /\ \A c \in Clients :
              /\ clients'[c].now.log.lists \subseteq Records'
              /\ clients'[c].pc \in {"off", "poll", "select", "end", "closed"}
              /\ clients'[c].next \in Nat
              /\ clients'[c].select \in 1 .. Len(Selects) + 1
              /\ \A k \in Kinds :
                   clients'[c].detail[k] \cup clients'[c].shown[k] \subseteq OfKind(Records, k)'
    BY <1>1, <1>5, ClientsKeepType
  <2>2. row'.status \in RowStatus /\ row'.log.version \in Nat
    BY <1>6 DEF Row, Log
  <2> QED
    BY <1>4, <1>6, <2>1, <2>2 DEF TInv, TypeOK, RowStatus
<1>7. CASE CallTool
  <2>1. held' \subseteq Records'
    <3>1. /\ Len(kinds) \in Nat /\ Len(kinds') = Len(kinds) + 4
          /\ held' = Trimmed(held \cup {Len(kinds) + 1, Len(kinds) + 2,
                                        Len(kinds) + 3, Len(kinds) + 4})
      BY <1>2, <1>7, CallGrows
    <3>2. held \cup {Len(kinds) + 1, Len(kinds) + 2, Len(kinds) + 3, Len(kinds) + 4}
            \subseteq Records'
      BY <1>2, <1>4, <3>1 DEF Records
    <3> QED
      BY <3>1, <3>2 DEF Trimmed
  <2>2. UNCHANGED <<back, node, flushNext, flushed, stored, streamTop, saved, row>>
        /\ pc' = "node"
    BY <1>7 DEF CallTool, Store, Tables
  <2> QED
    BY <1>2, <1>3, <1>4, <2>1, <2>2
<1>8. CASE ReplaceActions
  <2>1. held' \subseteq Records'
    <3>1. Len(kinds) \in Nat /\ Len(kinds') = Len(kinds) + 1
      BY <1>2, <1>8, PlanGrows
    <3>2. held' \subseteq Records \cup {Len(kinds) + 1}
      BY <1>2, <1>8 DEF ReplaceActions, OfKind
    <3> QED
      BY <3>1, <3>2 DEF Records
  <2>2. UNCHANGED <<back, node, flushNext, flushed, stored, streamTop, saved, row>>
        /\ pc' = "node"
    BY <1>8 DEF ReplaceActions, Store, Tables
  <2> QED
    BY <1>2, <1>3, <1>4, <2>1, <2>2
<1>9. CASE FlushStage \/ EndNode
  BY <1>2, <1>3, <1>4, <1>9 DEF FlushStage, EndNode, Store, Tables, InNode
<1>10. CASE WriteLog
  <2>1. row' \in Row /\ row'.log.lists \subseteq Records'
    <3>1. held \in SUBSET Records
      BY <1>2
    <3>2. \E s \in RowStatus : row' = Written(s, held)
      BY <1>2, <1>10 DEF WriteLog, RowStatus, Statuses
    <3> QED
      BY <1>4, <3>1, <3>2, WrittenType
  <2>2. UNCHANGED <<kinds, held, flushNext, flushed, stored, streamTop>>
        /\ pc' = "read" /\ node' = node + 1 /\ back' = After
        /\ saved' \in {saved, DOMAIN stored}
    BY <1>10 DEF WriteLog, Tables
  <2> QED
    BY <1>2, <1>3, <1>4, <2>1, <2>2 DEF After
<1>11. CASE SkipLog
  BY <1>2, <1>3, <1>4, <1>11 DEF SkipLog, Store, Tables, After
<1>12. CASE Abort
  <2>1. row' \in Row /\ row'.log.lists \subseteq Records'
    <3>1. row.log.lists \in SUBSET Records
      BY <1>2
    <3>2. row' = row \/ \E s \in RowStatus : row' = Written(s, row.log.lists)
      BY <1>2, <1>12 DEF Abort, RowStatus, Statuses
    <3> QED
      BY <1>2, <1>4, <3>1, <3>2, WrittenType
  <2> QED
    BY <1>2, <1>3, <1>4, <1>12, <2>1 DEF Abort, Store, Tables
<1>13. CASE FlushRead
  <2>1. NextSequence \in Nat
    BY NextAbove
  <2> QED
    BY <1>2, <1>3, <1>4, <1>13, <2>1 DEF FlushRead
<1>14. CASE FlushCommit
  <2>1. /\ DOMAIN Flushed = DOMAIN stored \cup held
        /\ Flushed \in [DOMAIN stored \cup held -> Nat]
        /\ \E b \in Nat : \A r \in DOMAIN Flushed : Flushed[r] <= b
    BY FlushedIs
  <2>2. stored' = Flushed /\ flushNext' = 0 /\ flushed' \in BOOLEAN /\ pc' = back
        /\ back' = "plan" /\ UNCHANGED <<node, kinds, held, saved, streamTop, row>>
    BY <1>14 DEF FlushCommit
  <2> HIDE DEF Flushed
  <2> QED
    BY <1>2, <1>4, <2>1, <2>2
<1>15. CASE FlushFail
  BY <1>2, <1>3, <1>4, <1>15 DEF FlushFail
<1> QED
  BY <1>7, <1>8, <1>9, <1>10, <1>11, <1>12, <1>13, <1>14, <1>15 DEF Execute

(* Cancelling and deleting keep the types.                                 *)
LEMMA ApiType == TInv /\ (Cancel \/ Delete) => TInv'
<1> SUFFICES ASSUME TInv, Cancel \/ Delete PROVE TInv'
  OBVIOUS
<1>1. UNCHANGED <<pc, back, node, kinds, held, flushNext, flushed, saved, stored,
                  streamTop, clients>>
  BY DEF Cancel, Delete, Executor, Outside
<1>2. row.log.lists \in SUBSET Records
  BY DEF TInv, TypeOK
<1>3. row' \in Row /\ row'.log.lists \subseteq Records
  <2>1. CASE Cancel
    BY <1>2, <2>1, WrittenType DEF Cancel, RowStatus, Statuses
  <2>2. CASE Delete
    BY <2>2 DEF Delete, Row, RowStatus, Log, NoLog
  <2> QED
    BY <2>1, <2>2
<1>4. row'.status \in Statuses \cup {"none"} /\ row'.log.version \in Nat
  BY <1>3 DEF Row, RowStatus, Log
<1> QED
  BY <1>1, <1>3, <1>4 DEF TInv, TypeOK, Records, OfKind

(* The maximum of a stream that grew.                                      *)
LEMMA EmitsType ==
  ASSUME NEW a \in Nat, NEW b \in Nat
  PROVE  MaxOf({a, b}) \in Nat /\ a <= MaxOf({a, b}) /\ b <= MaxOf({a, b})
<1>1. {a, b} \in SUBSET Nat /\ {a, b} # {} /\ a + b \in Nat /\ \A x \in {a, b} : x <= a + b
  OBVIOUS
<1>2. MaxOf({a, b}) \in {a, b} /\ \A x \in {a, b} : x <= MaxOf({a, b})
  BY <1>1, MaxIs
<1> QED
  BY <1>2

(* A connection, field by field.                                           *)
LEMMA ConnectionIs ==
  ASSUME TInv, NEW c \in Clients
  PROVE  /\ clients[c] \in Connection
         /\ clients[c].next \in Nat /\ clients[c].now \in Row
         /\ clients[c].now.log.lists \subseteq Records
         /\ \A k \in Kinds : /\ clients[c].detail[k] \subseteq OfKind(Records, k)
                             /\ clients[c].shown[k] \subseteq OfKind(Records, k)
  BY DEF TInv, TypeOK, Connection

(* What a connection starts and ends with.                                 *)
LEMMA IdleType ==
  /\ Idle \in Connection /\ NoDetail \in Detail /\ \A k \in Kinds : NoDetail[k] = {}
  /\ \A cl \in Connection : Close(cl) \in Connection
<1>1. NoDetail \in Detail /\ \A k \in Kinds : NoDetail[k] = {}
  BY DEF NoDetail, Detail
<1>2. Idle \in Connection
  BY <1>1, SelectsAre DEF Idle, Connection, NoLog, Row, RowStatus, Log
<1>3. ASSUME NEW cl \in Connection PROVE Close(cl) \in Connection
  BY <1>2 DEF Close, Connection
<1> QED
  BY <1>1, <1>2, <1>3

(* A connection's steps keep the types.                                    *)
LEMMA StreamType ==
  ASSUME TInv, NEW c \in Clients, Connect(c) \/ Stream(c)
  PROVE  TInv'
<1> DEFINE cl == clients[c]
<1>1. /\ cl \in Connection /\ cl.next \in Nat /\ cl.now \in Row
      /\ cl.now.log.lists \subseteq Records
      /\ \A k \in Kinds : cl.detail[k] \subseteq OfKind(Records, k)
                          /\ cl.shown[k] \subseteq OfKind(Records, k)
  BY ConnectionIs
<1>2. row \in Row /\ row.status \in RowStatus /\ row.log.lists \subseteq Records
      /\ row.log.version \in Nat /\ streamTop \in Nat
  BY DEF TInv, TypeOK, RowStatus
<1>3. CASE Connect(c)
  <2>1. PICK n \in {1, NextSequence} : Moves(c, [cl EXCEPT !.pc = "poll", !.next = n])
    BY <1>3 DEF Connect
  <2>2. n \in Nat
    BY NextAbove
  <2>3. [cl EXCEPT !.pc = "poll", !.next = n] \in Connection
    BY <1>1, <2>2 DEF Connection
  <2>4. streamTop' \in Nat
    BY <1>2, <1>3 DEF Connect
  <2>5. /\ [cl EXCEPT !.pc = "poll", !.next = n].detail = cl.detail
        /\ [cl EXCEPT !.pc = "poll", !.next = n].shown = cl.shown
        /\ [cl EXCEPT !.pc = "poll", !.next = n].now = cl.now
    BY <1>1 DEF Connection
  <2> QED
    BY <1>1, <2>1, <2>3, <2>4, <2>5, ClientType
<1>4. CASE Poll(c)
  <2> DEFINE changed == row.status # cl.seen.status
             ver == row.log.version # cl.seen.version
             after == [cl EXCEPT !.pc = IF ver THEN "select" ELSE "end",
                                 !.now = row, !.seen.status = row.status,
                                 !.next = IF changed THEN @ + 1 ELSE @]
  <2>1. Moves(c, after)
    BY <1>4 DEF Poll
  <2>2. after \in Connection /\ after.detail = cl.detail /\ after.shown = cl.shown
        /\ after.now = row
    <3>1. changed \in BOOLEAN /\ ver \in BOOLEAN
      OBVIOUS
    <3>2. cl.seen \in [status : RowStatus, version : Nat]
      BY <1>1 DEF Connection
    <3>3. [cl.seen EXCEPT !.status = row.status] \in [status : RowStatus, version : Nat]
      BY <1>2, <3>2
    <3>4. (IF ver THEN "select" ELSE "end") \in {"select", "end"}
          /\ (IF changed THEN cl.next + 1 ELSE cl.next) \in Nat
      BY <1>1
    <3> HIDE DEF changed, ver, cl
    <3>5. after \in Connection
      <4> DEFINE p == IF ver THEN "select" ELSE "end"
                 n == IF changed THEN cl.next + 1 ELSE cl.next
                 s == [cl.seen EXCEPT !.status = row.status]
      <4>1. after = [cl EXCEPT !.pc = p, !.now = row, !.seen = s, !.next = n]
        BY <1>1 DEF Connection
      <4>2. p \in {"select", "end"} /\ n \in Nat /\ s \in [status : RowStatus, version : Nat]
        BY <3>3, <3>4
      <4> HIDE DEF p, n, s, after
      <4> QED
        BY <1>1, <1>2, <4>1, <4>2 DEF Connection
    <3> QED
      BY <1>1, <3>5 DEF Connection
  <2>3. streamTop' \in Nat
    <3>1. streamTop' = streamTop \/ Emits(c, 1)
      BY <1>4 DEF Poll
    <3>2. cl.next + 1 - 1 \in Nat
      BY <1>1
    <3> QED
      BY <1>2, <3>1, <3>2, EmitsType DEF Emits
  <2> HIDE DEF after
  <2> QED
    BY <1>1, <1>2, <2>1, <2>2, <2>3, ClientType
<1>5. CASE RowGone(c)
  <2>1. Moves(c, Close(cl)) /\ streamTop' = streamTop
    BY <1>5 DEF RowGone
  <2>2. Close(cl) \in Connection
    BY <1>1, IdleType
  <2>3. Close(cl).detail = NoDetail /\ Close(cl).shown = cl.shown /\ Close(cl).now.log.lists = {}
    BY <1>1 DEF Close, Idle, NoLog
  <2> QED
    BY <1>1, <1>2, <2>1, <2>2, <2>3, IdleType, ClientType
<1>6. CASE SelectTable(c)
  <2> DEFINE k == Selected(cl.select)
             after == [cl EXCEPT !.select = @ + 1, !.detail[k] = OfKind(DOMAIN stored, k)]
  <2>1. Moves(c, after) /\ streamTop' = streamTop /\ cl.select \in 1 .. 5
    BY <1>1, <1>6, SelectsAre DEF SelectTable, Connection
  <2>2. k \in Kinds
    BY <2>1, SelectsAre, KindsAre DEF Selected
  <2>3. OfKind(DOMAIN stored, k) \subseteq OfKind(Records, k) /\ Records \subseteq Nat
    BY DEF TInv, TypeOK, OfKind, Records
  <2>4. OfKind(DOMAIN stored, k) \subseteq Nat
    BY <2>3 DEF OfKind
  <2> HIDE DEF k
  <2>5. /\ after \in Connection /\ after.shown = cl.shown /\ after.now = cl.now
        /\ after.detail = [cl.detail EXCEPT ![k] = OfKind(DOMAIN stored, k)]
    <3>1. cl.detail \in [Kinds -> SUBSET Nat] /\ cl.select + 1 \in 1 .. 6
      BY <1>1, <2>1 DEF Connection, Detail
    <3>2. [cl.detail EXCEPT ![k] = OfKind(DOMAIN stored, k)] \in [Kinds -> SUBSET Nat]
      BY <2>2, <2>4, <3>1
    <3> HIDE DEF cl
    <3> QED
      BY <1>1, <3>1, <3>2 DEF Connection, Detail
  <2>6. cl.detail \in Detail
    BY <1>1 DEF Connection
  <2>7. \A j \in Kinds : after.detail[j] \subseteq OfKind(Records, j)
    BY <1>1, <2>2, <2>3, <2>5, <2>6 DEF Detail
  <2> HIDE DEF after
  <2> QED
    BY <1>1, <1>2, <2>1, <2>5, <2>7, ClientType
<1>7. CASE ShowLog(c)
  <2> DEFINE show == Merged(cl.now.log.lists, cl.detail)
             after == [cl EXCEPT !.pc = "end", !.select = 1, !.detail = NoDetail,
                                 !.shown = show, !.seen.version = cl.now.log.version,
                                 !.next = @ + 3]
  <2>1. Moves(c, after) /\ Emits(c, 3)
    BY <1>7 DEF ShowLog
  <2>2. \A k \in Kinds : show[k] \subseteq OfKind(Records, k)
    BY <1>1 DEF Merged, OfKind
  <2>3. show \in Detail
    BY <2>2 DEF Merged, Detail, OfKind, Records
  <2>4. after \in Connection /\ after.detail = NoDetail /\ after.shown = show
        /\ after.now = cl.now
    <3>1. cl.now.log.version \in Nat /\ cl.next + 3 \in Nat
      BY <1>1 DEF Row, Log
    <3>2. cl.seen \in [status : RowStatus, version : Nat]
      BY <1>1 DEF Connection
    <3>3. [cl.seen EXCEPT !.version = cl.now.log.version]
            \in [status : RowStatus, version : Nat]
      BY <3>1, <3>2
    <3> DEFINE s == [cl.seen EXCEPT !.version = cl.now.log.version]
    <3> HIDE DEF show, cl
    <3>4. after = [cl EXCEPT !.pc = "end", !.select = 1, !.detail = NoDetail,
                             !.shown = show, !.seen = s, !.next = cl.next + 3]
      BY <1>1 DEF Connection
    <3>5. s \in [status : RowStatus, version : Nat]
      BY <3>3
    <3>6. NoDetail \in Detail /\ cl \in Connection /\ cl.now \in Row /\ 1 \in 1 .. 6
      BY <1>1, IdleType
    <3> HIDE DEF s, after
    <3>7. after \in Connection
      BY <2>3, <3>1, <3>4, <3>5, <3>6 DEF Connection
    <3>8. after.detail = NoDetail /\ after.shown = show /\ after.now = cl.now
      BY <3>4, <3>6 DEF Connection
    <3> QED
      BY <3>7, <3>8
  <2>5. streamTop' \in Nat
    <3>1. cl.next + 3 - 1 \in Nat
      BY <1>1
    <3> QED
      BY <1>2, <2>1, <3>1, EmitsType DEF Emits
  <2> HIDE DEF after, show
  <2> QED
    BY <1>1, <1>2, <2>1, <2>2, <2>4, <2>5, IdleType, ClientType
<1>8. CASE Rest(c)
  <2>1. CASE cl.now.status \in Terminal
    <3>1. Moves(c, Close(cl)) /\ Emits(c, 1)
      BY <1>8, <2>1 DEF Rest
    <3>2. Close(cl) \in Connection
      BY <1>1, IdleType
    <3>3. Close(cl).detail = NoDetail /\ Close(cl).shown = cl.shown
          /\ Close(cl).now.log.lists = {}
      BY <1>1 DEF Close, Idle, NoLog
    <3>4. streamTop' \in Nat
      <4>1. cl.next + 1 - 1 \in Nat
        BY <1>1
      <4> QED
        BY <1>2, <3>1, <4>1, EmitsType DEF Emits
    <3> QED
      BY <1>1, <1>2, <3>1, <3>2, <3>3, <3>4, IdleType, ClientType
  <2>2. CASE cl.now.status \notin Terminal
    <3> DEFINE after == [cl EXCEPT !.pc = "poll", !.now = Idle.now]
    <3>1. Moves(c, after) /\ streamTop' = streamTop
      BY <1>8, <2>2 DEF Rest
    <3>2. Idle.now \in Row /\ Idle.now.log.lists = {}
      BY DEF Idle, Row, NoLog, Log, RowStatus
    <3>3. after \in Connection /\ after.detail = cl.detail /\ after.shown = cl.shown
          /\ after.now = Idle.now
      BY <1>1, <3>2 DEF Connection
    <3> HIDE DEF after
    <3> QED
      BY <1>1, <1>2, <3>1, <3>2, <3>3, ClientType
  <2> QED
    BY <2>1, <2>2
<1> QED
  BY <1>3, <1>4, <1>5, <1>6, <1>7, <1>8 DEF Stream

(* The types are inductive.                                                *)
LEMMA TypeInit == Init => TInv
<1> SUFFICES ASSUME Init PROVE TInv
  OBVIOUS
<1>1. kinds \in Seq(Kinds) /\ Len(kinds) = 0
  BY DEF Init
<1>2. Idle.pc = "off" /\ Idle.next = 0 /\ Idle.select = 1 /\ Idle.now.log.lists = {}
      /\ Idle.detail = NoDetail /\ Idle.shown = NoDetail
  BY DEF Idle, NoLog
<1>3. row \in Row /\ row.status = "running" /\ row.log.version = 0 /\ row.log.lists = {}
  BY DEF Init, Row, RowStatus, Statuses, Log, NoLog
<1>4. DOMAIN stored = {} /\ stored \in [DOMAIN stored -> Nat] /\ 0 \in Nat
  BY DEF Init
<1>5. /\ clients \in [Clients -> Connection]
      /\ \A c \in Clients : clients[c] = Idle
  BY IdleType DEF Init
<1>6. \A c \in Clients :
       /\ clients[c].now.log.lists \subseteq Records
       /\ clients[c].pc \in {"off", "poll", "select", "end", "closed"}
       /\ clients[c].next \in Nat
       /\ clients[c].select \in 1 .. Len(Selects) + 1
       /\ \A k \in Kinds :
            clients[c].detail[k] \cup clients[c].shown[k] \subseteq OfKind(Records, k)
  BY <1>2, <1>5, IdleType, SelectsAre
<1>7. \A r \in DOMAIN stored : stored[r] <= 0
  BY <1>4
<1>8. /\ pc = "plan" /\ back = "plan" /\ node = 1 /\ held = {} /\ flushNext = 0
      /\ flushed = FALSE /\ saved = {} /\ streamTop = 0
  BY DEF Init
<1> HIDE DEF Init
<1> QED
  BY <1>1, <1>3, <1>4, <1>5, <1>6, <1>7, <1>8 DEF TInv, TypeOK, Statuses

LEMMA TypeInductive == TInv /\ [Next]_vars => TInv'
<1> SUFFICES ASSUME TInv, [Next]_vars PROVE TInv'
  OBVIOUS
<1>1. CASE Execute
  BY <1>1, ExecutorType
<1>2. CASE Cancel \/ Delete
  BY <1>2, ApiType
<1>3. ASSUME NEW c \in Clients, Connect(c) \/ Stream(c) PROVE TInv'
  BY <1>3, StreamType
<1>4. CASE UNCHANGED vars
  BY <1>4 DEF vars, TInv, TypeOK, Records, OfKind
<1> QED
  BY <1>1, <1>2, <1>3, <1>4 DEF Next

(* Records, tables, log and connections keep to their types.               *)
THEOREM TypeCorrect == Spec => []TypeOK
<1>1. TInv => TypeOK
  BY DEF TInv
<1> QED
  BY <1>1, TypeInit, TypeInductive, PTL DEF Spec

----------------------------------------------------------------------------
(* The journal *)

(* The order of a flush is a strict total order of the records.            *)
LEMMA BeforeOrders ==
  ASSUME TInv, NEW q \in Records, NEW r \in Records
  PROVE  /\ ~ Before(r, r)
         /\ q # r => Before(q, r) \/ Before(r, q)
         /\ Before(q, r) => ~ Before(r, q)
         /\ \A s \in Records : Before(s, q) /\ Before(q, r) => Before(s, r)
<1>1. kinds \in Seq(Kinds) /\ Len(kinds) \in Nat
  BY LenProperties DEF TInv, TypeOK
<1>2. \A x \in Records : x \in Nat /\ kinds[x] \in Kinds
  BY <1>1, ElementOfSeq DEF Records
<1>3. \A k \in Kinds : Rank(k) \in Nat
  BY KindsAre, RanksAre
<1>4. \A j, k \in Kinds : Rank(j) = Rank(k) => j = k
  BY KindsAre, RanksAre
<1> QED
  BY <1>2, <1>3, <1>4 DEF Before

(* Hence no two records have the same position.                            *)
LEMMA PositionsDiffer ==
  ASSUME TInv, NEW new, new = held \ DOMAIN stored,
         NEW q \in new, NEW r \in new, Before(q, r)
  PROVE  Position(q, new) < Position(r, new)
<1> DEFINE Q == {s \in new : Before(s, q)}
           R == {s \in new : Before(s, r)}
<1>1. new \subseteq Records
  BY DEF TInv, TypeOK
<1>2. Q \in SUBSET R /\ q \in R /\ q \notin Q
  BY <1>1, BeforeOrders
<1>3. IsFiniteSet(new) /\ R \in SUBSET new
  BY PositionIs
<1> HIDE DEF Q, R
<1>4. IsFiniteSet(R)
  BY <1>3, FS_Subset
<1>5. /\ IsFiniteSet(Q)
      /\ Cardinality(Q) <= Cardinality(R)
      /\ Cardinality(R) = Cardinality(Q) => R = Q
  BY <1>2, <1>4, FS_Subset
<1>6. Cardinality(Q) \in Nat /\ Cardinality(R) \in Nat
  BY <1>4, <1>5, FS_CardinalityType
<1>7. Cardinality(Q) < Cardinality(R)
  BY <1>2, <1>5, <1>6
<1> QED
  BY <1>7 DEF Position, Q, R

(* What a flush has read stays above everything stored until it commits:   *)
(* only the executor stores records, and it is waiting.                    *)
ReadAbove == pc = "write" => \A r \in DOMAIN stored : stored[r] < flushNext

LEMMA ReadInductive == TInv /\ ReadAbove /\ [Next]_vars => ReadAbove'
<1> SUFFICES ASSUME TInv, ReadAbove, [Next]_vars PROVE ReadAbove'
  OBVIOUS
<1>1. CASE FlushRead
  BY <1>1, NextAbove DEF FlushRead, ReadAbove
<1>2. CASE CallTool \/ ReplaceActions \/ FlushStage \/ EndNode \/ WriteLog \/ Abort
  BY <1>2 DEF CallTool, ReplaceActions, FlushStage, EndNode, WriteLog, Abort, ReadAbove
<1>3. CASE SkipLog \/ FlushCommit \/ FlushFail
  <2>1. pc' \in {"plan", "log", "done"}
    BY <1>3 DEF SkipLog, FlushCommit, FlushFail, After, TInv, TypeOK
  <2> QED
    BY <2>1 DEF ReadAbove
<1>4. CASE UNCHANGED <<pc, stored, flushNext>>
  BY <1>4 DEF ReadAbove
<1>5. Cancel \/ Delete \/ UNCHANGED vars => UNCHANGED <<pc, stored, flushNext>>
  BY DEF Cancel, Delete, Executor, vars
<1>6. ASSUME NEW c \in Clients, Connect(c) \/ Stream(c)
      PROVE  UNCHANGED <<pc, stored, flushNext>>
  BY <1>6 DEF Connect, Stream, Poll, RowGone, SelectTable, ShowLog, Rest, Moves, Executor
<1> QED
  BY <1>1, <1>2, <1>3, <1>4, <1>5, <1>6 DEF Next, Execute

(* A flush appends to the journal.                                         *)
LEMMA FlushAppends ==
  ASSUME TInv, ReadAbove, FlushCommit
  PROVE  Journal!Append
<1> DEFINE new == held \ DOMAIN stored
<1>1. stored' = Flushed /\ pc = "write"
  BY DEF FlushCommit
<1>2. /\ DOMAIN stored' = DOMAIN stored \cup new
      /\ \A r \in new : stored'[r] = flushNext + Position(r, new)
      /\ \A r \in DOMAIN stored : stored'[r] = stored[r]
  BY <1>1 DEF Flushed
<1>3. \A r \in new : Position(r, new) \in Nat
  BY PositionIs
<1>4. flushNext \in Nat /\ \A r \in DOMAIN stored : stored[r] \in Nat
  BY DEF TInv, TypeOK
<1>5. \A r \in DOMAIN stored : stored[r] < flushNext
  BY <1>1 DEF ReadAbove
<1>6. \A q, r \in new : q # r => Position(q, new) # Position(r, new)
  <2> SUFFICES ASSUME NEW q \in new, NEW r \in new, q # r
               PROVE  Position(q, new) # Position(r, new)
    OBVIOUS
  <2>1. Before(q, r) \/ Before(r, q)
    BY BeforeOrders DEF TInv, TypeOK
  <2> QED
    BY <1>3, <2>1, PositionsDiffer
<1>7. DOMAIN stored' \ DOMAIN stored = new
  BY <1>2
<1> HIDE DEF new
<1>8. \A r \in new, q \in DOMAIN stored : stored[q] < stored'[r]
  BY <1>2, <1>3, <1>4, <1>5
<1>9. \A r \in new, q \in DOMAIN stored' : r # q => stored'[q] # stored'[r]
  <2> SUFFICES ASSUME NEW r \in new, NEW q \in DOMAIN stored', r # q
               PROVE  stored'[q] # stored'[r]
    OBVIOUS
  <2>1. CASE q \in new
    BY <1>2, <1>3, <1>4, <1>6, <2>1
  <2>2. CASE q \in DOMAIN stored
    BY <1>2, <1>4, <1>8, <2>2
  <2> QED
    BY <1>2, <2>1, <2>2
<1> QED
  BY <1>2, <1>7, <1>8, <1>9 DEF Journal!Append, Journal!Extends

(* The tables of a run are a journal: a record gets its sequence once, of  *)
(* its own and above all that were there, whatever the connections number  *)
(* meanwhile.                                                              *)
THEOREM TablesAreAJournal == Spec => ImplementsJournal
<1>1. Init => Journal!Init /\ TInv /\ ReadAbove
  BY TypeInit DEF Init, Journal!Init, Journal!Empty, ReadAbove
<1>2. TInv /\ ReadAbove /\ [Next]_vars => [Journal!Append]_stored
  <2> SUFFICES ASSUME TInv, ReadAbove, [Next]_vars
               PROVE  Journal!Append \/ UNCHANGED stored
    OBVIOUS
  <2>1. Execute => FlushCommit \/ UNCHANGED stored
    BY DEF Execute, CallTool, ReplaceActions, FlushStage, EndNode, WriteLog, SkipLog,
           Abort, FlushRead, FlushFail, Store, Tables
  <2>2. Cancel \/ Delete \/ UNCHANGED vars => UNCHANGED stored
    BY DEF Cancel, Delete, Executor, vars
  <2>3. ASSUME NEW c \in Clients, Connect(c) \/ Stream(c) PROVE UNCHANGED stored
    BY <2>3 DEF Connect, Stream, Poll, RowGone, SelectTable, ShowLog, Rest, Moves, Executor
  <2> QED
    BY <2>1, <2>2, <2>3, FlushAppends DEF Next
<1>3. TInv /\ ReadAbove /\ [Next]_vars => TInv' /\ ReadAbove'
  BY TypeInductive, ReadInductive
<1> QED
  BY <1>1, <1>2, <1>3, PTL DEF Spec, ImplementsJournal, Journal!Spec

----------------------------------------------------------------------------
(* Nothing is lost *)

(* The records of a kind that are younger than r.                          *)
Younger(r) == {q \in OfKind(Records, kinds[r]) : q > r}

(* What a list of the state does not hold any more, it gave up: an action  *)
(* for a later plan, any other record for MaxRecords younger ones.         *)
GivenUp == \A r \in Records \ held : kinds[r] = "action" \/ Cardinality(Younger(r)) >= MaxRecords

(* The last flush leaves nothing behind.                                   *)
AllFlushed == flushed => pc = "done" /\ held \subseteq DOMAIN stored

(* There are finitely many records, and so of any part of them.            *)
LEMMA RecordsFinite ==
  ASSUME kinds \in Seq(Kinds), NEW S \in SUBSET Records
  PROVE  IsFiniteSet(S) /\ Cardinality(S) \in Nat
<1>1. IsFiniteSet(Records)
  BY LenProperties, FS_Interval DEF Records
<1>2. IsFiniteSet(S)
  BY <1>1, FS_Subset
<1> QED
  BY <1>2, FS_CardinalityType

(* A record is never followed by fewer of its kind than before.            *)
LEMMA YoungerGrows ==
  ASSUME TInv, [Next]_vars, NEW r \in Records
  PROVE  /\ Cardinality(Younger(r)) \in Nat /\ Cardinality(Younger(r)') \in Nat
         /\ Cardinality(Younger(r)) <= Cardinality(Younger(r)')
<1>1. kinds \in Seq(Kinds)
  BY DEF TInv, TypeOK
<1>2. /\ kinds' \in Seq(Kinds) /\ Records \subseteq Records'
      /\ \A q \in Records : kinds'[q] = kinds[q]
  BY <1>1, Grows
<1>3. Younger(r) \in SUBSET Records /\ Younger(r)' \in SUBSET Records'
      /\ Younger(r) \in SUBSET (Younger(r)')
  BY <1>2 DEF Younger, OfKind
<1>4. kinds' \in Seq(Kinds) => IsFiniteSet(Younger(r)') /\ Cardinality(Younger(r)') \in Nat
  <2>1. kinds' \in Seq(Kinds) => IsFiniteSet(Records')
    BY <1>2, LenProperties, FS_Interval DEF Records
  <2> QED
    BY <1>2, <1>3, <2>1, FS_Subset, FS_CardinalityType
<1>5. Cardinality(Younger(r)) <= Cardinality(Younger(r)')
  BY <1>2, <1>3, <1>4, FS_Subset
<1> QED
  BY <1>1, <1>2, <1>3, <1>4, <1>5, RecordsFinite

LEMMA GivenUpInductive == TInv /\ GivenUp /\ [Next]_vars => GivenUp'
<1> SUFFICES ASSUME TInv, GivenUp, [Next]_vars, NEW r \in Records' \ held'
             PROVE  kinds'[r] = "action" \/ Cardinality(Younger(r)') >= MaxRecords
  BY DEF GivenUp
<1> USE MaxRecordsAssumption
<1>1. /\ kinds \in Seq(Kinds) /\ kinds' \in Seq(Kinds) /\ Records \subseteq Records'
      /\ \A q \in Records : kinds'[q] = kinds[q]
  BY Grows DEF TInv, TypeOK
<1>2. CASE r \in Records \ held
  BY <1>1, <1>2, YoungerGrows DEF GivenUp
<1>3. CASE CallTool /\ r \notin Records \ held
  <2> DEFINE S == held \cup {Len(kinds) + 1, Len(kinds) + 2, Len(kinds) + 3, Len(kinds) + 4}
             T == {q \in S : kinds'[q] = kinds'[r] /\ q > r}
  <2>1. Len(kinds) \in Nat /\ Len(kinds') = Len(kinds) + 4 /\ held' = Trimmed(S)
    BY <1>1, <1>3, CallGrows
  <2>2. r \in S /\ S \subseteq Records'
    <3>1. Records' = Records \cup {Len(kinds) + 1, Len(kinds) + 2, Len(kinds) + 3,
                                    Len(kinds) + 4}
      BY <2>1 DEF Records
    <3>2. held \subseteq Records
      BY DEF TInv, TypeOK
    <3> QED
      BY <1>3, <3>1, <3>2
  <2>3. kinds'[r] = "action" \/ ~ (Cardinality(T) < MaxRecords)
    BY <2>1, <2>2 DEF Trimmed
  <2>4. T \in SUBSET (Younger(r)') /\ Younger(r)' \in SUBSET Records'
    BY <2>2 DEF Younger, OfKind
  <2> HIDE DEF T
  <2>5. IsFiniteSet(Records')
    BY <1>1, LenProperties, FS_Interval DEF Records
  <2>6. IsFiniteSet(Younger(r)')
    BY <2>4, <2>5, FS_Subset
  <2>7. IsFiniteSet(T) /\ Cardinality(T) <= Cardinality(Younger(r)')
    BY <2>4, <2>6, FS_Subset
  <2>8. Cardinality(T) \in Nat /\ Cardinality(Younger(r)') \in Nat
    BY <2>6, <2>7, FS_CardinalityType
  <2> QED
    BY <2>3, <2>7, <2>8
<1>4. CASE ReplaceActions /\ r \notin Records \ held
  <2>1. /\ Len(kinds) \in Nat /\ Len(kinds') = Len(kinds) + 1
        /\ kinds'[Len(kinds) + 1] = "action"
    BY <1>1, <1>4, PlanGrows
  <2>2. held \ OfKind(Records, "action") \subseteq held' /\ Len(kinds) + 1 \in held'
    BY <1>4 DEF ReplaceActions
  <2>3. r \in held
    BY <1>4, <2>1, <2>2 DEF Records
  <2> QED
    BY <1>1, <2>2, <2>3 DEF OfKind, TInv, TypeOK
<1>5. CASE UNCHANGED <<kinds, held>>
  BY <1>2, <1>5 DEF Records
<1>6. CallTool \/ ReplaceActions \/ UNCHANGED <<kinds, held>>
  <2>1. Execute => CallTool \/ ReplaceActions \/ UNCHANGED <<kinds, held>>
    BY DEF Execute, FlushStage, EndNode, WriteLog, SkipLog, Abort, FlushRead,
           FlushCommit, FlushFail
  <2>2. Cancel \/ Delete \/ UNCHANGED vars => UNCHANGED <<kinds, held>>
    BY DEF Cancel, Delete, Executor, vars
  <2>3. ASSUME NEW c \in Clients, Connect(c) \/ Stream(c) PROVE UNCHANGED <<kinds, held>>
    BY <2>3 DEF Connect, Stream, Poll, RowGone, SelectTable, ShowLog, Rest, Moves, Executor
  <2> QED
    BY <2>1, <2>2, <2>3 DEF Next
<1> QED
  BY <1>2, <1>3, <1>4, <1>5, <1>6

LEMMA AllFlushedInductive == TInv /\ AllFlushed /\ [Next]_vars => AllFlushed'
<1> SUFFICES ASSUME TInv, AllFlushed, [Next]_vars PROVE AllFlushed'
  OBVIOUS
<1>1. CASE FlushCommit
  <2>1. DOMAIN Flushed = DOMAIN stored \cup held
    BY DEF Flushed
  <2> QED
    BY <1>1, <2>1 DEF FlushCommit, AllFlushed
<1>2. CASE pc # "done" /\ flushed' = flushed
  BY <1>2 DEF AllFlushed
<1>3. CASE UNCHANGED <<pc, held, stored, flushed>>
  BY <1>3 DEF AllFlushed
<1>4. Execute => FlushCommit \/ (pc # "done" /\ flushed' = flushed)
  BY DEF Execute, CallTool, ReplaceActions, FlushStage, EndNode, WriteLog, SkipLog,
         Abort, FlushRead, FlushFail, Store, Tables, InNode
<1>5. Cancel \/ Delete \/ UNCHANGED vars => UNCHANGED <<pc, held, stored, flushed>>
  BY DEF Cancel, Delete, Executor, vars
<1>6. ASSUME NEW c \in Clients, Connect(c) \/ Stream(c)
      PROVE  UNCHANGED <<pc, held, stored, flushed>>
  BY <1>6 DEF Connect, Stream, Poll, RowGone, SelectTable, ShowLog, Rest, Moves, Executor
<1> QED
  BY <1>1, <1>2, <1>3, <1>4, <1>5, <1>6 DEF Next

(* After the last flush a record is in the tables, or it had to make way.  *)
LEMMA LostIsGivenUp == TInv /\ GivenUp /\ AllFlushed => NothingLost
<1> SUFFICES ASSUME GivenUp, AllFlushed, flushed, NEW r \in Records \ DOMAIN stored
             PROVE  \/ kinds[r] = "action"
                    \/ Cardinality({q \in OfKind(Records, kinds[r]) : q > r}) >= MaxRecords
  BY DEF NothingLost
<1> QED
  BY DEF GivenUp, AllFlushed, Younger

----------------------------------------------------------------------------
(* What a connection is shown *)

(* The run's end: its verdict is written and only the last flush is left.  *)
Over == pc = "done" \/ (pc \in {"read", "write"} /\ back = "done")

(* An observation's call is two before it, and no call is without one.     *)
CallsLeaveThree ==
  /\ \A o \in Records : kinds[o] = "observation" =>
       /\ o - 2 \in Records /\ kinds[o - 2] = "tool_call"
       /\ o - 1 \in Records /\ kinds[o - 1] = "evidence"
  /\ \A t \in Records : kinds[t] = "tool_call" =>
       t + 2 \in Records /\ kinds[t + 2] = "observation"

(* A set of records holds an observation just when it holds its call.      *)
Paired(S) == \A o \in Records : kinds[o] = "observation" => (o \in S <=> o - 2 \in S)

(* The lists, their copies and the tables are such sets.                   *)
AllPaired ==
  /\ Paired(held) /\ Paired(DOMAIN stored) /\ Paired(row.log.lists)
  /\ \A c \in Clients : Paired(clients[c].now.log.lists)

(* What a connection knows of the run: it is never ahead of the log, and   *)
(* behind it when the run has finished since.                              *)
Behind(cl) ==
  /\ cl.pc # "select" => cl.select = 1
  /\ cl.pc \in {"off", "poll"} => cl.seen.status # "finished"
  /\ cl.pc \in {"select", "end"} => cl.seen.status = cl.now.status
  /\ cl.pc = "end" => cl.seen.version = cl.now.log.version
  /\ cl.seen.status = "finished" => Over
  /\ row.status # "none" =>
       /\ cl.seen.version <= row.log.version
       /\ cl.pc \in {"select", "end"} => cl.now.log.version <= row.log.version
  /\ row.status = "finished" =>
       /\ cl.pc \in {"off", "poll"} => cl.seen.version < row.log.version
       /\ cl.pc \in {"select", "end"} /\ cl.now.status # "finished"
            => cl.now.log.version < row.log.version

(* What it has selected and shown once it saw the run finish.              *)
Complete(cl) ==
  /\ cl.pc = "select" /\ cl.now.status = "finished"
       => \A i \in 1 .. 5 : i < cl.select
            => OfKind(saved, Selects[i]) \subseteq cl.detail[Selects[i]]
  /\ cl.pc \in {"end", "closed"} /\ cl.seen.status = "finished" /\ held \subseteq saved
       => \A k \in Kinds : OfKind(held, k) \subseteq cl.shown[k]

(* The calls a list refers to are those of the tables as soon as these     *)
(* have any: one flush stores all the lists hold.                          *)
CallsStored == OfKind(DOMAIN stored, "tool_call") # {}

Resolves(cl) ==
  /\ cl.pc = "select" /\ cl.select > 2 /\ cl.detail["observation"] = {}
       => \A t \in OfKind(cl.now.log.lists, "tool_call") :
            t \in held \cup DOMAIN stored /\ CallsStored => t \in DOMAIN stored
  /\ cl.pc = "select" /\ cl.select > 4 /\ cl.detail["observation"] = {}
       => \A t \in OfKind(cl.now.log.lists, "tool_call") :
            t \in held \cup DOMAIN stored /\ cl.detail["tool_call"] # {}
              => t \in cl.detail["tool_call"]
  /\ cl.pc = "select" /\ cl.select > 2
       => \A o \in cl.detail["observation"] : o - 2 \in DOMAIN stored
  /\ cl.pc = "select" /\ cl.select > 4
       => \A o \in cl.detail["observation"] : o - 2 \in cl.detail["tool_call"]
  /\ \A o \in cl.shown["observation"] :
       o - 2 \in held \cup DOMAIN stored => o - 2 \in cl.shown["tool_call"]

FinishedIsOver == row.status = "finished" => Over

ShownInv ==
  /\ CallsLeaveThree /\ AllPaired /\ FinishedIsOver
  /\ \A c \in Clients : Behind(clients[c]) /\ Complete(clients[c]) /\ Resolves(clients[c])

(* What a step does to what was there: the call, the plan, or nothing new. *)
LEMMA ThreeWays ==
  ASSUME [Next]_vars
  PROVE  \/ CallTool
         \/ ReplaceActions
         \/ UNCHANGED <<kinds, held>> /\ (FlushCommit \/ UNCHANGED stored)
<1>1. FlushStage \/ EndNode \/ WriteLog \/ SkipLog \/ Abort \/ FlushRead \/ FlushFail
        => UNCHANGED <<kinds, held>> /\ UNCHANGED stored
  <2>1. FlushStage \/ EndNode \/ WriteLog \/ SkipLog \/ Abort
          => UNCHANGED <<kinds, held>> /\ UNCHANGED stored
    BY DEF FlushStage, EndNode, WriteLog, SkipLog, Abort, Store, Tables
  <2>2. FlushRead \/ FlushFail => UNCHANGED <<kinds, held>> /\ UNCHANGED stored
    BY DEF FlushRead, FlushFail
  <2> QED
    BY <2>1, <2>2
<1>2. FlushCommit => UNCHANGED <<kinds, held>>
  BY DEF FlushCommit
<1>3. Cancel \/ Delete \/ UNCHANGED vars => UNCHANGED <<kinds, held>> /\ UNCHANGED stored
  BY DEF Cancel, Delete, Executor, vars
<1>4. ASSUME NEW c \in Clients, Connect(c) \/ Stream(c)
      PROVE  UNCHANGED <<kinds, held>> /\ UNCHANGED stored
  BY <1>4 DEF Connect, Stream, Poll, RowGone, SelectTable, ShowLog, Rest, Moves, Executor
<1>5. Execute => \/ CallTool \/ ReplaceActions \/ FlushCommit
                 \/ (FlushStage \/ EndNode \/ WriteLog \/ SkipLog \/ Abort
                     \/ FlushRead \/ FlushFail)
  BY DEF Execute
<1> HIDE DEF FlushCommit
<1> QED
  BY <1>1, <1>2, <1>3, <1>4, <1>5 DEF Next

(* A flush stores the lists, nothing else does, and what is in the tables  *)
(* stays there.                                                            *)
LEMMA StoredGrows ==
  ASSUME [Next]_vars
  PROVE  /\ DOMAIN stored \subseteq DOMAIN stored'
         /\ \/ DOMAIN stored' = DOMAIN stored
            \/ DOMAIN stored' = DOMAIN stored \cup held /\ UNCHANGED <<kinds, held>>
<1>1. FlushCommit => DOMAIN stored' = DOMAIN stored \cup held
  BY DEF FlushCommit, Flushed
<1>2. CallTool \/ ReplaceActions => UNCHANGED stored
  BY DEF CallTool, ReplaceActions, Store, Tables
<1> QED
  BY <1>1, <1>2, ThreeWays

(* Each tool call leaves its three records, in their order.                *)
LEMMA CallsInductive == TInv /\ CallsLeaveThree /\ [Next]_vars => CallsLeaveThree'
<1> SUFFICES ASSUME TInv, CallsLeaveThree, [Next]_vars PROVE CallsLeaveThree'
  OBVIOUS
<1>1. kinds \in Seq(Kinds) /\ Len(kinds) \in Nat
  BY LenProperties DEF TInv, TypeOK
<1>2. CASE CallTool
  <2>1. /\ Len(kinds') = Len(kinds) + 4
        /\ \A r \in Records : kinds'[r] = kinds[r]
        /\ kinds'[Len(kinds) + 1] = "tool_call"
        /\ kinds'[Len(kinds) + 2] = "evidence"
        /\ kinds'[Len(kinds) + 3] = "observation"
        /\ kinds'[Len(kinds) + 4] = "evaluation"
    BY <1>1, <1>2, CallGrows
  <2>2. \A r \in Records' : r \in Records \/ r \in {Len(kinds) + 1, Len(kinds) + 2,
                                                    Len(kinds) + 3, Len(kinds) + 4}
    BY <1>1, <2>1 DEF Records
  <2>3. ASSUME NEW o \in Records', kinds'[o] = "observation"
        PROVE  /\ o - 2 \in Records' /\ kinds'[o - 2] = "tool_call"
               /\ o - 1 \in Records' /\ kinds'[o - 1] = "evidence"
    <3>1. CASE o \in Records
      BY <1>1, <2>1, <2>3, <3>1 DEF CallsLeaveThree, Records
    <3>2. CASE o \notin Records
      <4>1. o = Len(kinds) + 3
        BY <2>1, <2>2, <2>3, <3>2
      <4> QED
        BY <1>1, <2>1, <4>1 DEF Records
    <3> QED
      BY <3>1, <3>2
  <2>4. ASSUME NEW t \in Records', kinds'[t] = "tool_call"
        PROVE  t + 2 \in Records' /\ kinds'[t + 2] = "observation"
    <3>1. CASE t \in Records
      BY <1>1, <2>1, <2>4, <3>1 DEF CallsLeaveThree, Records
    <3>2. CASE t \notin Records
      <4>1. t = Len(kinds) + 1
        BY <2>1, <2>2, <2>4, <3>2
      <4> QED
        BY <1>1, <2>1, <4>1 DEF Records
    <3> QED
      BY <3>1, <3>2
  <2> QED
    BY <2>3, <2>4 DEF CallsLeaveThree
<1>3. CASE ReplaceActions
  <2>1. /\ Len(kinds') = Len(kinds) + 1
        /\ \A r \in Records : kinds'[r] = kinds[r]
        /\ kinds'[Len(kinds) + 1] = "action"
    BY <1>1, <1>3, PlanGrows
  <2>2. \A r \in Records' : r \in Records \/ r = Len(kinds) + 1
    BY <1>1, <2>1 DEF Records
  <2>3. \A r \in Records' : kinds'[r] # "action" => r \in Records /\ kinds'[r] = kinds[r]
    BY <2>1, <2>2
  <2>4. Records \subseteq Records'
    BY <1>1, <2>1 DEF Records
  <2> QED
    BY <2>1, <2>3, <2>4 DEF CallsLeaveThree
<1>4. CASE UNCHANGED kinds
  BY <1>4 DEF CallsLeaveThree, Records
<1> QED
  BY <1>2, <1>3, <1>4, ThreeWays

(* The call an observation names is the one it was made for.               *)
LEMMA CallOfIs ==
  ASSUME TInv, CallsLeaveThree, NEW o \in Records, kinds[o] = "observation"
  PROVE  CallOf(o) = o - 2
<1> DEFINE S == {r \in OfKind(Records, "tool_call") : r < o}
<1>1. o \in Nat /\ S \in SUBSET Nat /\ \A x \in S : x <= o
  BY DEF Records, OfKind
<1>2. o - 2 \in S
  BY <1>1 DEF CallsLeaveThree, OfKind
<1>3. \A x \in S : x # o - 1
  BY DEF CallsLeaveThree, OfKind
<1>4. \A x \in S : x < o
  OBVIOUS
<1> HIDE DEF S
<1>5. MaxOf(S) \in S /\ \A x \in S : x <= MaxOf(S)
  BY <1>1, <1>2, MaxIs
<1>6. CallOf(o) = MaxOf(S)
  BY DEF CallOf, S
<1>7. \A x \in S : x <= o - 2
  BY <1>1, <1>3, <1>4
<1>8. o - 2 <= MaxOf(S) /\ MaxOf(S) <= o - 2 /\ MaxOf(S) \in Nat
  BY <1>1, <1>2, <1>5, <1>7
<1> QED
  BY <1>1, <1>6, <1>8

(* Trimming the lists drops an observation just when it drops its call.    *)
LEMMA TrimmedPaired ==
  ASSUME TInv, CallsLeaveThree, [Next]_vars, NEW S \in SUBSET (Records'),
         NEW o \in Records', kinds'[o] = "observation", Paired(S)'
  PROVE  o \in Trimmed(S) <=> o - 2 \in Trimmed(S)
<1> DEFINE B == {q \in S : kinds'[q] = "observation" /\ q > o}
           A == {q \in S : kinds'[q] = "tool_call" /\ q > o - 2}
           f == [q \in A |-> q + 2]
<1>1. CallsLeaveThree' /\ kinds' \in Seq(Kinds) /\ Records' = 1 .. Len(kinds')
  BY CallsInductive, Grows DEF TInv, TypeOK, Records
<1>2. Len(kinds') \in Nat
  BY <1>1, LenProperties
<1>3. IsFiniteSet(A) /\ IsFiniteSet(B)
  <2>1. IsFiniteSet(Records')
    BY <1>1, <1>2, FS_Interval
  <2> QED
    BY <2>1, FS_Subset
<1>4. \A q \in A : q + 2 \in B
  BY <1>1, <1>2 DEF CallsLeaveThree, Paired
<1>5. \A q \in B : q - 2 \in A /\ q = (q - 2) + 2
  BY <1>1, <1>2 DEF CallsLeaveThree, Paired
<1>6. A \subseteq Nat /\ B \subseteq Nat
  <2>1. Records' \subseteq Nat
    BY <1>1, <1>2
  <2> QED
    BY <2>1
<1>7. f \in Bijection(A, B)
  <2>1. f \in [A -> B]
    BY <1>4
  <2>2. \A x, y \in A : f[x] = f[y] => x = y
    BY <1>6
  <2>3. \A y \in B : \E x \in A : f[x] = y
    BY <1>5
  <2> HIDE DEF f, A, B
  <2> QED
    BY <2>1, <2>2, <2>3 DEF Bijection, Injection, Surjection, IsInjective
<1>8. Cardinality(A) = Cardinality(B)
  BY <1>3, <1>7, FS_Bijection DEF ExistsBijection
<1>9. kinds'[o - 2] = "tool_call" /\ (o \in S <=> o - 2 \in S)
  BY <1>1 DEF CallsLeaveThree, Paired
<1>10. o \in Trimmed(S) <=> o \in S /\ Cardinality(B) < MaxRecords
  BY DEF Trimmed
<1>11. o - 2 \in Trimmed(S) <=> o - 2 \in S /\ Cardinality(A) < MaxRecords
  BY <1>9 DEF Trimmed
<1> QED
  BY <1>8, <1>9, <1>10, <1>11

(* A paired set of records stays one whatever is appended.                 *)
LEMMA PairedStays ==
  ASSUME TInv, CallsLeaveThree, [Next]_vars, NEW S \in SUBSET Records, Paired(S)
  PROVE  \A o \in Records' : kinds'[o] = "observation" => (o \in S <=> o - 2 \in S)
<1> SUFFICES ASSUME NEW o \in Records', kinds'[o] = "observation"
             PROVE  o \in S <=> o - 2 \in S
  OBVIOUS
<1>1. kinds \in Seq(Kinds) /\ Len(kinds) \in Nat
  BY LenProperties DEF TInv, TypeOK
<1>2. \A r \in Records : kinds'[r] = kinds[r]
  BY <1>1, Grows
<1>3. CASE o \in Records
  BY <1>2, <1>3 DEF Paired
<1>4. CASE o \notin Records
  <2>1. o - 2 \notin Records
    <3>1. CASE CallTool
      <4>1. /\ Len(kinds') = Len(kinds) + 4
            /\ kinds'[Len(kinds) + 1] = "tool_call"
            /\ kinds'[Len(kinds) + 2] = "evidence"
            /\ kinds'[Len(kinds) + 4] = "evaluation"
        BY <1>1, <3>1, CallGrows
      <4>2. o = Len(kinds) + 3
        BY <1>1, <1>4, <4>1 DEF Records
      <4> QED
        BY <1>1, <4>2 DEF Records
    <3>2. CASE ReplaceActions
      <4>1. Len(kinds') = Len(kinds) + 1 /\ kinds'[Len(kinds) + 1] = "action"
        BY <1>1, <3>2, PlanGrows
      <4> QED
        BY <1>1, <1>4, <4>1 DEF Records
    <3>3. CASE UNCHANGED kinds
      BY <1>4, <3>3 DEF Records
    <3> QED
      BY <3>1, <3>2, <3>3, ThreeWays
  <2> QED
    BY <1>4, <2>1
<1> QED
  BY <1>3, <1>4

(* The lists keep observations and calls together.                         *)
LEMMA HeldPaired == TInv /\ CallsLeaveThree /\ AllPaired /\ [Next]_vars => Paired(held)'
<1> SUFFICES ASSUME TInv, CallsLeaveThree, AllPaired, [Next]_vars PROVE Paired(held)'
  OBVIOUS
<1>1. kinds \in Seq(Kinds) /\ Len(kinds) \in Nat /\ held \in SUBSET Records
  BY LenProperties DEF TInv, TypeOK
<1>2. \A o \in Records' : kinds'[o] = "observation" => (o \in held <=> o - 2 \in held)
  BY <1>1, PairedStays DEF AllPaired
<1>3. CallsLeaveThree' /\ \A r \in Records : kinds'[r] = kinds[r]
  BY <1>1, CallsInductive, Grows
<1>4. CASE CallTool
  <2> DEFINE new == {Len(kinds) + 1, Len(kinds) + 2, Len(kinds) + 3, Len(kinds) + 4}
             S == held \cup new
  <2>1. /\ Len(kinds') = Len(kinds) + 4 /\ held' = Trimmed(S)
        /\ kinds'[Len(kinds) + 1] = "tool_call"
        /\ kinds'[Len(kinds) + 2] = "evidence"
        /\ kinds'[Len(kinds) + 4] = "evaluation"
    BY <1>1, <1>4, CallGrows
  <2>2. Records' = Records \cup new
    BY <1>1, <2>1 DEF Records
  <2>3. ASSUME NEW o \in Records', kinds'[o] = "observation"
        PROVE  o \in S <=> o - 2 \in S
    <3>1. CASE o \in Records
      <4>1. o \notin new /\ o - 2 \notin new
        BY <1>1, <3>1 DEF Records
      <4> QED
        BY <1>2, <2>3, <4>1
    <3>2. CASE o \notin Records
      <4>1. o = Len(kinds) + 3
        BY <2>1, <2>2, <2>3, <3>2
      <4> QED
        BY <1>1, <4>1
    <3> QED
      BY <3>1, <3>2
  <2>4. S \in SUBSET (Records')
    BY <1>1, <2>2
  <2> HIDE DEF S
  <2>5. \A o \in Records' : kinds'[o] = "observation"
          => (o \in Trimmed(S) <=> o - 2 \in Trimmed(S))
    BY <2>3, <2>4, TrimmedPaired DEF Paired
  <2> QED
    BY <2>1, <2>5 DEF Paired
<1>5. CASE ReplaceActions
  <2>1. Len(kinds') = Len(kinds) + 1 /\ kinds'[Len(kinds) + 1] = "action"
    BY <1>1, <1>5, PlanGrows
  <2>2. \A r \in Records' : r \in Records \/ r = Len(kinds) + 1
    BY <1>1, <2>1 DEF Records
  <2>3. \A r \in Records' : kinds'[r] # "action" => (r \in held' <=> r \in held)
    <3>1. PICK old \in SUBSET OfKind(Records, "action") :
            held' = (held \ OfKind(Records, "action")) \cup old \cup {Len(kinds) + 1}
      BY <1>5 DEF ReplaceActions
    <3> QED
      BY <1>3, <2>1, <2>2, <3>1 DEF OfKind
  <2>4. \A o \in Records' : kinds'[o] = "observation"
          => o - 2 \in Records' /\ kinds'[o - 2] = "tool_call"
    BY <1>3 DEF CallsLeaveThree
  <2> QED
    BY <1>2, <2>3, <2>4 DEF Paired
<1>6. CASE UNCHANGED held
  BY <1>2, <1>6 DEF Paired
<1> QED
  BY <1>4, <1>5, <1>6, ThreeWays

(* The steps of a connection, field by field.                              *)
LEMMA MovesIs ==
  ASSUME TInv, NEW c \in Clients, NEW cl, Moves(c, cl)
  PROVE  /\ clients'[c] = cl
         /\ \A d \in Clients : d # c => clients'[d] = clients[d]
         /\ UNCHANGED <<pc, back, node, kinds, held, flushNext, flushed, saved, stored, row>>
  BY DEF Moves, Executor, TInv

LEMMA ConnectIs ==
  ASSUME TInv, NEW c \in Clients, Connect(c)
  PROVE  /\ clients[c].pc = "off" /\ clients'[c].pc = "poll"
         /\ clients'[c].now = clients[c].now /\ clients'[c].seen = clients[c].seen
         /\ clients'[c].select = clients[c].select /\ clients'[c].detail = clients[c].detail
         /\ clients'[c].shown = clients[c].shown
<1>1. clients[c] \in Connection
  BY DEF TInv
<1>2. PICK n \in {1, NextSequence} : Moves(c, [clients[c] EXCEPT !.pc = "poll", !.next = n])
  BY DEF Connect
<1>3. clients'[c] = [clients[c] EXCEPT !.pc = "poll", !.next = n]
  BY <1>2, MovesIs
<1> QED
  BY <1>1, <1>3 DEF Connect, Connection

LEMMA PollIs ==
  ASSUME TInv, NEW c \in Clients, Poll(c)
  PROVE  /\ clients[c].pc = "poll" /\ row.status # "none"
         /\ clients'[c].pc = IF row.log.version # clients[c].seen.version
                             THEN "select" ELSE "end"
         /\ clients'[c].now = row
         /\ clients'[c].seen.status = row.status
         /\ clients'[c].seen.version = clients[c].seen.version
         /\ clients'[c].select = clients[c].select /\ clients'[c].detail = clients[c].detail
         /\ clients'[c].shown = clients[c].shown
<1>1. clients[c] \in Connection /\ clients[c].seen \in [status : RowStatus, version : Nat]
  BY DEF TInv, Connection
<1> DEFINE p == IF row.log.version # clients[c].seen.version THEN "select" ELSE "end"
           n == IF row.status # clients[c].seen.status THEN clients[c].next + 1
                                                       ELSE clients[c].next
<1>2. Moves(c, [clients[c] EXCEPT !.pc = p, !.now = row, !.seen.status = row.status,
                                  !.next = n])
  BY <1>1 DEF Poll, Connection
<1> HIDE DEF n
<1>3. clients'[c] = [clients[c] EXCEPT !.pc = p, !.now = row, !.seen.status = row.status,
                                       !.next = n]
  BY <1>2, MovesIs
<1> HIDE DEF p
<1>4. /\ clients'[c].pc = p
      /\ clients'[c].now = row
      /\ clients'[c].seen.status = row.status
      /\ clients'[c].seen.version = clients[c].seen.version
      /\ clients'[c].select = clients[c].select /\ clients'[c].detail = clients[c].detail
      /\ clients'[c].shown = clients[c].shown
  BY <1>1, <1>3 DEF Connection
<1> QED
  BY <1>4 DEF Poll, p

(* What a browser keeps when its connection ends.                          *)
LEMMA CloseIs ==
  ASSUME TInv, NEW c \in Clients, Moves(c, Close(clients[c]))
  PROVE  /\ clients'[c].pc = "closed" /\ clients'[c].now = Idle.now
         /\ clients'[c].seen = clients[c].seen /\ clients'[c].select = 1
         /\ clients'[c].detail = NoDetail /\ clients'[c].shown = clients[c].shown
<1>1. clients'[c] = Close(clients[c])
  BY MovesIs
<1>2. Idle \in Connection /\ Idle.select = 1 /\ Idle.detail = NoDetail
  BY IdleType DEF Idle
<1>3. Close(clients[c]) = [Idle EXCEPT !.pc = "closed", !.seen = clients[c].seen,
                                       !.shown = clients[c].shown]
  BY DEF Close
<1> HIDE DEF Idle
<1> QED
  BY <1>1, <1>2, <1>3 DEF Connection

LEMMA SelectTableIs ==
  ASSUME TInv, NEW c \in Clients, SelectTable(c)
  PROVE  /\ clients[c].pc = "select" /\ clients'[c].pc = "select"
         /\ clients[c].select \in 1 .. 5 /\ clients'[c].select = clients[c].select + 1
         /\ clients'[c].now = clients[c].now /\ clients'[c].seen = clients[c].seen
         /\ Selects[clients[c].select] \in Kinds
         /\ \A k \in Kinds :
              clients'[c].detail[k] = IF k = Selects[clients[c].select]
                                      THEN OfKind(DOMAIN stored, k)
                                      ELSE clients[c].detail[k]
         /\ clients'[c].shown = clients[c].shown
<1> DEFINE k == Selects[clients[c].select]
<1>1. clients[c] \in Connection
  BY DEF TInv
<1>2. clients[c].select \in 1 .. 5 /\ clients[c].detail \in [Kinds -> SUBSET Nat]
  BY <1>1, SelectsAre DEF SelectTable, Connection, Detail
<1>3. k \in Kinds
  BY <1>2, SelectsAre, KindsAre
<1>4. Moves(c, [clients[c] EXCEPT !.select = @ + 1, !.detail[k] = OfKind(DOMAIN stored, k)])
  BY DEF SelectTable, Selected
<1>5. clients'[c] = [clients[c] EXCEPT !.select = @ + 1,
                                       !.detail[k] = OfKind(DOMAIN stored, k)]
  BY <1>4, MovesIs
<1> HIDE DEF k
<1>6. /\ clients'[c].select = clients[c].select + 1
      /\ clients'[c].detail = [clients[c].detail EXCEPT ![k] = OfKind(DOMAIN stored, k)]
      /\ clients'[c].now = clients[c].now /\ clients'[c].seen = clients[c].seen
      /\ clients'[c].shown = clients[c].shown /\ clients'[c].pc = clients[c].pc
  BY <1>1, <1>5 DEF Connection
<1>7. clients[c].pc = "select"
  BY DEF SelectTable
<1>8. \A j \in Kinds : clients'[c].detail[j] = IF j = k THEN OfKind(DOMAIN stored, j)
                                               ELSE clients[c].detail[j]
  BY <1>2, <1>3, <1>6
<1> QED
  BY <1>2, <1>3, <1>6, <1>7, <1>8 DEF k

LEMMA ShowLogIs ==
  ASSUME TInv, NEW c \in Clients, ShowLog(c)
  PROVE  /\ clients[c].pc = "select" /\ clients[c].select = 6 /\ clients'[c].pc = "end"
         /\ clients'[c].now = clients[c].now /\ clients'[c].select = 1
         /\ clients'[c].seen.status = clients[c].seen.status
         /\ clients'[c].seen.version = clients[c].now.log.version
         /\ \A k \in Kinds :
              clients'[c].shown[k] = IF clients[c].detail[k] # {} THEN clients[c].detail[k]
                                     ELSE OfKind(clients[c].now.log.lists, k)
<1> DEFINE show == Merged(clients[c].now.log.lists, clients[c].detail)
<1>1. clients[c] \in Connection /\ clients[c].seen \in [status : RowStatus, version : Nat]
      /\ clients[c].select \in 1 .. 6
  BY DEF TInv, Connection
<1>2. Moves(c, [clients[c] EXCEPT
        !.pc = "end", !.select = 1, !.detail = NoDetail, !.shown = show,
        !.seen.version = clients[c].now.log.version, !.next = @ + 3])
  BY DEF ShowLog
<1> HIDE DEF show
<1>3. clients'[c] = [clients[c] EXCEPT
        !.pc = "end", !.select = 1, !.detail = NoDetail, !.shown = show,
        !.seen.version = clients[c].now.log.version, !.next = @ + 3]
  BY <1>2, MovesIs
<1>4. /\ clients'[c].pc = "end" /\ clients'[c].now = clients[c].now
      /\ clients'[c].select = 1 /\ clients'[c].shown = show
      /\ clients'[c].seen.status = clients[c].seen.status
      /\ clients'[c].seen.version = clients[c].now.log.version
  BY <1>1, <1>3 DEF Connection
<1>5. clients[c].pc = "select" /\ clients[c].select = 6
  BY <1>1, SelectsAre DEF ShowLog
<1>6. \A k \in Kinds :
        show[k] = IF clients[c].detail[k] # {} THEN clients[c].detail[k]
                  ELSE OfKind(clients[c].now.log.lists, k)
  BY DEF show, Merged
<1> QED
  BY <1>4, <1>5, <1>6

LEMMA PauseIs ==
  ASSUME TInv, NEW c \in Clients, Rest(c), clients[c].now.status \notin Terminal
  PROVE  /\ clients[c].pc = "end" /\ clients'[c].pc = "poll" /\ clients'[c].now = Idle.now
         /\ clients'[c].seen = clients[c].seen /\ clients'[c].select = clients[c].select
         /\ clients'[c].detail = clients[c].detail /\ clients'[c].shown = clients[c].shown
<1>1. clients[c] \in Connection
  BY DEF TInv
<1>2. Moves(c, [clients[c] EXCEPT !.pc = "poll", !.now = Idle.now])
  BY DEF Rest
<1>3. clients'[c] = [clients[c] EXCEPT !.pc = "poll", !.now = Idle.now]
  BY <1>2, MovesIs
<1> QED
  BY <1>1, <1>3 DEF Rest, Connection

(* The lists the run is given are those of the state, those it had, or none; *)
(* those of a connection are those of the run, those it had, or none.        *)
LEMMA ListsCome ==
  ASSUME TInv, [Next]_vars
  PROVE  /\ row'.log.lists \in {row.log.lists, held, {}}
         /\ \A c \in Clients :
              clients'[c].now.log.lists \in {clients[c].now.log.lists, row.log.lists, {}}
<1>1. Written("cancelled", row.log.lists).log.lists = row.log.lists
      /\ Written("failed", row.log.lists).log.lists = row.log.lists
      /\ \A s \in RowStatus : Written(s, held).log.lists = held
  BY DEF Written
<1>2. CASE Execute
  <2>1. UNCHANGED clients
    BY <1>2 DEF Execute, CallTool, ReplaceActions, FlushStage, EndNode, WriteLog, SkipLog,
                Abort, FlushRead, FlushCommit, FlushFail
  <2>2. CASE WriteLog
    <3>1. \E s \in RowStatus : row' = Written(s, held)
      BY <2>2 DEF WriteLog, RowStatus, Statuses, TInv, TypeOK
    <3> QED
      BY <1>1, <2>1, <3>1
  <2>3. CASE Abort
    BY <1>1, <2>1, <2>3 DEF Abort
  <2>4. CASE UNCHANGED row
    BY <2>1, <2>4
  <2> QED
    BY <1>2, <2>2, <2>3, <2>4
    DEF Execute, CallTool, ReplaceActions, FlushStage, EndNode, SkipLog,
        FlushRead, FlushCommit, FlushFail
<1>3. CASE Cancel \/ Delete
  BY <1>1, <1>3 DEF Cancel, Delete, NoLog, Outside
<1>4. ASSUME NEW c \in Clients, Connect(c) \/ Stream(c)
      PROVE  /\ row' = row
             /\ \A d \in Clients :
                  clients'[d].now.log.lists \in {clients[d].now.log.lists, row.log.lists, {}}
  <2>1. \E cl : Moves(c, cl)
    BY <1>4 DEF Connect, Stream, Poll, RowGone, SelectTable, ShowLog, Rest
  <2>2. row' = row /\ \A d \in Clients : d # c => clients'[d] = clients[d]
    BY <2>1, MovesIs
  <2>3. Idle.now.log.lists = {}
    BY DEF Idle, NoLog
  <2>4. clients'[c].now.log.lists \in {clients[c].now.log.lists, row.log.lists, {}}
    <3>1. CASE Connect(c) \/ Poll(c) \/ SelectTable(c) \/ ShowLog(c)
      BY <3>1, ConnectIs, PollIs, SelectTableIs, ShowLogIs
    <3>2. CASE RowGone(c) \/ (Rest(c) /\ clients[c].now.status \in Terminal)
      BY <2>3, <3>2, CloseIs DEF RowGone, Rest
    <3>3. CASE Rest(c) /\ clients[c].now.status \notin Terminal
      BY <2>3, <3>3, PauseIs
    <3> QED
      BY <1>4, <3>1, <3>2, <3>3 DEF Stream
  <2> QED
    BY <2>2, <2>4
<1>5. CASE UNCHANGED vars
  BY <1>5 DEF vars
<1> QED
  BY <1>2, <1>3, <1>4, <1>5 DEF Next

LEMMA PairedInductive == TInv /\ CallsLeaveThree /\ AllPaired /\ [Next]_vars => AllPaired'
<1> SUFFICES ASSUME TInv, CallsLeaveThree, AllPaired, [Next]_vars PROVE AllPaired'
  OBVIOUS
<1>1. Paired(held)'
  BY HeldPaired
<1>2. /\ held \in SUBSET Records /\ DOMAIN stored \in SUBSET Records
      /\ row.log.lists \in SUBSET Records
      /\ \A c \in Clients : clients[c].now.log.lists \in SUBSET Records
  BY DEF TInv, TypeOK
<1> DEFINE P(S) == \A o \in Records' : kinds'[o] = "observation" => (o \in S <=> o - 2 \in S)
<1>3. /\ P(held) /\ P(DOMAIN stored) /\ P(row.log.lists) /\ P({})
      /\ \A c \in Clients : P(clients[c].now.log.lists)
  BY <1>2, PairedStays DEF AllPaired
<1>4. P(DOMAIN stored \cup held)
  BY <1>3
<1>5. Paired(DOMAIN stored)'
  BY <1>3, <1>4, StoredGrows DEF Paired
<1>6. Paired(row.log.lists)'
  BY <1>3, ListsCome DEF Paired
<1>7. \A c \in Clients : P(clients'[c].now.log.lists)
  <2> HIDE DEF P
  <2> QED
    BY <1>3, ListsCome
<1> QED
  BY <1>1, <1>5, <1>6, <1>7 DEF AllPaired, Paired

(* What a step may do to the run: a log is only written forward, a         *)
(* deleted run stays deleted, and a verdict ends the executor's writing.   *)
LEMMA RowNext ==
  ASSUME TInv, FinishedIsOver, [Next]_vars
  PROVE  /\ Over => Over' /\ UNCHANGED <<kinds, held, saved>>
         /\ row'.status # "none"
              => row.status # "none" /\ row.log.version <= row'.log.version
         /\ row'.status = "finished"
              => row' = row \/ (Over' /\ row.log.version < row'.log.version)
         /\ FinishedIsOver'
<1>1. row.log.version \in Nat
  BY DEF TInv, TypeOK
<1>2. \A s, lists : /\ Written(s, lists).status = s
                    /\ Written(s, lists).log.version = row.log.version + 1
  BY DEF Written
<1>3. SUFFICES
        /\ Over => Over' /\ UNCHANGED <<kinds, held, saved>>
        /\ row'.status # "none"
             => row.status # "none" /\ row.log.version <= row'.log.version
        /\ row'.status = "finished"
             => row' = row \/ (Over' /\ row.log.version < row'.log.version)
  BY DEF FinishedIsOver
<1>4. CASE CallTool \/ ReplaceActions \/ FlushStage \/ EndNode
  BY <1>1, <1>4 DEF CallTool, ReplaceActions, FlushStage, EndNode, InNode, Over
<1>5. CASE WriteLog
  <2>1. pc = "log" /\ row.status # "none" /\ pc' = "read" /\ back' = After
    BY <1>5 DEF WriteLog
  <2>2. CASE node > MaxNodes
    <3>1. \E s \in {"finished", row.status} \ {"running"} : row' = Written(s, held)
      BY <1>5, <2>2 DEF WriteLog
    <3>2. Over'
      BY <2>1, <2>2 DEF Over, After
    <3> QED
      BY <1>1, <1>2, <2>1, <3>1, <3>2 DEF Over
  <2>3. CASE ~ (node > MaxNodes)
    <3>1. row' = Written(row.status, held)
      BY <1>5, <2>3 DEF WriteLog
    <3> QED
      BY <1>1, <1>2, <2>1, <3>1 DEF Over, FinishedIsOver
  <2> QED
    BY <2>2, <2>3
<1>6. CASE SkipLog
  BY <1>1, <1>6 DEF SkipLog, Over
<1>7. CASE Abort
  BY <1>1, <1>2, <1>7 DEF Abort, InNode, Over
<1>8. CASE FlushRead \/ FlushFail
  BY <1>1, <1>8 DEF FlushRead, FlushFail, Over
<1>9. CASE FlushCommit
  BY <1>1, <1>9 DEF FlushCommit, Over
<1>10. CASE Cancel \/ Delete
  BY <1>1, <1>2, <1>10 DEF Cancel, Delete, Executor, Over
<1>11. CASE UNCHANGED <<row, pc, back, kinds, held, saved>>
  BY <1>1, <1>11 DEF Over
<1>12. ASSUME NEW c \in Clients, Connect(c) \/ Stream(c)
       PROVE  UNCHANGED <<row, pc, back, kinds, held, saved>>
  BY <1>12 DEF Connect, Stream, Poll, RowGone, SelectTable, ShowLog, Rest, Moves, Executor
<1>13. UNCHANGED vars => UNCHANGED <<row, pc, back, kinds, held, saved>>
  BY DEF vars
<1> QED
  BY <1>4, <1>5, <1>6, <1>7, <1>8, <1>9, <1>10, <1>11, <1>12, <1>13 DEF Next, Execute

(* A step that is not the connection's own.                                *)
LEMMA BehindWaits ==
  ASSUME TInv, FinishedIsOver, [Next]_vars, NEW c \in Clients, Behind(clients[c]),
         clients'[c] = clients[c]
  PROVE  Behind(clients[c])'
<1>1. clients[c] \in Connection /\ clients[c].seen.version \in Nat
      /\ clients[c].now.log.version \in Nat
  BY DEF TInv, Connection, Row, Log
<1>2. row.log.version \in Nat /\ (row'.status # "none" => row'.log.version \in Nat)
  BY TypeInductive DEF TInv, TypeOK
<1>3. /\ Over => Over'
      /\ row'.status # "none"
           => row.status # "none" /\ row.log.version <= row'.log.version
      /\ row'.status = "finished"
           => row' = row \/ (Over' /\ row.log.version < row'.log.version)
  BY RowNext
<1> QED
  BY <1>1, <1>2, <1>3 DEF Behind

LEMMA CompleteWaits ==
  ASSUME TInv, FinishedIsOver, [Next]_vars, NEW c \in Clients, Behind(clients[c]),
         Complete(clients[c]), clients'[c] = clients[c]
  PROVE  Complete(clients[c])'
<1>1. Over => UNCHANGED <<kinds, held, saved>>
  BY RowNext
<1>2. CASE clients[c].seen.status = "finished"
  <2>1. UNCHANGED <<kinds, held, saved>>
    BY <1>1, <1>2 DEF Behind
  <2> QED
    BY <2>1 DEF Complete, OfKind
<1>3. CASE clients[c].seen.status # "finished"
  BY <1>3 DEF Complete, Behind
<1> QED
  BY <1>2, <1>3

(* No call comes back to the lists.                                        *)
LEMMA CallsGoForGood ==
  ASSUME TInv, [Next]_vars, NEW t \in OfKind(Records, "tool_call"),
         t \in (held \cup DOMAIN stored)'
  PROVE  t \in held \cup DOMAIN stored
<1>1. kinds \in Seq(Kinds) /\ Len(kinds) \in Nat /\ t \in Records /\ kinds[t] = "tool_call"
  BY LenProperties DEF TInv, TypeOK, OfKind
<1>2. CASE t \in held'
  <2>1. CASE CallTool
    <3>1. held' = Trimmed(held \cup {Len(kinds) + 1, Len(kinds) + 2, Len(kinds) + 3,
                                     Len(kinds) + 4})
      BY <1>1, <2>1, CallGrows
    <3> QED
      BY <1>1, <1>2, <3>1 DEF Trimmed, Records
  <2>2. CASE ReplaceActions
    <3>1. PICK old \in SUBSET OfKind(Records, "action") :
            held' = (held \ OfKind(Records, "action")) \cup old \cup {Len(kinds) + 1}
      BY <2>2 DEF ReplaceActions
    <3>2. t \notin old /\ t # Len(kinds) + 1
      BY <1>1 DEF OfKind, Records
    <3> QED
      BY <1>2, <3>1, <3>2
  <2>3. CASE UNCHANGED <<kinds, held>>
    BY <1>2, <2>3
  <2> QED
    BY <2>1, <2>2, <2>3, ThreeWays
<1>3. CASE t \in DOMAIN stored'
  BY <1>3, StoredGrows
<1> QED
  BY <1>2, <1>3

LEMMA ResolvesWaits ==
  ASSUME TInv, CallsLeaveThree, [Next]_vars, NEW c \in Clients, Resolves(clients[c]),
         clients'[c] = clients[c]
  PROVE  Resolves(clients[c])'
<1> DEFINE cl == clients[c]
           calls == OfKind(cl.now.log.lists, "tool_call")
<1>1. /\ kinds \in Seq(Kinds) /\ cl.now.log.lists \subseteq Records
      /\ DOMAIN stored \subseteq Records
      /\ cl.shown["observation"] \subseteq OfKind(Records, "observation")
      /\ cl.detail["observation"] \subseteq OfKind(Records, "observation")
  BY KindsAre DEF TInv, TypeOK
<1>2. \A r \in Records : kinds'[r] = kinds[r]
  BY <1>1, Grows
<1>3. OfKind(cl.now.log.lists, "tool_call")' = calls /\ calls \subseteq OfKind(Records, "tool_call")
  BY <1>1, <1>2 DEF OfKind
<1>4. \A t \in OfKind(Records, "tool_call") :
        t \in (held \cup DOMAIN stored)' => t \in held \cup DOMAIN stored
  BY CallsGoForGood
<1>5. DOMAIN stored \subseteq DOMAIN stored'
  BY StoredGrows
<1>6. ASSUME NEW t \in calls, t \in DOMAIN stored \/ ~ CallsStored \/ t \notin held \cup DOMAIN stored,
             t \in (held \cup DOMAIN stored)', CallsStored'
      PROVE  t \in DOMAIN stored'
  <2>1. t \in held \cup DOMAIN stored
    BY <1>3, <1>4, <1>6
  <2>2. CASE DOMAIN stored' = DOMAIN stored
    <3>1. CallsStored
      BY <1>1, <1>2, <1>6, <2>2 DEF CallsStored, OfKind
    <3> QED
      BY <1>6, <2>1, <2>2, <3>1
  <2>3. CASE DOMAIN stored' = DOMAIN stored \cup held
    BY <2>1, <2>3
  <2> QED
    BY <2>2, <2>3, StoredGrows
<1>7. \A o \in OfKind(Records, "observation") : o - 2 \in OfKind(Records, "tool_call")
  BY DEF CallsLeaveThree, OfKind
<1>8. \A o \in cl.shown["observation"] :
        o - 2 \in (held \cup DOMAIN stored)' => o - 2 \in cl.shown["tool_call"]
  BY <1>1, <1>4, <1>7 DEF Resolves
<1>9. cl.pc = "select" /\ cl.select > 2 /\ cl.detail["observation"] = {}
        => \A t \in calls : t \in (held \cup DOMAIN stored)' /\ CallsStored'
             => t \in DOMAIN stored'
  BY <1>6 DEF Resolves
<1>10. cl.pc = "select" /\ cl.select > 4 /\ cl.detail["observation"] = {}
         => \A t \in calls : t \in (held \cup DOMAIN stored)' /\ cl.detail["tool_call"] # {}
              => t \in cl.detail["tool_call"]
  BY <1>3, <1>4 DEF Resolves
<1>11. /\ cl.pc = "select" /\ cl.select > 2
            => \A o \in cl.detail["observation"] : o - 2 \in DOMAIN stored'
       /\ cl.pc = "select" /\ cl.select > 4
            => \A o \in cl.detail["observation"] : o - 2 \in cl.detail["tool_call"]
  BY <1>5 DEF Resolves
<1> QED
  BY <1>3, <1>8, <1>9, <1>10, <1>11 DEF Resolves

(* A connection's own step touches no record and no log.                   *)
LEMMA OwnStep ==
  ASSUME TInv, NEW c \in Clients, Connect(c) \/ Stream(c)
  PROVE  /\ UNCHANGED <<pc, back, node, kinds, held, flushNext, flushed, saved, stored, row>>
         /\ \A d \in Clients : d # c => clients'[d] = clients[d]
<1>1. \E cl : Moves(c, cl)
  BY DEF Connect, Stream, Poll, RowGone, SelectTable, ShowLog, Rest
<1> QED
  BY <1>1, MovesIs

(* The six ways of such a step.                                            *)
LEMMA OwnWays ==
  ASSUME NEW c \in Clients, Connect(c) \/ Stream(c)
  PROVE  \/ Connect(c) \/ Poll(c) \/ SelectTable(c) \/ ShowLog(c)
         \/ Moves(c, Close(clients[c]))
            /\ (clients[c].pc = "poll" \/ (clients[c].pc = "end" /\ Rest(c)))
         \/ Rest(c) /\ clients[c].now.status \notin Terminal
  BY DEF Stream, RowGone, Rest

LEMMA BehindSteps ==
  ASSUME TInv, FinishedIsOver, NEW c \in Clients, Behind(clients[c]),
         Connect(c) \/ Stream(c)
  PROVE  Behind(clients[c])'
<1>1. UNCHANGED <<pc, back, row>> /\ Over' = Over
  BY OwnStep DEF Over
<1>2. /\ clients[c].seen.version \in Nat /\ clients[c].now.log.version \in Nat
      /\ row.log.version \in Nat /\ Idle.now.status = "none" /\ clients[c].select \in 1 .. 6
  BY DEF TInv, Connection, Row, Log, Idle
<1>3. CASE Connect(c)
  BY <1>1, <1>3, ConnectIs DEF Behind
<1>4. CASE Poll(c)
  BY <1>1, <1>2, <1>4, PollIs DEF Behind, FinishedIsOver
<1>5. CASE SelectTable(c)
  BY <1>1, <1>2, <1>5, SelectTableIs DEF Behind
<1>6. CASE ShowLog(c)
  BY <1>1, <1>2, <1>6, ShowLogIs DEF Behind
<1>7. CASE Moves(c, Close(clients[c]))
  BY <1>1, <1>2, <1>7, CloseIs DEF Behind
<1>8. CASE Rest(c) /\ clients[c].now.status \notin Terminal
  BY <1>1, <1>2, <1>8, PauseIs DEF Behind, Terminal
<1> QED
  BY <1>3, <1>4, <1>5, <1>6, <1>7, <1>8, OwnWays

LEMMA CompleteSteps ==
  ASSUME TInv, FinishedIsOver, NEW c \in Clients, Behind(clients[c]), Complete(clients[c]),
         Connect(c) \/ Stream(c)
  PROVE  Complete(clients[c])'
<1>1. /\ kinds' = kinds /\ held' = held /\ saved' = saved /\ row' = row
      /\ \A S, k : OfKind(S, k)' = OfKind(S, k)
  BY OwnStep DEF OfKind
<1>2. /\ saved \subseteq DOMAIN stored /\ clients[c].select \in 1 .. 6
      /\ held \subseteq Records /\ kinds \in Seq(Kinds)
  BY DEF TInv, TypeOK, Connection
<1>3. CASE Connect(c)
  <2>1. clients[c].seen.status # "finished" /\ clients'[c].pc = "poll"
    BY <1>3, ConnectIs DEF Behind
  <2> QED
    BY <2>1 DEF Complete
<1>4. CASE Poll(c)
  <2>1. CASE clients'[c].pc = "select"
    <3>1. clients'[c].select = 1
      BY <1>4, PollIs DEF Behind
    <3> QED
      BY <2>1, <3>1 DEF Complete
  <2>2. CASE clients'[c].pc = "end"
    <3>1. clients'[c].seen.status # "finished"
      <4>1. row.log.version \in Nat /\ clients[c].seen.version \in Nat
        BY DEF TInv, TypeOK, Connection
      <4> QED
        BY <1>4, <2>2, <4>1, PollIs DEF Behind
    <3> QED
      BY <2>2, <3>1 DEF Complete
  <2> QED
    BY <1>4, <2>1, <2>2, PollIs
<1>5. CASE SelectTable(c)
  <2> DEFINE n == clients[c].select
  <2>1. /\ clients[c].pc = "select" /\ clients'[c].pc = "select"
        /\ n \in 1 .. 5 /\ clients'[c].select = n + 1
        /\ clients'[c].now = clients[c].now
        /\ \A k \in Kinds : clients'[c].detail[k] = IF k = Selects[n]
                                                    THEN OfKind(DOMAIN stored, k)
                                                    ELSE clients[c].detail[k]
    BY <1>5, SelectTableIs
  <2>2. \A i \in 1 .. 5 : Selects[i] \in Kinds
    BY SelectsAre, KindsAre
  <2>3. ASSUME clients[c].now.status = "finished", NEW i \in 1 .. 5, i < n + 1
        PROVE  OfKind(saved, Selects[i]) \subseteq clients'[c].detail[Selects[i]]
    <3>1. CASE Selects[i] = Selects[n]
      BY <1>2, <2>1, <2>2, <3>1 DEF OfKind
    <3>2. CASE Selects[i] # Selects[n]
      <4>1. i < n
        BY <2>1, <2>3, <3>2
      <4> QED
        BY <2>1, <2>2, <2>3, <3>2, <4>1 DEF Complete
    <3> QED
      BY <3>1, <3>2
  <2>4. \A i \in 1 .. 5 : OfKind(saved, Selects[i])' = OfKind(saved, Selects[i])
    BY <1>1 DEF OfKind
  <2> QED
    BY <2>1, <2>3, <2>4 DEF Complete
<1>6. CASE ShowLog(c)
  <2>1. /\ clients[c].pc = "select" /\ clients[c].select = 6 /\ clients'[c].pc = "end"
        /\ clients'[c].seen.status = clients[c].seen.status
        /\ \A k \in Kinds :
             clients'[c].shown[k] = IF clients[c].detail[k] # {} THEN clients[c].detail[k]
                                    ELSE OfKind(clients[c].now.log.lists, k)
    BY <1>6, ShowLogIs
  <2>2. ASSUME clients[c].seen.status = "finished", held \subseteq saved, NEW k \in Kinds
        PROVE  OfKind(held, k) \subseteq clients'[c].shown[k]
    <3>1. PICK i \in 1 .. 5 : Selects[i] = k
      BY SelectsAre, KindsAre
    <3>2. OfKind(saved, k) \subseteq clients[c].detail[k]
      BY <2>1, <2>2, <3>1 DEF Complete, Behind
    <3>3. OfKind(held, k) \subseteq OfKind(saved, k)
      BY <2>2 DEF OfKind
    <3> QED
      BY <2>1, <3>2, <3>3
  <2>3. \A k \in Kinds : OfKind(held, k)' = OfKind(held, k)
    BY <1>1 DEF OfKind
  <2> QED
    BY <1>1, <2>1, <2>2, <2>3 DEF Complete
<1>7. CASE Moves(c, Close(clients[c]))
            /\ (clients[c].pc = "poll" \/ (clients[c].pc = "end" /\ Rest(c)))
  <2>1. /\ clients'[c].pc = "closed" /\ clients'[c].seen = clients[c].seen
        /\ clients'[c].shown = clients[c].shown
    BY <1>7, CloseIs
  <2>2. clients[c].pc = "poll" => clients[c].seen.status # "finished"
    BY DEF Behind
  <2>3. \A k \in Kinds : OfKind(held, k)' = OfKind(held, k)
    BY <1>1 DEF OfKind
  <2> QED
    BY <1>1, <1>7, <2>1, <2>2, <2>3 DEF Complete
<1>8. CASE Rest(c) /\ clients[c].now.status \notin Terminal
  <2>1. clients'[c].pc = "poll"
    BY <1>8, PauseIs
  <2> QED
    BY <2>1 DEF Complete
<1> QED
  BY <1>3, <1>4, <1>5, <1>6, <1>7, <1>8, OwnWays

LEMMA ResolvesSteps ==
  ASSUME TInv, CallsLeaveThree, AllPaired, NEW c \in Clients, Behind(clients[c]),
         Resolves(clients[c]), Connect(c) \/ Stream(c)
  PROVE  Resolves(clients[c])'
<1>1. /\ kinds' = kinds /\ held' = held /\ stored' = stored /\ row' = row
      /\ DOMAIN stored' = DOMAIN stored
  BY OwnStep
<1>2. \A S, k : {r \in S : kinds'[r] = k} = OfKind(S, k)
  BY <1>1 DEF OfKind
<1>3. DOMAIN stored \subseteq Records /\ clients[c].now.log.lists \subseteq Records
  BY DEF TInv, TypeOK
<1>4. \A o \in OfKind(Records, "observation") :
        /\ o - 2 \in OfKind(Records, "tool_call")
        /\ o \in DOMAIN stored <=> o - 2 \in DOMAIN stored
        /\ o \in clients[c].now.log.lists <=> o - 2 \in clients[c].now.log.lists
  BY DEF CallsLeaveThree, AllPaired, Paired, OfKind
<1>5. CASE Connect(c)
  <2>1. clients'[c].pc = "poll" /\ clients'[c].shown = clients[c].shown
    BY <1>5, ConnectIs
  <2> QED
    BY <1>1, <2>1 DEF Resolves
<1>6. CASE Poll(c)
  <2>1. clients'[c].select = 1 /\ clients'[c].shown = clients[c].shown
    BY <1>6, PollIs DEF Behind
  <2> QED
    BY <1>1, <2>1 DEF Resolves
<1>7. CASE SelectTable(c)
  <2> DEFINE n == clients[c].select
             calls == OfKind(clients[c].now.log.lists, "tool_call")
  <2>1. /\ clients[c].pc = "select" /\ clients'[c].pc = "select"
        /\ n \in 1 .. 5 /\ clients'[c].select = n + 1
        /\ clients'[c].now = clients[c].now
        /\ \A k \in Kinds : clients'[c].detail[k] = IF k = Selects[n]
                                                    THEN OfKind(DOMAIN stored, k)
                                                    ELSE clients[c].detail[k]
        /\ clients'[c].shown = clients[c].shown
    BY <1>7, SelectTableIs
  <2>2. /\ clients'[c].detail["observation"] = IF n = 2
             THEN OfKind(DOMAIN stored, "observation") ELSE clients[c].detail["observation"]
        /\ clients'[c].detail["tool_call"] = IF n = 4
             THEN OfKind(DOMAIN stored, "tool_call") ELSE clients[c].detail["tool_call"]
    BY <2>1, SelectsAre, KindsAre
  <2>3. OfKind(clients[c].now.log.lists, "tool_call")' = calls /\ CallsStored' = CallsStored
    BY <1>1, <2>1 DEF OfKind, CallsStored
  <2>4. OfKind(DOMAIN stored, "observation") = {} => ~ CallsStored
    <3>1. ASSUME NEW t \in OfKind(DOMAIN stored, "tool_call")
          PROVE  t + 2 \in OfKind(DOMAIN stored, "observation")
      <4>1. t \in Records /\ t \in Nat /\ kinds[t] = "tool_call"
        BY <1>3, <3>1 DEF OfKind, Records
      <4>2. t + 2 \in OfKind(Records, "observation") /\ (t + 2) - 2 = t
        BY <4>1 DEF CallsLeaveThree, OfKind
      <4> QED
        BY <1>4, <3>1, <4>2 DEF OfKind
    <3> QED
      BY <3>1 DEF CallsStored
  <2>5. n + 1 > 2 /\ clients'[c].detail["observation"] = {}
          => \A t \in calls : t \in held \cup DOMAIN stored /\ CallsStored => t \in DOMAIN stored
    <3>1. CASE n = 2
      BY <2>2, <2>4, <3>1
    <3>2. CASE n # 2
      BY <2>1, <2>2, <3>2 DEF Resolves
    <3> QED
      BY <3>1, <3>2
  <2>6. n + 1 > 4 /\ clients'[c].detail["observation"] = {}
          => \A t \in calls :
               t \in held \cup DOMAIN stored /\ clients'[c].detail["tool_call"] # {}
                 => t \in clients'[c].detail["tool_call"]
    <3>1. CASE n = 4
      BY <2>1, <2>2, <3>1 DEF Resolves, CallsStored, OfKind
    <3>2. CASE n # 4
      BY <2>1, <2>2, <3>2 DEF Resolves
    <3> QED
      BY <3>1, <3>2
  <2>7. n + 1 > 2 => \A o \in clients'[c].detail["observation"] : o - 2 \in DOMAIN stored
    <3>1. CASE n = 2
      BY <1>3, <1>4, <2>2, <3>1 DEF OfKind
    <3>2. CASE n # 2
      BY <2>1, <2>2, <3>2 DEF Resolves
    <3> QED
      BY <3>1, <3>2
  <2>8. n + 1 > 4 => \A o \in clients'[c].detail["observation"] :
          o - 2 \in clients'[c].detail["tool_call"]
    <3>1. CASE n = 4
      <4>1. clients[c].detail["observation"] \subseteq OfKind(Records, "observation")
        BY KindsAre DEF TInv, TypeOK
      <4> QED
        BY <1>4, <2>1, <2>2, <3>1, <4>1 DEF Resolves, OfKind
    <3>2. CASE n # 4
      BY <2>1, <2>2, <3>2 DEF Resolves
    <3> QED
      BY <3>1, <3>2
  <2>9. \A o \in clients'[c].shown["observation"] :
          o - 2 \in held \cup DOMAIN stored => o - 2 \in clients'[c].shown["tool_call"]
    BY <2>1 DEF Resolves
  <2> QED
    BY <1>1, <2>1, <2>3, <2>5, <2>6, <2>7, <2>8, <2>9 DEF Resolves
<1>8. CASE ShowLog(c)
  <2>1. /\ clients[c].pc = "select" /\ clients[c].select = 6 /\ clients'[c].pc = "end"
        /\ \A k \in Kinds :
             clients'[c].shown[k] = IF clients[c].detail[k] # {} THEN clients[c].detail[k]
                                    ELSE OfKind(clients[c].now.log.lists, k)
    BY <1>8, ShowLogIs
  <2>2. ASSUME NEW o \in clients'[c].shown["observation"], o - 2 \in held \cup DOMAIN stored
        PROVE  o - 2 \in clients'[c].shown["tool_call"]
    <3>1. CASE clients[c].detail["observation"] # {}
      <4>1. o \in clients[c].detail["observation"]
        BY <2>1, <2>2, <3>1, KindsAre
      <4>2. o - 2 \in clients[c].detail["tool_call"]
        BY <2>1, <4>1 DEF Resolves
      <4> QED
        BY <2>1, <4>2, KindsAre
    <3>2. CASE clients[c].detail["observation"] = {}
      <4>1. o \in OfKind(clients[c].now.log.lists, "observation")
        BY <2>1, <2>2, <3>2, KindsAre
      <4>2. o - 2 \in OfKind(clients[c].now.log.lists, "tool_call")
        BY <1>3, <1>4, <4>1 DEF OfKind
      <4>3. clients[c].detail["tool_call"] # {} => o - 2 \in clients[c].detail["tool_call"]
        BY <2>1, <2>2, <3>2, <4>2 DEF Resolves
      <4> QED
        BY <2>1, <4>2, <4>3, KindsAre
    <3> QED
      BY <3>1, <3>2
  <2> QED
    BY <1>1, <2>1, <2>2 DEF Resolves
<1>9. CASE Moves(c, Close(clients[c]))
  <2>1. clients'[c].pc = "closed" /\ clients'[c].shown = clients[c].shown
    BY <1>9, CloseIs
  <2> QED
    BY <1>1, <2>1 DEF Resolves
<1>10. CASE Rest(c) /\ clients[c].now.status \notin Terminal
  <2>1. clients'[c].pc = "poll" /\ clients'[c].shown = clients[c].shown
    BY <1>10, PauseIs
  <2> QED
    BY <1>1, <2>1 DEF Resolves
<1> QED
  BY <1>5, <1>6, <1>7, <1>8, <1>9, <1>10, OwnWays

LEMMA ShownInit == Init => ShownInv
<1> SUFFICES ASSUME Init PROVE ShownInv
  OBVIOUS
<1>1. Len(kinds) = 0 /\ Records = {}
  BY DEF Init, Records
<1>2. TInv
  BY TypeInit
<1>3. Idle.pc = "off" /\ Idle.select = 1 /\ Idle.seen.status = "none"
      /\ Idle.seen.version = 0 /\ Idle.shown = NoDetail
  BY DEF Idle
<1>4. row.status = "running" /\ row.log.version = 0
  BY DEF Init, NoLog
<1>5. \A c \in Clients : clients[c] = Idle
  BY DEF Init
<1>6. \A c \in Clients : Behind(clients[c])
  BY <1>3, <1>4, <1>5 DEF Behind
<1>7. \A c \in Clients : Complete(clients[c])
  BY <1>3, <1>5 DEF Complete
<1>8. \A c \in Clients : Resolves(clients[c])
  BY <1>3, <1>5, IdleType, KindsAre DEF Resolves
<1>9. CallsLeaveThree /\ AllPaired
  BY <1>1 DEF CallsLeaveThree, AllPaired, Paired
<1>10. FinishedIsOver
  BY <1>4 DEF FinishedIsOver
<1> QED
  BY <1>6, <1>7, <1>8, <1>9, <1>10 DEF ShownInv

LEMMA ShownInductive == TInv /\ ShownInv /\ [Next]_vars => ShownInv'
<1> SUFFICES ASSUME TInv, ShownInv, [Next]_vars PROVE ShownInv'
  OBVIOUS
<1>1. /\ CallsLeaveThree /\ AllPaired /\ FinishedIsOver
      /\ \A c \in Clients : Behind(clients[c]) /\ Complete(clients[c]) /\ Resolves(clients[c])
  BY DEF ShownInv
<1>2. CallsLeaveThree' /\ AllPaired' /\ FinishedIsOver'
  BY <1>1, CallsInductive, PairedInductive, RowNext
<1>3. ASSUME NEW c \in Clients, clients'[c] = clients[c]
      PROVE  Behind(clients[c])' /\ Complete(clients[c])' /\ Resolves(clients[c])'
  BY <1>1, <1>3, BehindWaits, CompleteWaits, ResolvesWaits
<1>4. ASSUME NEW c \in Clients, Connect(c) \/ Stream(c)
      PROVE  \A d \in Clients :
               Behind(clients[d])' /\ Complete(clients[d])' /\ Resolves(clients[d])'
  <2>1. Behind(clients[c])' /\ Complete(clients[c])' /\ Resolves(clients[c])'
    BY <1>1, <1>4, BehindSteps, CompleteSteps, ResolvesSteps
  <2>2. \A d \in Clients : d # c => clients'[d] = clients[d]
    BY <1>4, OwnStep
  <2>3. ASSUME NEW d \in Clients
        PROVE  Behind(clients[d])' /\ Complete(clients[d])' /\ Resolves(clients[d])'
    <3>1. CASE d = c
      BY <2>1, <3>1
    <3>2. CASE d # c
      BY <1>3, <2>2, <3>2
    <3> QED
      BY <3>1, <3>2
  <2> QED
    BY <2>3
<1>5. (\E c \in Clients : Connect(c) \/ Stream(c)) \/ UNCHANGED clients
  <2>1. Execute => UNCHANGED clients
    BY DEF Execute, CallTool, ReplaceActions, FlushStage, EndNode, WriteLog, SkipLog,
           Abort, FlushRead, FlushCommit, FlushFail
  <2>2. Cancel \/ Delete \/ UNCHANGED vars => UNCHANGED clients
    BY DEF Cancel, Delete, Outside, vars
  <2> QED
    BY <2>1, <2>2 DEF Next
<1>6. ASSUME UNCHANGED clients
      PROVE  \A c \in Clients :
               Behind(clients[c])' /\ Complete(clients[c])' /\ Resolves(clients[c])'
  BY <1>3, <1>6
<1>7. \A c \in Clients : Behind(clients[c])' /\ Complete(clients[c])' /\ Resolves(clients[c])'
  BY <1>4, <1>5, <1>6
<1> QED
  BY <1>2, <1>7 DEF ShownInv

(* The strengthening says what a reader of the snapshots is promised.      *)
LEMMA ShownIsWhole == TInv /\ ShownInv => ObservationsResolve /\ LastSnapshotComplete
<1> SUFFICES ASSUME TInv, ShownInv PROVE ObservationsResolve /\ LastSnapshotComplete
  OBVIOUS
<1>1. ObservationsResolve
  <2> SUFFICES ASSUME NEW c \in Clients, NEW o \in clients[c].shown["observation"],
                      CallOf(o) \in held \cup DOMAIN stored
               PROVE  CallOf(o) \in clients[c].shown["tool_call"]
    BY DEF ObservationsResolve
  <2>1. o \in Records /\ kinds[o] = "observation"
    BY KindsAre DEF TInv, TypeOK, OfKind
  <2>2. CallOf(o) = o - 2
    BY <2>1, CallOfIs DEF ShownInv
  <2> QED
    BY <2>2 DEF ShownInv, Resolves
<1>2. LastSnapshotComplete
  BY DEF LastSnapshotComplete, ShownInv, Complete
<1> QED
  BY <1>1, <1>2

(* Between a flush that may fail, a log, and connections that read table   *)
(* by table, nothing of a run is lost, torn apart or left out at the end.  *)
THEOREM NothingGoesMissing == Spec => []Delivered
<1>1. Init => TInv /\ GivenUp /\ AllFlushed /\ ShownInv
  <2>1. Init => Len(kinds) = 0 /\ flushed = FALSE
    BY DEF Init
  <2>2. Init => GivenUp /\ AllFlushed
    BY <2>1 DEF GivenUp, AllFlushed, Records
  <2> QED
    BY <2>2, TypeInit, ShownInit
<1>2. TInv /\ GivenUp /\ AllFlushed /\ ShownInv /\ [Next]_vars
        => (TInv /\ GivenUp /\ AllFlushed /\ ShownInv)'
  BY TypeInductive, GivenUpInductive, AllFlushedInductive, ShownInductive
<1>3. TInv /\ GivenUp /\ AllFlushed /\ ShownInv => Delivered
  BY LostIsGivenUp, ShownIsWhole DEF Delivered
<1> QED
  BY <1>1, <1>2, <1>3, PTL DEF Spec

=============================================================================
