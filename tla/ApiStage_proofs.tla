---------------------------- MODULE ApiStage_proofs ----------------------------
(***************************************************************************)
(* Theorems about the API stage: what its builders may put into the queue, *)
(* whatever the description, the cases and the plan are; what its loop may *)
(* then send, how often, and what becomes of every request, whatever the   *)
(* tested system answers; and that a chain the stage composed itself       *)
(* works on its own record and takes it away again.                        *)
(***************************************************************************)
EXTENDS ApiStage, TLAPS, FiniteSetTheorems, SequenceTheorems, FunctionTheorems, WellFoundedInduction

-----------------------------------------------------------------------------
(* Lists: the elements at some positions, and lists of lists in a row.     *)

\* The elements at some positions of a list are those at an increasing row of
\* them that leaves none out.
LEMMA PickedPlaces ==
  ASSUME NEW T, NEW s \in Seq(T), NEW I \in SUBSET (DOMAIN s)
  PROVE  /\ Cardinality(I) \in Nat
         /\ \E at \in [1 .. Cardinality(I) -> I] :
              /\ Picked(s, I) = [k \in 1 .. Cardinality(I) |-> s[at[k]]]
              /\ \A k, m \in 1 .. Cardinality(I) : k < m => at[k] < at[m]
              /\ \A i \in I : \E k \in 1 .. Cardinality(I) : at[k] = i
<1> DEFINE n == Cardinality(I)
           Upto(i) == {j \in I : j <= i}
           Rank(i) == Cardinality(Upto(i))
           rank == [i \in I |-> Rank(i)]
           at == [k \in 1 .. n |-> CHOOSE i \in I : Rank(i) = k]
<1>1. I \subseteq Nat /\ IsFiniteSet(I) /\ n \in Nat
  <2>1. IsFiniteSet(1 .. Len(s)) /\ I \subseteq 1 .. Len(s) /\ Len(s) \in Nat
    BY FS_Interval
  <2> QED
    BY <2>1, FS_Subset, FS_CardinalityType
<1>2. \A i \in I : IsFiniteSet(Upto(i)) /\ Rank(i) \in Nat /\ Rank(i) \in 1 .. n
  <2>1. ASSUME NEW i \in I
        PROVE  IsFiniteSet(Upto(i)) /\ Rank(i) \in Nat /\ Rank(i) \in 1 .. n
    <3>1. IsFiniteSet(Upto(i)) /\ Rank(i) <= n /\ Rank(i) \in Nat
      BY <1>1, FS_Subset, FS_CardinalityType
    <3>2. Upto(i) # {}
      BY <1>1
    <3>3. Rank(i) # 0
      BY <3>1, <3>2, FS_EmptySet
    <3> QED
      BY <1>1, <3>1, <3>3
  <2> QED
    BY <2>1
<1> HIDE DEF Rank
<1>3. \A i, j \in I : i < j => Rank(i) < Rank(j)
  <2> SUFFICES ASSUME NEW i \in I, NEW j \in I, i < j
               PROVE  Rank(i) < Rank(j)
    OBVIOUS
  <2>1. Upto(i) \cup {j} \subseteq Upto(j) /\ j \notin Upto(i)
    BY <1>1
  <2>2. Cardinality(Upto(i) \cup {j}) = Rank(i) + 1
    BY <1>2, <2>1, FS_AddElement DEF Rank
  <2>3. Cardinality(Upto(i) \cup {j}) <= Rank(j)
    BY <1>2, <2>1, FS_Subset DEF Rank
  <2> QED
    <3>1. Rank(i) \in Nat /\ Rank(j) \in Nat
      BY <1>1, <1>2
    <3> QED
      BY <2>2, <2>3, <3>1
<1>4. \A k \in 1 .. n : \E i \in I : Rank(i) = k
  <2>1. rank \in [I -> 1 .. n]
    BY <1>2
  <2>2. \A i, j \in I : rank[i] = rank[j] => i = j
    <3>1. ASSUME NEW i \in I, NEW j \in I, Rank(i) = Rank(j) PROVE i = j
      <4>1. Rank(i) \in Nat
        BY <1>2
      <4>2. ~(i < j) /\ ~(j < i)
        BY <1>3, <3>1, <4>1
      <4> QED
        BY <1>1, <4>2
    <3> QED
      BY <3>1
  <2>3. rank \in Injection(I, 1 .. n)
    BY <2>1, <2>2 DEF Injection, IsInjective
  <2>4. IsFiniteSet(1 .. n) /\ Cardinality(1 .. n) = n
    BY <1>1, FS_Interval
  <2>5. rank \in Surjection(I, 1 .. n)
    BY <2>3, <2>4, FS_Injection
  <2> QED
    BY <2>5 DEF Surjection
<1>5. \A k \in 1 .. n : at[k] \in I /\ Rank(at[k]) = k
  BY <1>4
<1> HIDE DEF at
<1>6. \A k, m \in 1 .. n : k < m => at[k] < at[m]
  <2>1. ASSUME NEW k \in 1 .. n, NEW m \in 1 .. n, k < m, ~(at[k] < at[m])
        PROVE  FALSE
    <3>1. at[m] < at[k] \/ at[m] = at[k]
      BY <1>1, <1>5, <2>1
    <3> QED
      BY <1>1, <1>3, <1>5, <2>1, <3>1
  <2> QED
    BY <2>1
<1>7. \A i \in I : \E k \in 1 .. n : at[k] = i
  <2>1. ASSUME NEW i \in I PROVE at[Rank(i)] = i
    <3>1. at[Rank(i)] \in I /\ Rank(at[Rank(i)]) = Rank(i)
      BY <1>2, <1>5
    <3>2. Rank(i) \in Nat
      BY <1>2
    <3>3. ~(i < at[Rank(i)]) /\ ~(at[Rank(i)] < i)
      BY <1>3, <3>1, <3>2
    <3> QED
      BY <1>1, <3>1, <3>3
  <2> QED
    BY <1>2, <2>1
<1>8. Picked(s, I) = [k \in 1 .. n |-> s[at[k]]] /\ DOMAIN at = 1 .. n
  BY DEF Picked, Rank, at
<1> QED
  <2>1. at \in [1 .. n -> I]
    BY <1>5 DEF at
  <2> QED
    BY <1>1, <1>6, <1>7, <1>8, <2>1

\* So they are a list of its elements, as long as there are positions.
LEMMA PickedType ==
  ASSUME NEW T, NEW s \in Seq(T), NEW I \in SUBSET (DOMAIN s)
  PROVE  /\ Picked(s, I) \in Seq(T) /\ Len(Picked(s, I)) = Cardinality(I) /\ Cardinality(I) \in Nat
         /\ \A k \in 1 .. Len(Picked(s, I)) : \E i \in I : Picked(s, I)[k] = s[i]
         /\ \A i \in I : \E k \in 1 .. Len(Picked(s, I)) : Picked(s, I)[k] = s[i]
<1>1. PICK at \in [1 .. Cardinality(I) -> I] :
        /\ Picked(s, I) = [k \in 1 .. Cardinality(I) |-> s[at[k]]]
        /\ \A i \in I : \E k \in 1 .. Cardinality(I) : at[k] = i
  BY PickedPlaces
<1>2. Cardinality(I) \in Nat
  BY PickedPlaces
<1>3. \A k \in 1 .. Cardinality(I) : s[at[k]] \in T
  BY <1>1, ElementOfSeq
<1> DEFINE n == Cardinality(I)
<1> HIDE DEF n
<1>4. Picked(s, I) \in Seq(T) /\ Len(Picked(s, I)) = n /\ Picked(s, I) = [k \in 1 .. n |-> s[at[k]]] /\ n \in Nat
  BY <1>1, <1>2, <1>3 DEF n
<1>5. \A k \in 1 .. n : \E i \in I : Picked(s, I)[k] = s[i]
  <2> TAKE k \in 1 .. n
  <2>1. at[k] \in I /\ Picked(s, I)[k] = s[at[k]]
    BY <1>1, <1>4 DEF n
  <2> QED
    BY <2>1
<1>6. \A i \in I : \E k \in 1 .. n : Picked(s, I)[k] = s[i]
  <2> TAKE i \in I
  <2>1. PICK k \in 1 .. n : at[k] = i
    BY <1>1 DEF n
  <2>2. Picked(s, I)[k] = s[i]
    BY <1>4, <2>1
  <2> QED
    BY <2>2
<1> QED
  BY <1>4, <1>5, <1>6 DEF n

\* A set of numbers has a least one.
LEMMA Least ==
  ASSUME NEW T, T \subseteq Nat, T # {}
  PROVE  \E x \in T : \A y \in T : x <= y
<1>1. IsWellFoundedOn(OpToRel(<, Nat), Nat)
  BY NatLessThanWellFounded, Zenon
<1>2. \A i, j \in Nat : i < j => << i, j >> \in OpToRel(<, Nat)
  BY Zenon DEF OpToRel
<1>3. \E x \in T : \A y \in T : ~(<< y, x >> \in OpToRel(<, Nat))
  BY <1>1, WFMin, Zenon
<1>4. PICK x \in T : \A y \in T : ~(y < x)
  BY <1>2, <1>3, Zenon
<1>5. ASSUME NEW y \in T
      PROVE  x <= y
  BY <1>4
<1> QED
  BY <1>5

\* f[i] is the first i of the lists in a row.
Appends(f, seqs, n) == f = [i \in 1 .. n |-> IF i = 1 THEN seqs[i] ELSE f[i - 1] \o seqs[i]]

\* There is such a function: by well-founded recursion, which the library gives.
LEMMA Appending ==
  ASSUME NEW seqs, NEW N \in Nat
  PROVE  \E f : Appends(f, seqs, N)
<1> DEFINE bad == {n \in 0 .. N : ~\E f : Appends(f, seqs, n)}
<1>1. SUFFICES ASSUME bad # {} PROVE FALSE
  OBVIOUS
<1>2. PICK n \in bad : \A m \in bad : n <= m
  <2>1. bad \subseteq Nat
    OBVIOUS
  <2> HIDE DEF bad
  <2> QED
    BY <1>1, <2>1, Least
<1>3. n # 0
  <2>1. Appends([i \in 1 .. 0 |-> 0], seqs, 0)
    BY DEF Appends
  <2> QED
    BY <2>1, <1>2
<1>4. PICK f : Appends(f, seqs, n - 1)
  <2>1. n - 1 \in 0 .. N /\ ~(n <= n - 1)
    BY <1>2, <1>3
  <2> QED
    BY <1>2, <2>1
<1> DEFINE g == [i \in 1 .. n |-> IF i < n THEN f[i] ELSE IF n = 1 THEN seqs[n] ELSE f[n - 1] \o seqs[n]]
<1>5. Appends(g, seqs, n)
  <2>1. n \in Nat /\ \A i \in 1 .. n - 1 : f[i] = IF i = 1 THEN seqs[i] ELSE f[i - 1] \o seqs[i]
    <3>1. n \in Nat
      BY <1>2
    <3> QED
      BY <3>1, <1>4 DEF Appends
  <2>2. \A i \in 1 .. n : g[i] = IF i = 1 THEN seqs[i] ELSE g[i - 1] \o seqs[i]
    BY <2>1, <1>3
  <2> QED
    BY <2>2 DEF Appends
<1> QED
  BY <1>2, <1>5

\* Where the elements of t stand in the first n of the sequences: in which one, and
\* where in it.
Places(t, row, col, seqs, n) ==
  /\ row \in [1 .. Len(t) -> 1 .. n] /\ col \in [1 .. Len(t) -> Nat]
  /\ \A k \in 1 .. Len(t) : col[k] \in 1 .. Len(seqs[row[k]]) /\ t[k] = seqs[row[k]][col[k]]
  /\ \A k, m \in 1 .. Len(t) : k < m => row[k] < row[m] \/ (row[k] = row[m] /\ col[k] < col[m])

\* Lists in a row are a list of their elements, those of an earlier one first and
\* each in its order: by the least number of lists for which they are not.
LEMMA FlattenPlaces ==
  ASSUME NEW T, NEW seqs \in Seq(Seq(T))
  PROVE  /\ FlattenSeq(seqs) \in Seq(T)
         /\ \E row, col : Places(FlattenSeq(seqs), row, col, seqs, Len(seqs))
<1> DEFINE N == Len(seqs)
<1>1. N \in Nat /\ \A i \in 1 .. N : seqs[i] \in Seq(T)
  OBVIOUS
<1>2. CASE N = 0
  <2>1. FlattenSeq(seqs) = seqs /\ seqs = << >>
    BY <1>2 DEF FlattenSeq
  <2>2. << >> \in Seq(T) /\ Len(<< >>) = 0
    OBVIOUS
  <2>3. Places(<< >>, [k \in 1 .. 0 |-> 1], [k \in 1 .. 0 |-> 1], seqs, N)
    BY <2>2, <1>2 DEF Places
  <2> QED
    BY <2>1, <2>2, <2>3
<1>3. CASE N # 0
  <2>1. PICK f : f = CHOOSE h : Appends(h, seqs, N)
    OBVIOUS
  <2>2. FlattenSeq(seqs) = f[N]
    BY <2>1, <1>3, Zenon DEF FlattenSeq, Appends
  <2>3. Appends(f, seqs, N)
    BY <2>1, <1>1, Appending
  <2>4. \A i \in 1 .. N : f[i] = IF i = 1 THEN seqs[i] ELSE f[i - 1] \o seqs[i]
    BY <2>3 DEF Appends
  <2> DEFINE Good(n) == f[n] \in Seq(T) /\ \E row, col : Places(f[n], row, col, seqs, n)
             bad == {n \in 1 .. N : ~Good(n)}
  <2>5. bad = {}
    <3>1. SUFFICES ASSUME bad # {} PROVE FALSE
      OBVIOUS
    <3>2. PICK n \in bad : \A m \in bad : n <= m
      <4>1. bad \subseteq Nat
        BY <1>1
      <4> HIDE DEF bad
      <4> QED
        BY <3>1, <4>1, Least
    <3>3. CASE n = 1
      <4>1. f[1] = seqs[1] /\ seqs[1] \in Seq(T)
        BY <2>4, <1>1, <1>3
      <4>2. Places(seqs[1], [k \in 1 .. Len(seqs[1]) |-> 1], [k \in 1 .. Len(seqs[1]) |-> k], seqs, 1)
        BY <4>1 DEF Places
      <4> QED
        BY <4>1, <4>2, <3>2, <3>3
    <3>4. CASE n # 1
      <4>1. n \in 1 .. N /\ n - 1 \in 1 .. N /\ Good(n - 1) /\ f[n] = f[n - 1] \o seqs[n] /\ seqs[n] \in Seq(T)
        <5>1. n \in 1 .. N /\ n - 1 \in 1 .. N /\ ~(n <= n - 1)
          BY <3>2, <3>4, <1>1
        <5> QED
          BY <3>2, <3>4, <5>1, <2>4, <1>1
      <4>2. PICK t : t = f[n - 1]
        OBVIOUS
      <4>3. PICK row, col : Places(t, row, col, seqs, n - 1)
        BY <4>1, <4>2
      <4>4. PICK u : u = t \o seqs[n]
        OBVIOUS
      <4>5. /\ t \in Seq(T) /\ u \in Seq(T) /\ u = f[n]
            /\ Len(t) \in Nat /\ Len(seqs[n]) \in Nat /\ Len(u) = Len(t) + Len(seqs[n])
            /\ \A k \in 1 .. Len(u) : u[k] = IF k <= Len(t) THEN t[k] ELSE seqs[n][k - Len(t)]
        <5> HIDE DEF Good
        <5>1. t \in Seq(T)
          BY <4>1, <4>2 DEF Good
        <5>2. seqs[n] \in Seq(T)
          BY <4>1
        <5> QED
          <6>1. f[n] = f[n - 1] \o seqs[n]
            BY <4>1
          <6>2. u = f[n]
            BY <4>2, <4>4, <6>1
          <6> HIDE DEF bad
          <6>3. u \in Seq(T) /\ Len(u) = Len(t) + Len(seqs[n])
            BY <4>4, <5>1, <5>2
          <6>4. \A k \in 1 .. Len(u) : u[k] = IF k <= Len(t) THEN t[k] ELSE seqs[n][k - Len(t)]
            BY <4>4, <5>1, <5>2
          <6> QED
            BY <5>1, <5>2, <6>2, <6>3, <6>4
      <4>6. /\ row \in [1 .. Len(t) -> 1 .. n - 1] /\ col \in [1 .. Len(t) -> Nat] /\ n \in Nat
            /\ \A k \in 1 .. Len(t) : col[k] \in 1 .. Len(seqs[row[k]]) /\ t[k] = seqs[row[k]][col[k]]
            /\ \A k, m \in 1 .. Len(t) : k < m => row[k] < row[m] \/ (row[k] = row[m] /\ col[k] < col[m])
        BY <4>1, <4>3 DEF Places
      <4> DEFINE row2 == [k \in 1 .. Len(u) |-> IF k <= Len(t) THEN row[k] ELSE n]
                 col2 == [k \in 1 .. Len(u) |-> IF k <= Len(t) THEN col[k] ELSE k - Len(t)]
      <4>7. Places(u, row2, col2, seqs, n)
        <5>1. row2 \in [1 .. Len(u) -> 1 .. n] /\ col2 \in [1 .. Len(u) -> Nat]
          BY <4>5, <4>6
        <5>2. \A k \in 1 .. Len(u) : col2[k] \in 1 .. Len(seqs[row2[k]]) /\ u[k] = seqs[row2[k]][col2[k]]
          <6>1. ASSUME NEW k \in 1 .. Len(u), k <= Len(t)
                PROVE  col2[k] \in 1 .. Len(seqs[row2[k]]) /\ u[k] = seqs[row2[k]][col2[k]]
            BY <4>5, <4>6, <6>1
          <6>2. ASSUME NEW k \in 1 .. Len(u), ~(k <= Len(t))
                PROVE  col2[k] \in 1 .. Len(seqs[row2[k]]) /\ u[k] = seqs[row2[k]][col2[k]]
            BY <4>5, <4>6, <6>2
          <6> QED
            BY <6>1, <6>2
        <5>3. ASSUME NEW k \in 1 .. Len(u), NEW m \in 1 .. Len(u), k < m
              PROVE  row2[k] < row2[m] \/ (row2[k] = row2[m] /\ col2[k] < col2[m])
          <6>1. /\ Len(t) \in Nat /\ k \in Nat /\ m \in Nat /\ n \in Nat
                /\ row2[k] = (IF k <= Len(t) THEN row[k] ELSE n)
                /\ col2[k] = (IF k <= Len(t) THEN col[k] ELSE k - Len(t))
                /\ row2[m] = (IF m <= Len(t) THEN row[m] ELSE n)
                /\ col2[m] = (IF m <= Len(t) THEN col[m] ELSE m - Len(t))
            BY <4>5, <4>6
          <6> HIDE DEF row2, col2
          <6>2. CASE m <= Len(t)
            <7>1. k \in 1 .. Len(t) /\ m \in 1 .. Len(t)
              BY <5>3, <6>1, <6>2
            <7>2. row[k] < row[m] \/ (row[k] = row[m] /\ col[k] < col[m])
              BY <4>6, <5>3, <7>1
            <7> QED
              BY <6>1, <7>1, <7>2
          <6>3. CASE k <= Len(t) /\ ~(m <= Len(t))
            <7>1. k \in 1 .. Len(t)
              BY <6>1, <6>3
            <7>2. row[k] \in 1 .. n - 1
              BY <4>6, <7>1
            <7>3. row2[k] = row[k] /\ row2[m] = n
              BY <6>1, <6>3
            <7>4. row[k] < n
              BY <6>1, <7>2
            <7> QED
              BY <7>3, <7>4
          <6>4. CASE ~(k <= Len(t)) /\ ~(m <= Len(t))
            BY <5>3, <6>1, <6>4
          <6> QED
            BY <5>3, <6>1, <6>2, <6>3, <6>4
        <5> QED
          BY <5>1, <5>2, <5>3 DEF Places
      <4> QED
        BY <4>5, <4>7, <3>2
    <3> QED
      BY <3>3, <3>4
  <2>6. Good(N)
    <3>1. N \in 1 .. N
      BY <1>1, <1>3
    <3> QED
      BY <2>5, <3>1
  <2> QED
    BY <2>2, <2>6
<1> QED
  BY <1>2, <1>3

-----------------------------------------------------------------------------
(* What the builders take and make.                                        *)

\* The actions validate_agent_action_plan returns, and the requests of the builders.
Acts ==
  [tool : Tools \cup {"shell"}, method : Methods, res : Resources, detail : BOOLEAN, search : BOOLEAN,
   constraints : SUBSET Markers, benign : BOOLEAN, policy : Policies, allowed : BOOLEAN]

Requests ==
  [method : Methods, res : Resources, detail : BOOLEAN, needs : SUBSET Vars, gives : SUBSET Vars,
   skip : Skips, category : Categories, authed : BOOLEAN, list : BOOLEAN, search : BOOLEAN,
   checks : SUBSET Assertions, source : {"action", "case", "schema", "url"},
   from : Seq(Acts \cup Cases \cup Endpoints)]

LEMMA Listed ==
  ASSUME NEW S, NEW n \in Nat, NEW f \in [1 .. n -> S]
  PROVE  f \in Seq(S) /\ Len(f) = n /\ DOMAIN f = 1 .. n
OBVIOUS

LEMMA ExpectedType ==
  \A answers : /\ Expected(answers) \in Assertions
               /\ Expected(answers).kind = "status" /\ ~Expected(answers).readable
<1> TAKE answers
<1>1. /\ ("success" \in answers) \in BOOLEAN /\ ("rejection" \in answers) \in BOOLEAN
      /\ "status" \in {"status", "other"} \cup BodyKinds /\ "equals" \in {"equals", "exists", "other"}
      /\ {} \in SUBSET {"schema", "example", "objective"} /\ TRUE \in BOOLEAN /\ FALSE \in BOOLEAN
  OBVIOUS
<1> QED
  BY <1>1 DEF Expected, Assertions

LEMMA BlankIsARequest ==
  /\ Blank \in Requests /\ Blank.method = "GET" /\ Blank.skip = "no" /\ Blank.source = "url"
  /\ Blank.gives = {}
<1>1. (CHOOSE r \in Resources : TRUE) \in Resources
  BY ResourceAssumption
<1>2. /\ << >> \in Seq(Acts \cup Cases \cup Endpoints) /\ "GET" \in Methods /\ "no" \in Skips
      /\ "SMOKE" \in Categories
  BY DEF Methods, SafeMethods, Skips, Categories
<1> QED
  BY <1>1, <1>2, ExpectedType DEF Blank, Requests

\* What the sanitizer makes of an assertion is an assertion.
LEMMA ScopedType ==
  ASSUME NEW a \in Assertions, NEW k \in Cases, NEW strict \in BOOLEAN
  PROVE  Scoped(a, k, strict) \in Assertions
<1>1. Downgraded(a) \in Assertions
  BY DEF Downgraded, Assertions
<1>2. StatusScoped(a, k) \in Assertions
  <2>1. [a EXCEPT !.fits = TRUE, !.lax = FALSE] \in Assertions
    BY DEF Assertions
  <2> QED
    BY <2>1 DEF StatusScoped
<1>3. [a EXCEPT !.kind = "type"] \in Assertions
  BY DEF Assertions, BodyKinds
<1> QED
  BY <1>1, <1>2, <1>3 DEF Scoped, PathScoped, TypeScoped, OtherScoped

LEMMA SanitizedType ==
  ASSUME NEW k \in Cases, NEW schema \in Seq(Endpoints), NEW strict \in BOOLEAN
  PROVE  /\ Sanitized(k, schema, strict) \in Cases
         /\ Sanitized(k, schema, strict).method = k.method
         /\ Sanitized(k, schema, strict).res = k.res
         /\ Sanitized(k, schema, strict).detail = k.detail
         /\ \E known \in Cases :
              /\ known.schema = Sanitized(k, schema, strict).schema /\ known.category = k.category
              /\ Sanitized(k, schema, strict).category = k.category
              /\ Sanitized(k, schema, strict).asserts = {Scoped(a, known, strict) : a \in k.asserts}
<1> DEFINE known == [k EXCEPT !.schema = @ \/ \E i \in Matching(k, schema) : schema[i].schema # "none"]
           s == Sanitized(k, schema, strict)
<1>1. known \in Cases /\ known.asserts = k.asserts
  BY DEF Cases
<1>2. s = [known EXCEPT !.asserts = {Scoped(a, known, strict) : a \in k.asserts}]
  BY DEF Sanitized
<1>3. \A a \in k.asserts : a \in Assertions
  BY DEF Cases
<1>4. {Scoped(a, known, strict) : a \in k.asserts} \in SUBSET Assertions
  <2> HIDE DEF known
  <2> QED
    BY <1>1, <1>3, ScopedType
<1>5. /\ known.method = k.method /\ known.res = k.res /\ known.detail = k.detail
      /\ known.category = k.category
  BY DEF Cases
<1> HIDE DEF known
<1>6. s \in Cases /\ s.asserts = {Scoped(a, known, strict) : a \in k.asserts}
  BY <1>1, <1>2, <1>4 DEF Cases
<1>7. /\ s.method = k.method /\ s.res = k.res /\ s.detail = k.detail /\ s.category = k.category
      /\ s.schema = known.schema
  BY <1>1, <1>2, <1>5 DEF Cases
<1> QED
  BY <1>1, <1>5, <1>6, <1>7

\* The cases of a run are sanitized ones of those given, and in scope if generated.
LEMMA RunCasesType ==
  ASSUME NEW c \in Configurations
  PROVE  /\ RunCases(c) \in Seq(Cases)
         /\ \A i \in DOMAIN RunCases(c) : \E k \in Cases :
              /\ RunCases(c)[i] = Sanitized(k, c.schema, c.generated)
              /\ c.generated => InScope(k, c)
<1>1. c.cases \in Seq(Cases) /\ c.schema \in Seq(Endpoints) /\ c.generated \in BOOLEAN
  BY DEF Configurations
<1>2. CASE c.generated
  <2> DEFINE I == {i \in DOMAIN c.cases : InScope(c.cases[i], c)}
  <2>1. PICK kept : kept = Picked(c.cases, I)
    OBVIOUS
  <2>2. kept \in Seq(Cases) /\ \A k \in 1 .. Len(kept) : \E i \in I : kept[k] = c.cases[i]
    <3>1. I \in SUBSET (DOMAIN c.cases)
      OBVIOUS
    <3> HIDE DEF I
    <3> QED
      BY <1>1, <2>1, <3>1, PickedType
  <2>3. \A k \in 1 .. Len(kept) : InScope(kept[k], c) /\ kept[k] \in Cases
    BY <2>2
  <2>4. RunCases(c) = [i \in 1 .. Len(kept) |-> Sanitized(kept[i], c.schema, TRUE)]
    BY <1>2, <2>1, <2>2 DEF RunCases, ValidCases
  <2>5. \A k \in 1 .. Len(kept) : Sanitized(kept[k], c.schema, TRUE) \in Cases
    BY <1>1, <2>3, SanitizedType
  <2>6. RunCases(c) \in Seq(Cases)
    <3>1. Len(kept) \in Nat /\ RunCases(c) \in [1 .. Len(kept) -> Cases]
      <4>1. Len(kept) \in Nat
        BY <2>2
      <4>2. RunCases(c) \in [1 .. Len(kept) -> Cases]
        BY <2>4, <2>5, Zenon
      <4> QED
        BY <4>1, <4>2
    <3> QED
      BY <3>1, Listed
  <2> QED
    BY <1>2, <2>3, <2>4, <2>6
<1>3. CASE ~c.generated
  <2>1. RunCases(c) = [i \in 1 .. Len(c.cases) |-> Sanitized(c.cases[i], c.schema, FALSE)]
    BY <1>1, <1>3 DEF RunCases, SanitizedCases
  <2>2. \A k \in 1 .. Len(c.cases) : c.cases[k] \in Cases /\ Sanitized(c.cases[k], c.schema, FALSE) \in Cases
    <3>1. \A k \in 1 .. Len(c.cases) : c.cases[k] \in Cases
      BY <1>1
    <3> QED
      BY <1>1, <3>1, SanitizedType
  <2>3. RunCases(c) \in Seq(Cases)
    <3>1. Len(c.cases) \in Nat /\ RunCases(c) \in [1 .. Len(c.cases) -> Cases]
      <4>1. Len(c.cases) \in Nat
        BY <1>1
      <4>2. RunCases(c) \in [1 .. Len(c.cases) -> Cases]
        BY <2>1, <2>2, Zenon
      <4> QED
        BY <4>1, <4>2
    <3> QED
      BY <3>1, Listed
  <2> QED
    BY <1>1, <1>3, <2>1, <2>2, <2>3
<1> QED
  BY <1>2, <1>3

LEMMA SchemaCheckType == \A b \in BOOLEAN : SchemaCheck(b) \in Assertions
BY DEF SchemaCheck, Assertions, BodyKinds

LEMMA DocumentedType ==
  ASSUME NEW E \in SUBSET Endpoints
  PROVE  DocumentedChecks(E) \in SUBSET Assertions
<1>1. \A e \in E : SchemaCheck(e.schema = "required") \in Assertions
  <2>1. \A e \in E : (e.schema = "required") \in BOOLEAN
    OBVIOUS
  <2> QED
    BY <2>1, SchemaCheckType
<1> QED
  BY <1>1, ExpectedType DEF DocumentedChecks

LEMMA NeedsType ==
  ASSUME NEW e, e.res \in Resources
  PROVE  PathNeeds(e) \in SUBSET Vars /\ PathNeeds(e) \subseteq {e.res}
BY DEF PathNeeds, Vars

\* What a request of a case is, and what let it through if it is a write.
LEMMA CaseRequestType ==
  ASSUME NEW k \in Cases, NEW c \in Configurations
  PROVE  /\ CaseRequest(k, c) \in Requests
         /\ CaseRequest(k, c).source = "case" /\ CaseRequest(k, c).from = <<k>>
         /\ CaseRequest(k, c).skip = CaseSkip(k, c) /\ CaseSkip(k, c) \in {"no", "gate", "read_only"}
         /\ CaseRequest(k, c).method = k.method /\ CaseRequest(k, c).res = k.res
         /\ CaseRequest(k, c).detail = k.detail
         /\ CaseRequest(k, c).category = IF CaseSkip(k, c) = "no" THEN k.category ELSE "SKIPPED"
         /\ CaseRequest(k, c).checks = CaseChecks(k)
         /\ CaseSkip(k, c) = "no" /\ Write(k.method) =>
              /\ WriteAllowed(c.policy)
              /\ \/ k.method # "DELETE" /\ (k.benign \/ k.res \in NonMutating)
                 \/ k.marked /\ k.constraints # {}
<1> DEFINE skip == CaseSkip(k, c)
           q == CaseRequest(k, c)
           needs == IF skip = "no" THEN k.needs \cup PathNeeds(k) ELSE {}
           gives == IF skip = "no" THEN k.gives ELSE {}
           category == IF skip = "no" THEN k.category ELSE "SKIPPED"
           authed == c.headers /\ skip = "no" /\ k.category \notin Probes
           checks == CaseChecks(k)
<1>1. skip \in {"no", "gate", "read_only"}
  BY DEF CaseSkip
<1>2. skip = "no" /\ Write(k.method) =>
              /\ WriteAllowed(c.policy)
              /\ \/ k.method # "DELETE" /\ (k.benign \/ k.res \in NonMutating)
                 \/ k.marked /\ k.constraints # {}
  BY DEF CaseSkip, SafeWriteSkips, CaseApproved, Has
<1>3. /\ needs \in SUBSET Vars /\ gives \in SUBSET Vars /\ category \in Categories
      /\ authed \in BOOLEAN /\ skip \in Skips /\ checks \in SUBSET Assertions
  <2>1. k.needs \in SUBSET Vars /\ k.gives \in SUBSET Vars /\ k.category \in Categories
        /\ c.headers \in BOOLEAN /\ k.res \in Resources /\ k.asserts \in SUBSET Assertions
    BY DEF Cases, Configurations
  <2>2. PathNeeds(k) \in SUBSET Vars
    BY <2>1, NeedsType
  <2>3. checks \in SUBSET Assertions
    BY <2>1, SchemaCheckType, ExpectedType DEF CaseChecks
  <2> HIDE DEF checks
  <2> QED
    BY <1>1, <2>1, <2>2, <2>3 DEF Skips, Categories
<1>4. <<k>> \in Seq(Acts \cup Cases \cup Endpoints)
  OBVIOUS
<1>5. k.method \in Methods /\ k.res \in Resources /\ k.detail \in BOOLEAN
  BY DEF Cases
<1>6. q = [Blank EXCEPT !.method = k.method, !.res = k.res, !.detail = k.detail, !.needs = needs,
             !.gives = gives, !.skip = skip, !.category = category, !.authed = authed,
             !.checks = checks, !.source = "case", !.from = <<k>>]
  BY DEF CaseRequest
<1> HIDE DEF skip, q, needs, gives, category, authed, checks
<1>7. /\ q \in Requests /\ q.source = "case" /\ q.from = <<k>> /\ q.skip = skip
      /\ q.method = k.method /\ q.res = k.res /\ q.detail = k.detail /\ q.category = category
      /\ q.checks = checks
  <2>1. q = [method |-> k.method, res |-> k.res, detail |-> k.detail, needs |-> needs, gives |-> gives,
          skip |-> skip, category |-> category, authed |-> authed, list |-> FALSE,
          search |-> FALSE, checks |-> checks, source |-> "case", from |-> <<k>>]
    BY <1>6 DEF Blank
  <2> QED
    BY <1>3, <1>4, <1>5, <2>1 DEF Requests
<1> QED
  BY <1>1, <1>2, <1>7 DEF skip, q, category, checks

\* What a request of an action is; one that is skipped is a write whose gate was
\* not passed.
LEMMA ActionRequestType ==
  ASSUME NEW a \in Acts, NEW c \in Configurations, NEW confirmed \in BOOLEAN
  PROVE  LET q == ActionRequest(a, c, confirmed)
         IN  /\ q \in Requests /\ q.source = "action" /\ q.from = <<a>>
             /\ q.method = a.method /\ q.res = a.res /\ q.detail = a.detail /\ q.search = a.search
             /\ q.gives = {} /\ q.needs \subseteq {a.res} /\ q.skip \in {"no", "gate"}
             /\ q.skip = "no" => q.category = "SMOKE" /\ q.needs = PathNeeds(a)
             /\ q.skip = "no" /\ Write(q.method) =>
                  \/ q.method # "DELETE" /\ (a.benign \/ q.res \in NonMutating)
                  \/ ActionApproved(a, confirmed)
             /\ q.skip # "no" => Write(q.method) /\ ~CaseApproved(ActionApproved(a, confirmed), a.method, a.constraints)
<1> DEFINE skipped == SafeWriteSkips(a.method, CaseApproved(ActionApproved(a, confirmed), a.method, a.constraints),
                                     a.benign \/ a.res \in NonMutating)
           q == ActionRequest(a, c, confirmed)
           needs == IF skipped THEN {} ELSE PathNeeds(a)
           skip == IF skipped THEN "gate" ELSE "no"
           category == IF skipped THEN "SKIPPED" ELSE "SMOKE"
           authed == c.headers /\ ~skipped
           checks == DocumentedChecks({c.schema[i] : i \in Matching(a, c.schema)})
<1>1. skipped \in BOOLEAN
  BY DEF SafeWriteSkips
<1>2. /\ skip = "no" /\ Write(a.method) =>
            \/ a.method # "DELETE" /\ (a.benign \/ a.res \in NonMutating)
            \/ ActionApproved(a, confirmed)
      /\ skip # "no" => Write(a.method) /\ ~CaseApproved(ActionApproved(a, confirmed), a.method, a.constraints)
  BY DEF SafeWriteSkips, CaseApproved
<1>3. a.method \in Methods /\ a.res \in Resources /\ a.detail \in BOOLEAN /\ a.search \in BOOLEAN
  BY DEF Acts
<1>4. checks \in SUBSET Assertions
  <2>1. {c.schema[i] : i \in Matching(a, c.schema)} \in SUBSET Endpoints
    BY DEF Configurations, Matching
  <2> QED
    BY <2>1, DocumentedType
<1>5. /\ needs \in SUBSET Vars /\ needs \subseteq {a.res} /\ skip \in Skips /\ category \in Categories
      /\ authed \in BOOLEAN
  BY <1>1, <1>3, NeedsType DEF Skips, Categories, Configurations
<1>6. <<a>> \in Seq(Acts \cup Cases \cup Endpoints)
  OBVIOUS
<1>7. q = [Blank EXCEPT !.method = a.method, !.res = a.res, !.detail = a.detail, !.search = a.search,
             !.needs = needs, !.skip = skip, !.category = category, !.authed = authed,
             !.checks = checks, !.source = "action", !.from = <<a>>]
  BY DEF ActionRequest
<1>8. skip \in {"no", "gate"} /\ (skip = "no" => category = "SMOKE" /\ needs = PathNeeds(a))
  OBVIOUS
<1> HIDE DEF skipped, q, needs, skip, category, authed, checks
<1>9. /\ q \in Requests /\ q.source = "action" /\ q.from = <<a>>
      /\ q.method = a.method /\ q.res = a.res /\ q.detail = a.detail /\ q.search = a.search
      /\ q.gives = {} /\ q.needs = needs /\ q.skip = skip /\ q.category = category
  <2>1. q = [method |-> a.method, res |-> a.res, detail |-> a.detail, needs |-> needs, gives |-> {},
          skip |-> skip, category |-> category, authed |-> authed, list |-> FALSE,
          search |-> a.search, checks |-> checks, source |-> "action", from |-> <<a>>]
    BY <1>7 DEF Blank
  <2> QED
    BY <1>3, <1>4, <1>5, <1>6, <2>1 DEF Requests
<1> QED
  BY <1>2, <1>5, <1>8, <1>9 DEF q

\* A request of an endpoint that is sent is a read, or no deletion and its path or its
\* text says that it changes nothing.
Harmless(q) ==
  q.skip = "no" /\ Write(q.method) =>
    /\ q.method # "DELETE"
    /\ q.res \in NonMutating \/ (q.source = "schema" /\ q.from[1].benign)

LEMMA SchemaRequestType ==
  ASSUME NEW e \in Endpoints, NEW category \in Categories, NEW skip \in Skips, NEW authed \in BOOLEAN
  PROVE  LET q == SchemaRequest(e, category, skip, authed)
         IN  /\ q \in Requests /\ q.source = "schema" /\ q.skip = skip
             /\ q.method = e.method /\ q.res = e.res /\ q.from = <<e>>
<1> DEFINE q == SchemaRequest(e, category, skip, authed)
           needs == IF category = "AUTH" \/ skip = "auth" THEN {} ELSE PathNeeds(e)
           checks == IF category = "SMOKE" THEN DocumentedChecks({e}) ELSE {}
<1>1. e.method \in Methods /\ e.res \in Resources /\ e.detail \in BOOLEAN /\ e.list \in BOOLEAN
  BY DEF Endpoints
<1>2. needs \in SUBSET Vars /\ checks \in SUBSET Assertions
  BY <1>1, NeedsType, DocumentedType
<1>3. <<e>> \in Seq(Acts \cup Cases \cup Endpoints)
  OBVIOUS
<1>4. q = [Blank EXCEPT !.method = e.method, !.res = e.res, !.detail = e.detail, !.needs = needs,
             !.skip = skip, !.category = category, !.authed = authed, !.list = e.list,
             !.checks = checks, !.source = "schema", !.from = <<e>>]
  BY DEF SchemaRequest
<1> HIDE DEF q, needs, checks
<1>5. /\ q \in Requests /\ q.source = "schema" /\ q.skip = skip
      /\ q.method = e.method /\ q.res = e.res /\ q.from = <<e>>
  <2>1. q = [method |-> e.method, res |-> e.res, detail |-> e.detail, needs |-> needs, gives |-> {},
          skip |-> skip, category |-> category, authed |-> authed, list |-> e.list,
          search |-> FALSE, checks |-> checks, source |-> "schema", from |-> <<e>>]
    BY <1>4 DEF Blank
  <2> QED
    BY <1>1, <1>2, <1>3, <2>1 DEF Requests
<1> QED
  BY <1>5 DEF q

-----------------------------------------------------------------------------
(* The plan, and the chains that are added to it.                          *)

LEMMA PickedHead ==
  ASSUME NEW T, NEW s \in Seq(T), NEW I \in SUBSET (DOMAIN s), Picked(s, I) # << >>
  PROVE  \E i \in I : Head(Picked(s, I)) = s[i]
<1>1. PICK p : p = Picked(s, I)
  OBVIOUS
<1>2. p \in Seq(T) /\ \A k \in 1 .. Len(p) : \E i \in I : p[k] = s[i]
  BY <1>1, PickedType
<1>3. Len(p) # 0 /\ Head(p) = p[1]
  BY <1>1, <1>2
<1> QED
  BY <1>1, <1>2, <1>3

\* The endpoints for a method of a resource, and the one chosen of them.
LEMMA OfResourceType ==
  ASSUME NEW schema \in Seq(Endpoints), NEW r, NEW m
  PROVE  /\ OfResource(schema, r, m) \in Seq(Endpoints)
         /\ \A k \in 1 .. Len(OfResource(schema, r, m)) : \E i \in DOMAIN schema :
              OfResource(schema, r, m)[k] = schema[i] /\ schema[i].res = r /\ schema[i].method = m
<1> DEFINE I == {i \in DOMAIN schema : schema[i].res = r /\ schema[i].method = m}
<1>1. I \in SUBSET (DOMAIN schema)
  OBVIOUS
<1>2. PICK p : p = Picked(schema, I)
  OBVIOUS
<1>3. p \in Seq(Endpoints) /\ \A k \in 1 .. Len(p) : \E i \in I : p[k] = schema[i]
  <2> HIDE DEF I
  <2> QED
    BY <1>1, <1>2, PickedType
<1>4. OfResource(schema, r, m) = p
  BY <1>2 DEF OfResource
<1> QED
  BY <1>3, <1>4

\* An endpoint of the description for a method of a resource.
IsOf(schema, e, r, m) == \E i \in DOMAIN schema : e = schema[i] /\ schema[i].res = r /\ schema[i].method = m

LEMMA WithOne ==
  ASSUME NEW schema \in Seq(Endpoints), NEW r, NEW m, NEW d, With(OfResource(schema, r, m), d) # << >>
  PROVE  IsOf(schema, Head(With(OfResource(schema, r, m), d)), r, m)
<1>1. PICK p : p = OfResource(schema, r, m)
  OBVIOUS
<1>2. p \in Seq(Endpoints) /\ \A k \in 1 .. Len(p) : \E i \in DOMAIN schema :
              p[k] = schema[i] /\ schema[i].res = r /\ schema[i].method = m
  BY <1>1, OfResourceType
<1> DEFINE I == {i \in DOMAIN p : p[i].detail = d}
<1>3. With(p, d) = Picked(p, I)
  BY DEF With
<1>4. \E i \in I : Head(With(p, d)) = p[i]
  <2>1. I \in SUBSET (DOMAIN p) /\ Picked(p, I) # << >>
    BY <1>1, <1>3
  <2> HIDE DEF I
  <2> QED
    BY <1>2, <1>3, <2>1, PickedHead
<1> QED
  BY <1>1, <1>2, <1>4 DEF IsOf

LEMMA ChosenOne ==
  ASSUME NEW schema \in Seq(Endpoints), NEW r, NEW m, NEW d, OfResource(schema, r, m) # << >>
  PROVE  IsOf(schema, Chosen(OfResource(schema, r, m), d), r, m)
<1>1. PICK p : p = OfResource(schema, r, m)
  OBVIOUS
<1>2. p \in Seq(Endpoints) /\ \A k \in 1 .. Len(p) : \E i \in DOMAIN schema :
              p[k] = schema[i] /\ schema[i].res = r /\ schema[i].method = m
  BY <1>1, OfResourceType
<1>3. CASE With(p, d) # << >>
  BY <1>1, <1>3, WithOne DEF Chosen
<1>4. CASE With(p, d) = << >>
  <2>1. Len(p) # 0 /\ Head(p) = p[1]
    BY <1>1, <1>2
  <2> QED
    BY <1>1, <1>2, <1>4, <2>1 DEF Chosen, IsOf
<1> QED
  BY <1>3, <1>4

\* A step made of such an endpoint.
LEMMA StepType ==
  ASSUME NEW schema \in Seq(Endpoints), NEW e, NEW r, NEW m, IsOf(schema, e, r, m),
         NEW constraints \in SUBSET Markers
  PROVE  /\ Step(e, constraints) \in Steps
         /\ Step(e, constraints).tool = "http"
         /\ Step(e, constraints).method = m
         /\ Step(e, constraints).res = r
         /\ Step(e, constraints).constraints = constraints
         /\ InSchema(Step(e, constraints), schema)
<1>1. PICK i \in DOMAIN schema : e = schema[i] /\ schema[i].res = r /\ schema[i].method = m
  BY DEF IsOf
<1>2. /\ e \in Endpoints
  BY <1>1
<1>3. /\ e.method \in Methods /\ e.res \in Resources /\ e.detail \in BOOLEAN
      /\ (e.search /\ ~e.detail) \in BOOLEAN
  BY <1>2 DEF Endpoints
<1> QED
  BY <1>1, <1>3 DEF Step, Steps, Tools, InSchema

\* The five steps of a chain after its gate: the creation is the first.
LEMMA ChainType ==
  ASSUME NEW schema \in Seq(Endpoints), NEW r \in Resources, Complete(schema, r)
  PROVE  /\ Chain(schema, r) \in Seq(Steps)
         /\ Len(Chain(schema, r)) \in {0, 6}
         /\ \A j \in 1 .. Len(Chain(schema, r)) :
              LET s == Chain(schema, r)[j]
              IN  /\ s.res = r
                  /\ j = 1 => s.tool = "gate"
                  /\ j # 1 => s.tool = "http" /\ InSchema(s, schema)
                  /\ j = 2 => s.method = "POST"
                  /\ j # 2 => s.method # "POST"
                  /\ Write(s.method) => j # 1 /\ Has(s.constraints, ConfirmMarkers)
                                          /\ Has(s.constraints, IsolationMarkers)
                  /\ s.method = "DELETE" => Has(s.constraints, CleanupMarkers)
<1>1. CASE With(OfResource(schema, r, "GET"), TRUE) = << >>
  <2>1. Chain(schema, r) = << >>
    BY <1>1 DEF Chain
  <2> QED
    BY <2>1
<1>2. CASE With(OfResource(schema, r, "GET"), TRUE) # << >>
  <2>1. /\ OfResource(schema, r, "POST") # << >> /\ OfResource(schema, r, "GET") # << >>
        /\ OfResource(schema, r, "PUT") # << >> /\ OfResource(schema, r, "DELETE") # << >>
    BY DEF Complete, Methods, SafeMethods, WriteMethods
  <2> DEFINE e2 == Chosen(OfResource(schema, r, "POST"), FALSE)
             e3 == Chosen(OfResource(schema, r, "GET"), FALSE)
             e4 == Head(With(OfResource(schema, r, "GET"), TRUE))
             e5 == Chosen(OfResource(schema, r, "PUT"), FALSE)
             e6 == Chosen(OfResource(schema, r, "DELETE"), TRUE)
  <2>2. IsOf(schema, e2, r, "POST")
    BY <2>1, ChosenOne
  <2>3. IsOf(schema, e3, r, "GET")
    BY <2>1, ChosenOne
  <2>4. IsOf(schema, e4, r, "GET")
    BY <1>2, WithOne
  <2>5. IsOf(schema, e5, r, "PUT")
    BY <2>1, ChosenOne
  <2>6. IsOf(schema, e6, r, "DELETE")
    BY <2>1, ChosenOne
  <2> DEFINE c2 == {"confirm_test_env", "unique_prefix"}
             c3 == {"unique_prefix"}
             c4 == {}
             c6 == {"confirm_test_env", "unique_prefix", "cleanup", "require_cleanup"}
             s1 == GateStep(r)
             s2 == Step(e2, c2)
             s3 == Step(e3, c3)
             s4 == Step(e4, c4)
             s5 == Step(e5, c2)
             s6 == Step(e6, c6)
  <2>7. /\ c2 \in SUBSET Markers /\ c3 \in SUBSET Markers /\ c4 \in SUBSET Markers /\ c6 \in SUBSET Markers
        /\ Has(c2, ConfirmMarkers) /\ Has(c2, IsolationMarkers)
        /\ Has(c6, ConfirmMarkers) /\ Has(c6, IsolationMarkers) /\ Has(c6, CleanupMarkers)
    BY DEF Markers, Has, ConfirmMarkers, IsolationMarkers, CleanupMarkers
  <2>8. s1 \in Steps /\ s1.tool = "gate" /\ s1.res = r /\ s1.method = "GET"
    BY DEF GateStep, Steps, Tools, Methods, SafeMethods, Markers
  <2>9. Chain(schema, r) = << s1, s2, s3, s4, s5, s6 >>
    BY <1>2 DEF Chain
  <2> HIDE DEF e2, e3, e4, e5, e6, c2, c3, c4, c6, s1
  <2>10. s2 \in Steps /\ s2.tool = "http" /\ s2.method = "POST" /\ s2.res = r /\ s2.constraints = c2 /\ InSchema(s2, schema)
    BY <2>2, <2>7, StepType
  <2>11. s3 \in Steps /\ s3.tool = "http" /\ s3.method = "GET" /\ s3.res = r /\ InSchema(s3, schema)
    BY <2>3, <2>7, StepType
  <2>12. s4 \in Steps /\ s4.tool = "http" /\ s4.method = "GET" /\ s4.res = r /\ InSchema(s4, schema)
    BY <2>4, <2>7, StepType
  <2>13. s5 \in Steps /\ s5.tool = "http" /\ s5.method = "PUT" /\ s5.res = r /\ s5.constraints = c2 /\ InSchema(s5, schema)
    BY <2>5, <2>7, StepType
  <2>14. s6 \in Steps /\ s6.tool = "http" /\ s6.method = "DELETE" /\ s6.res = r /\ s6.constraints = c6 /\ InSchema(s6, schema)
    BY <2>6, <2>7, StepType
  <2> HIDE DEF s2, s3, s4, s5, s6
  <2>15. PICK ch : ch = << s1, s2, s3, s4, s5, s6 >>
    OBVIOUS
  <2>16. ch \in Seq(Steps) /\ Len(ch) = 6 /\ ch[1] = s1 /\ ch[2] = s2 /\ ch[3] = s3 /\ ch[4] = s4 /\ ch[5] = s5 /\ ch[6] = s6
    BY <2>8, <2>10, <2>11, <2>12, <2>13, <2>14, <2>15
  <2>17. ASSUME NEW j \in 1 .. 6
         PROVE  /\ ch[j].res = r
                /\ j = 1 => ch[j].tool = "gate"
                /\ j # 1 => ch[j].tool = "http" /\ InSchema(ch[j], schema)
                /\ j = 2 => ch[j].method = "POST"
                /\ j # 2 => ch[j].method # "POST"
                /\ Write(ch[j].method) => j # 1 /\ Has(ch[j].constraints, ConfirmMarkers)
                                          /\ Has(ch[j].constraints, IsolationMarkers)
                /\ ch[j].method = "DELETE" => Has(ch[j].constraints, CleanupMarkers)
    <3>1. j = 1 \/ j = 2 \/ j = 3 \/ j = 4 \/ j = 5 \/ j = 6
      OBVIOUS
    <3> QED
      BY <3>1, <2>7, <2>8, <2>10, <2>11, <2>12, <2>13, <2>14, <2>16 DEF Write, WriteMethods
  <2> QED
    BY <2>9, <2>15, <2>16, <2>17
<1> QED
  BY <1>1, <1>2

\* The beginning of a list.
LEMMA PrefixType ==
  ASSUME NEW T, NEW s \in Seq(T), NEW n \in 0 .. Len(s)
  PROVE  /\ SubSeq(s, 1, n) \in Seq(T) /\ Len(SubSeq(s, 1, n)) = n
         /\ \A i \in 1 .. n : SubSeq(s, 1, n)[i] = s[i]
<1>1. n \in Int /\ 1 \in Int /\ \A i \in 1 .. n : s[i] \in T
  OBVIOUS
<1>2. /\ SubSeq(s, 1, n) \in Seq(T)
      /\ Len(SubSeq(s, 1, n)) = IF 1 <= n THEN n - 1 + 1 ELSE 0
      /\ \A i \in 1 .. n - 1 + 1 : SubSeq(s, 1, n)[i] = s[1 + i - 1]
  BY <1>1, SubSeqProperties
<1> QED
  BY <1>2

LEMMA ValidatedType ==
  ASSUME NEW plan \in Seq(Steps), NEW schema \in Seq(Endpoints), NEW policy \in Policies
  PROVE  /\ Validated(plan, schema, policy) \in Seq(Acts)
         /\ Len(Validated(plan, schema, policy)) = Len(plan)
         /\ \A i \in 1 .. Len(plan) :
              LET a == Validated(plan, schema, policy)[i]
              IN  /\ a.tool = plan[i].tool /\ a.method = plan[i].method /\ a.res = plan[i].res
                  /\ a.constraints = plan[i].constraints /\ a.policy = policy
<1> DEFINE Act(s) == [tool |-> s.tool, method |-> s.method, res |-> s.res,
                      detail |-> s.detail, search |-> s.search,
                      constraints |-> s.constraints, benign |-> s.benign, policy |-> policy,
                      allowed |-> s.tool \in Tools /\ ApiActionAllowed(s, schema, policy)]
           v == Validated(plan, schema, policy)
<1>1. v = [i \in 1 .. Len(plan) |-> Act(plan[i])]
  BY DEF Validated
<1>2. \A s \in Steps : Act(s) \in Acts
  <2> TAKE s \in Steps
  <2>1. (s.tool \in Tools /\ ApiActionAllowed(s, schema, policy)) \in BOOLEAN
    BY DEF ApiActionAllowed
  <2> QED
    BY <2>1 DEF Steps, Acts
<1>3. \A s : /\ Act(s).tool = s.tool /\ Act(s).method = s.method /\ Act(s).res = s.res
             /\ Act(s).constraints = s.constraints /\ Act(s).policy = policy
  OBVIOUS
<1>4. \A i \in 1 .. Len(plan) : plan[i] \in Steps
  OBVIOUS
<1> HIDE DEF Act, v
<1>5. v \in [1 .. Len(plan) -> Acts]
  BY <1>1, <1>2, <1>4, Zenon
<1>6. Len(plan) \in Nat
  OBVIOUS
<1>7. v \in Seq(Acts) /\ Len(v) = Len(plan)
  BY <1>5, <1>6, Listed
<1> QED
  BY <1>1, <1>3, <1>7 DEF v

\* The resources with a chain are distinct.
LEMMA ChainedType ==
  ASSUME NEW schema \in Seq(Endpoints)
  PROVE  /\ Chained(schema) \in Seq(Resources)
         /\ \A k \in 1 .. Len(Chained(schema)) : Complete(schema, Chained(schema)[k])
         /\ \A k, m \in 1 .. Len(Chained(schema)) : k < m => Chained(schema)[k] # Chained(schema)[m]
<1> DEFINE U == Resources \ HighRisk
           n == Cardinality(U)
           low == SetToSeq(U)
           I == {i \in DOMAIN low : Complete(schema, low[i]) /\ Chain(schema, low[i]) # << >>}
<1>1. IsFiniteSet(U)
  BY FS_Subset, ResourceAssumption
<1>2. n \in Nat
  BY <1>1, FS_CardinalityType
<1>3. \E f : f \in [1 .. n -> U] /\ IsInjective(f)
  <2>1. PICK f : f \in Bijection(1 .. n, U)
    BY <1>1, <1>2, FS_CardinalityType DEF ExistsBijection
  <2>2. f \in [1 .. n -> U] /\ IsInjective(f)
    BY <2>1 DEF Bijection, Injection, IsInjective
  <2> QED
    BY <2>2
<1>4. low \in [1 .. n -> U] /\ IsInjective(low)
  BY <1>3, Zenon DEF SetToSeq
<1>5. low \in Seq(Resources)
  <2>1. U \subseteq Resources
    OBVIOUS
  <2> HIDE DEF U
  <2>2. low \in [1 .. n -> Resources]
    BY <1>4, <2>1
  <2> HIDE DEF low
  <2> QED
    BY <1>2, <2>2
<1>6. I \in SUBSET (DOMAIN low)
  OBVIOUS
<1>7. Chained(schema) = Picked(low, I)
  BY DEF Chained
<1>8. \A i \in I : Complete(schema, low[i])
  OBVIOUS
<1>9. \A i, j \in DOMAIN low : low[i] = low[j] => i = j
  BY <1>4 DEF IsInjective
<1> HIDE DEF I, low, U
<1>10. /\ Cardinality(I) \in Nat
      /\ \E at \in [1 .. Cardinality(I) -> I] :
              /\ Picked(low, I) = [k \in 1 .. Cardinality(I) |-> low[at[k]]]
              /\ \A k, m \in 1 .. Cardinality(I) : k < m => at[k] < at[m]
  BY <1>5, <1>6, PickedPlaces
<1>11. PICK at \in [1 .. Cardinality(I) -> I] :
              /\ Picked(low, I) = [k \in 1 .. Cardinality(I) |-> low[at[k]]]
              /\ \A k, m \in 1 .. Cardinality(I) : k < m => at[k] < at[m]
  BY <1>10
<1>12. Picked(low, I) \in Seq(Resources) /\ Len(Picked(low, I)) = Cardinality(I)
  BY <1>5, <1>6, PickedType
<1>13. \A k \in 1 .. Cardinality(I) : at[k] \in I /\ at[k] \in DOMAIN low /\ at[k] \in Int
  BY <1>5, <1>6, <1>11
<1> QED
  BY <1>7, <1>8, <1>9, <1>10, <1>11, <1>12, <1>13

\* A step of a chain carries what the gates ask of a write.
Gated(s) ==
  /\ s.tool \in {"gate", "http"}
  /\ Write(s.method) => /\ s.tool = "http"
                        /\ Has(s.constraints, ConfirmMarkers) /\ Has(s.constraints, IsolationMarkers)
  /\ s.method = "DELETE" => Has(s.constraints, CleanupMarkers)

LEMMA SyntheticType ==
  ASSUME NEW schema \in Seq(Endpoints)
  PROVE  /\ SyntheticPlan(schema) \in Seq(Steps)
         /\ \A j \in 1 .. Len(SyntheticPlan(schema)) : Gated(SyntheticPlan(schema)[j])
         /\ \A i, j \in 1 .. Len(SyntheticPlan(schema)) :
              /\ i < j /\ SyntheticPlan(schema)[i].tool = "http" /\ SyntheticPlan(schema)[j].method = "POST"
              => SyntheticPlan(schema)[i].res # SyntheticPlan(schema)[j].res
<1> DEFINE ch == Chained(schema)
           n == IF Len(ch) < MaxChains THEN Len(ch) ELSE MaxChains
           first == SubSeq(ch, 1, n)
           seqs == [i \in DOMAIN first |-> Chain(schema, first[i])]
           p == SyntheticPlan(schema)
<1>1. /\ ch \in Seq(Resources) /\ \A k \in 1 .. Len(ch) : Complete(schema, ch[k])
      /\ \A k, m \in 1 .. Len(ch) : k < m => ch[k] # ch[m]
  BY ChainedType
<1>2. n \in 0 .. Len(ch)
  <2> HIDE DEF ch
  <2> QED
    BY <1>1, ResourceAssumption
<1>3. p = FlattenSeq(seqs)
  BY DEF SyntheticPlan
<1> HIDE DEF ch, n, p
<1>4. first \in Seq(Resources) /\ Len(first) = n /\ \A i \in 1 .. n : first[i] = ch[i]
  BY <1>1, <1>2, PrefixType
<1> HIDE DEF first
<1>5. /\ n \in Nat /\ DOMAIN first = 1 .. n /\ \A i \in 1 .. n : first[i] \in Resources /\ Complete(schema, first[i])
      /\ \A k, m \in 1 .. n : k < m => first[k] # first[m]
  <2>1. n \in Nat /\ \A i \in 1 .. n : i \in 1 .. Len(ch)
    BY <1>1, <1>2
  <2>2. DOMAIN first = 1 .. n
    BY <1>4
  <2>3. \A i \in 1 .. n : first[i] = ch[i] /\ ch[i] \in Resources
    BY <1>1, <1>4, <2>1
  <2> QED
    BY <1>1, <2>1, <2>2, <2>3
<1>6. \A i \in 1 .. n :
         /\ Chain(schema, first[i]) \in Seq(Steps)
         /\ \A j \in 1 .. Len(Chain(schema, first[i])) :
              LET s == Chain(schema, first[i])[j]
              IN  /\ s.res = first[i]
                  /\ j = 1 => s.tool = "gate"
                  /\ j # 1 => s.tool = "http"
                  /\ j # 2 => s.method # "POST"
                  /\ Gated(s)
  <2> TAKE i \in 1 .. n
  <2>1. PICK r \in Resources : r = first[i] /\ Complete(schema, r)
    BY <1>5
  <2>2. PICK c : c = Chain(schema, r)
    OBVIOUS
  <2>3. /\ c \in Seq(Steps)
        /\ \A j \in 1 .. Len(c) :
              /\ c[j].res = r
              /\ j = 1 => c[j].tool = "gate"
              /\ j # 1 => c[j].tool = "http"
              /\ j # 2 => c[j].method # "POST"
              /\ Write(c[j].method) => j # 1 /\ Has(c[j].constraints, ConfirmMarkers)
                                          /\ Has(c[j].constraints, IsolationMarkers)
              /\ c[j].method = "DELETE" => Has(c[j].constraints, CleanupMarkers)
    BY <2>1, <2>2, ChainType
  <2>4. \A j \in 1 .. Len(c) : Gated(c[j])
    BY <2>3 DEF Gated
  <2> QED
    BY <2>1, <2>2, <2>3, <2>4
<1>7. seqs \in [1 .. n -> Seq(Steps)] /\ \A i \in 1 .. n : seqs[i] = Chain(schema, first[i])
  BY <1>5, <1>6
<1> HIDE DEF seqs
<1>8. seqs \in Seq(Seq(Steps)) /\ Len(seqs) = n
  BY <1>5, <1>7, Listed
<1>9. p \in Seq(Steps)
  BY <1>3, <1>8, FlattenPlaces
<1>10. PICK row, col : Places(p, row, col, seqs, n)
  BY <1>3, <1>8, FlattenPlaces
<1>11. ASSUME NEW j \in 1 .. Len(p)
       PROVE  /\ row[j] \in 1 .. n /\ col[j] \in Nat
              /\ p[j].res = first[row[j]] /\ Gated(p[j])
              /\ p[j].tool = "http" => col[j] # 1
              /\ p[j].method = "POST" => col[j] = 2
              /\ col[j] \in 1 .. Len(seqs[row[j]])
  <2>1. /\ row[j] \in 1 .. n /\ col[j] \in Nat
        /\ col[j] \in 1 .. Len(seqs[row[j]]) /\ p[j] = seqs[row[j]][col[j]]
    BY <1>10 DEF Places
  <2> QED
    BY <1>6, <1>7, <2>1
<1>12. \A i, j \in 1 .. Len(p) : i < j => row[i] < row[j] \/ (row[i] = row[j] /\ col[i] < col[j])
  BY <1>10 DEF Places
<1>13. ASSUME NEW i \in 1 .. Len(p), NEW j \in 1 .. Len(p), i < j, p[i].tool = "http", p[j].method = "POST"
       PROVE  p[i].res # p[j].res
  <2>1. /\ row[i] \in 1 .. n /\ row[j] \in 1 .. n
        /\ p[i].res = first[row[i]] /\ p[j].res = first[row[j]]
        /\ col[i] \in Nat /\ col[i] # 1 /\ col[i] # 0 /\ col[j] = 2
    BY <1>11, <1>13
  <2>2. row[i] < row[j] \/ (row[i] = row[j] /\ col[i] < col[j])
    BY <1>12, <1>13
  <2>3. row[i] < row[j]
    BY <2>1, <2>2
  <2> QED
    BY <1>5, <2>1, <2>3
<1> QED
  BY <1>9, <1>11, <1>13 DEF p

\* What the plan itself asks for, and which of its actions become requests.
PlannedFor(c, r) == \E k \in DOMAIN c.plan : c.plan[k].tool = "http" /\ c.plan[k].res = r
OwnPlan(c) == Validated(c.plan, c.schema, c.policy)
Runs(a) == a.tool = "http" /\ a.allowed

LEMMA ConfigurationType ==
  ASSUME NEW c \in Configurations
  PROVE  /\ c.plan \in Seq(Steps) /\ c.schema \in Seq(Endpoints) /\ c.focus \in Seq(Endpoints)
         /\ c.cases \in Seq(Cases) /\ c.policy \in Policies /\ c.budget \in Nat /\ c.retries \in Nat
         /\ c.headers \in BOOLEAN /\ c.url \in BOOLEAN
BY DEF Configurations

\* The plan of the agent comes first; what is added to it are chains.
LEMMA ActionsParts ==
  ASSUME NEW c \in Configurations
  PROVE  \/ Actions(c) = OwnPlan(c)
         \/ /\ WriteAllowed(c.policy)
            /\ Actions(c) = OwnPlan(c) \o Validated(SyntheticPlan(c.schema), c.schema, c.policy)
BY DEF Actions, OwnPlan

LEMMA ActionsType ==
  ASSUME NEW c \in Configurations
  PROVE  Actions(c) \in Seq(Acts)
<1>1. c.plan \in Seq(Steps) /\ c.schema \in Seq(Endpoints) /\ c.policy \in Policies
  BY ConfigurationType
<1>2. SyntheticPlan(c.schema) \in Seq(Steps)
  BY <1>1, SyntheticType
<1>3. OwnPlan(c) \in Seq(Acts) /\ Validated(SyntheticPlan(c.schema), c.schema, c.policy) \in Seq(Acts)
  BY <1>1, <1>2, ValidatedType DEF OwnPlan
<1>4. \A s, t \in Seq(Acts) : s \o t \in Seq(Acts)
  OBVIOUS
<1> QED
  BY <1>3, <1>4, ActionsParts, Zenon

\* Where the agent planned no write, every write is one of a chain and passes its
\* gates, and what precedes a creation is about other resources or was planned.
LEMMA ActionsOrder ==
  ASSUME NEW c \in Configurations, ~PlansWrite(OwnPlan(c))
  PROVE  /\ \A i \in 1 .. Len(Actions(c)) :
              LET a == Actions(c)[i]
              IN  Runs(a) /\ Write(a.method) =>
                    /\ \A confirmed \in BOOLEAN : ActionApproved(a, confirmed)
                    /\ CaseApproved(TRUE, a.method, a.constraints)
         /\ \A i, j \in 1 .. Len(Actions(c)) :
              LET a == Actions(c)[i]
                  b == Actions(c)[j]
              IN  i < j /\ Runs(a) /\ Runs(b) /\ b.method = "POST" /\ a.res = b.res =>
                    PlannedFor(c, a.res) /\ ~Write(a.method)
<1> DEFINE A == Actions(c)
           own == OwnPlan(c)
           p == SyntheticPlan(c.schema)
           new == Validated(p, c.schema, c.policy)
           n == Len(own)
<1>1. c.plan \in Seq(Steps) /\ c.schema \in Seq(Endpoints) /\ c.policy \in Policies
  BY ConfigurationType
<1>2. /\ p \in Seq(Steps) /\ \A j \in 1 .. Len(p) : Gated(p[j])
      /\ \A i, j \in 1 .. Len(p) : i < j /\ p[i].tool = "http" /\ p[j].method = "POST" => p[i].res # p[j].res
  BY <1>1, SyntheticType
<1> HIDE DEF p
<1>3. /\ own \in Seq(Acts) /\ n = Len(c.plan)
      /\ \A i \in 1 .. n : own[i].tool = c.plan[i].tool /\ own[i].res = c.plan[i].res
  BY <1>1, ValidatedType DEF OwnPlan
<1>4. /\ new \in Seq(Acts) /\ Len(new) = Len(p)
      /\ \A i \in 1 .. Len(new) :
           /\ new[i].tool = p[i].tool /\ new[i].method = p[i].method /\ new[i].res = p[i].res
           /\ new[i].constraints = p[i].constraints /\ new[i].policy = c.policy
  BY <1>1, <1>2, ValidatedType
<1>5. \A i \in 1 .. n : Runs(own[i]) => ~Write(own[i].method) /\ PlannedFor(c, own[i].res)
  <2>1. \A i \in 1 .. n : Runs(own[i]) => ~Write(own[i].method)
    <3>1. DOMAIN own = 1 .. n
      BY <1>3
    <3> QED
      BY <3>1 DEF PlansWrite, Runs
  <2>2. \A i \in 1 .. n : Runs(own[i]) => PlannedFor(c, own[i].res)
    BY <1>1, <1>3 DEF PlannedFor, Runs
  <2> QED
    BY <2>1, <2>2
<1>6. CASE A = own
  BY <1>5, <1>6 DEF Write, WriteMethods
<1>7. CASE WriteAllowed(c.policy) /\ A = own \o new
  <2> HIDE DEF new, own, A
  <2>1. /\ n \in Nat /\ Len(new) \in Nat /\ Len(A) = n + Len(new)
        /\ \A i \in 1 .. Len(A) : A[i] = IF i <= n THEN own[i] ELSE new[i - n]
    <3>1. own \in Seq(Acts) /\ new \in Seq(Acts) /\ A = own \o new
      BY <1>3, <1>4, <1>7
    <3> QED
      BY <3>1
  <2>2. ASSUME NEW i \in 1 .. Len(new), Runs(new[i]), Write(new[i].method)
        PROVE  /\ \A confirmed \in BOOLEAN : ActionApproved(new[i], confirmed)
               /\ CaseApproved(TRUE, new[i].method, new[i].constraints)
    <3>1. Gated(p[i]) /\ new[i].method = p[i].method /\ new[i].constraints = p[i].constraints
      BY <1>2, <1>4
    <3>2. /\ Has(new[i].constraints, ConfirmMarkers) /\ Has(new[i].constraints, IsolationMarkers)
          /\ new[i].method = "DELETE" => Has(new[i].constraints, CleanupMarkers)
      BY <2>2, <3>1 DEF Gated
    <3>3. Has(new[i].constraints, GuardMarkers)
      BY <3>2 DEF Has, GuardMarkers
    <3>4. new[i].allowed /\ WriteAllowed(new[i].policy)
      BY <1>4, <1>7, <2>2 DEF Runs
    <3> QED
      BY <2>2, <3>2, <3>3, <3>4 DEF ActionApproved, CaseApproved
  <2>3. ASSUME NEW i \in 1 .. Len(new), NEW j \in 1 .. Len(new), i < j, Runs(new[i]), new[j].method = "POST"
        PROVE  new[i].res # new[j].res
    BY <1>2, <1>4, <2>3 DEF Runs
  <2>4. ASSUME NEW i \in 1 .. Len(A)
        PROVE  \/ i \in 1 .. n /\ A[i] = own[i]
               \/ i - n \in 1 .. Len(new) /\ A[i] = new[i - n] /\ i > n
    BY <2>1
  <2>5. ASSUME NEW i \in 1 .. Len(A), Runs(A[i]), Write(A[i].method)
        PROVE  /\ \A confirmed \in BOOLEAN : ActionApproved(A[i], confirmed)
               /\ CaseApproved(TRUE, A[i].method, A[i].constraints)
    BY <1>5, <2>2, <2>4, <2>5
  <2>6. ASSUME NEW i \in 1 .. Len(A), NEW j \in 1 .. Len(A), i < j,
               Runs(A[i]), Runs(A[j]), A[j].method = "POST", A[i].res = A[j].res
        PROVE  PlannedFor(c, A[i].res) /\ ~Write(A[i].method)
    <3>1. Write(A[j].method)
      BY <2>6 DEF Write, WriteMethods
    <3>2. j - n \in 1 .. Len(new) /\ A[j] = new[j - n]
      BY <1>5, <2>4, <2>6, <3>1
    <3>3. CASE i \in 1 .. n /\ A[i] = own[i]
      BY <1>5, <2>6, <3>3
    <3>4. CASE i - n \in 1 .. Len(new) /\ A[i] = new[i - n]
      <4>1. i - n < j - n
        BY <2>1, <2>6
      <4> QED
        BY <2>3, <2>6, <3>2, <3>4, <4>1
    <3> QED
      BY <2>4, <3>3, <3>4
  <2> HIDE DEF A
  <2> QED
    BY <2>5, <2>6 DEF A
<1>8. A = own \/ (WriteAllowed(c.policy) /\ A = own \o new)
  BY ActionsParts DEF p
<1> QED
  BY <1>6, <1>7, <1>8

\* What a request was made of, and what lets it through if it is a write.
Origin(q, c) ==
  \/ q.source = "action" /\ \E a \in Acts : Runs(a) /\ q = ActionRequest(a, c, GateConfirmed(Actions(c)))
  \/ q.source = "case" /\ \E i \in DOMAIN RunCases(c) : q = CaseRequest(RunCases(c)[i], c)
  \/ q.source \in {"schema", "url"} /\ Harmless(q)

Fit(c) == {q \in Requests : Origin(q, c)}

LEMMA GateConfirmedType == \A actions : GateConfirmed(actions) \in BOOLEAN
BY DEF GateConfirmed

\* One request per action that runs, in their order.
LEMMA ActionRequestsType ==
  ASSUME NEW c \in Configurations
  PROVE  /\ ActionRequests(Actions(c), c) \in Seq(Fit(c))
         /\ \E at : \A k \in 1 .. Len(ActionRequests(Actions(c), c)) :
              /\ at[k] \in 1 .. Len(Actions(c)) /\ Runs(Actions(c)[at[k]])
              /\ ActionRequests(Actions(c), c)[k]
                   = ActionRequest(Actions(c)[at[k]], c, GateConfirmed(Actions(c)))
              /\ \A m \in 1 .. Len(ActionRequests(Actions(c), c)) : k < m => at[k] < at[m]
<1> DEFINE A == Actions(c)
           I == {i \in DOMAIN A : A[i].tool = "http" /\ A[i].allowed}
           n == Cardinality(I)
           http == Picked(A, I)
           b == GateConfirmed(A)
           rs == ActionRequests(A, c)
<1>1. CASE ~WriteAllowed(c.policy)
  <2>1. rs = << >>
    BY <1>1 DEF ActionRequests
  <2>2. rs \in Seq(Fit(c)) /\ Len(rs) = 0
    BY <2>1
  <2> QED
    BY <2>2
<1>2. CASE WriteAllowed(c.policy)
  <2>1. A \in Seq(Acts) /\ b \in BOOLEAN
    BY ActionsType, GateConfirmedType
  <2>2. rs = [i \in DOMAIN http |-> ActionRequest(http[i], c, b)]
    BY <1>2 DEF ActionRequests
  <2>3. I \in SUBSET (DOMAIN A) /\ \A i \in I : Runs(A[i])
    BY DEF Runs
  <2> HIDE DEF A, I, b, rs, http
  <2>4. /\ n \in Nat
        /\ \E at \in [1 .. n -> I] :
              /\ Picked(A, I) = [k \in 1 .. n |-> A[at[k]]]
              /\ \A k, m \in 1 .. n : k < m => at[k] < at[m]
    BY <2>1, <2>3, PickedPlaces
  <2>5. PICK at \in [1 .. n -> I] :
              /\ http = [k \in 1 .. n |-> A[at[k]]]
              /\ \A k, m \in 1 .. n : k < m => at[k] < at[m]
    BY <2>4 DEF http
  <2>6. \A k \in 1 .. n : /\ at[k] \in 1 .. Len(A) /\ at[k] \in I /\ Runs(A[at[k]])
                          /\ A[at[k]] \in Acts /\ http[k] = A[at[k]]
    BY <2>1, <2>3, <2>5
  <2>7. DOMAIN http = 1 .. n
    BY <2>5
  <2>8. \A k \in 1 .. n : rs[k] = ActionRequest(A[at[k]], c, b)
    BY <2>2, <2>6, <2>7
  <2>9. \A a \in Acts : /\ ActionRequest(a, c, b) \in Requests
                        /\ ActionRequest(a, c, b).source = "action"
    BY <2>1, ActionRequestType
  <2>10. \A k \in 1 .. n : rs[k] \in Fit(c)
    <3> TAKE k \in 1 .. n
    <3>1. PICK a \in Acts : a = A[at[k]] /\ Runs(a)
      BY <2>6
    <3>2. rs[k] = ActionRequest(a, c, b) /\ rs[k] \in Requests /\ rs[k].source = "action"
      BY <2>8, <2>9, <3>1
    <3> QED
      BY <3>1, <3>2 DEF Fit, Origin, A, b
  <2>11. rs \in [1 .. n -> Fit(c)]
    BY <2>2, <2>7, <2>10
  <2>12. rs \in Seq(Fit(c)) /\ Len(rs) = n
    BY <2>4, <2>11, Listed
  <2>13. \A k \in 1 .. Len(rs) :
              /\ at[k] \in 1 .. Len(A) /\ Runs(A[at[k]])
              /\ rs[k] = ActionRequest(A[at[k]], c, b)
              /\ \A m \in 1 .. Len(rs) : k < m => at[k] < at[m]
    BY <2>5, <2>6, <2>8, <2>12
  <2> QED
    BY <2>12, <2>13 DEF A, rs, b
<1> QED
  BY <1>1, <1>2

\* What the requests of a chain have in common, and that its creation comes first.
ChainLike(rs, c) ==
  /\ \A i \in 1 .. Len(rs) : rs[i].skip = "no" /\ rs[i].gives = {} /\ rs[i].needs \subseteq {rs[i].res}
                             /\ rs[i].category = "SMOKE" /\ rs[i].source = "action"
  /\ \A i, j \in 1 .. Len(rs) :
       i < j /\ rs[j].method = "POST" /\ rs[i].res = rs[j].res =>
         PlannedFor(c, rs[i].res) /\ rs[i].method # "DELETE" /\ rs[i].method # "POST"

LEMMA ChainRequests ==
  ASSUME NEW c \in Configurations, ~PlansWrite(OwnPlan(c))
  PROVE  ChainLike(ActionRequests(Actions(c), c), c)
<1> DEFINE A == Actions(c)
           b == GateConfirmed(A)
           rs == ActionRequests(A, c)
<1>1. A \in Seq(Acts) /\ b \in BOOLEAN
  BY ActionsType, GateConfirmedType
<1>2. PICK at : \A k \in 1 .. Len(rs) :
              /\ at[k] \in 1 .. Len(A) /\ Runs(A[at[k]])
              /\ rs[k] = ActionRequest(A[at[k]], c, b)
              /\ \A m \in 1 .. Len(rs) : k < m => at[k] < at[m]
  BY ActionRequestsType
<1>3. /\ \A i \in 1 .. Len(A) :
           Runs(A[i]) /\ Write(A[i].method) =>
                    /\ \A confirmed \in BOOLEAN : ActionApproved(A[i], confirmed)
                    /\ CaseApproved(TRUE, A[i].method, A[i].constraints)
      /\ \A i, j \in 1 .. Len(A) :
           i < j /\ Runs(A[i]) /\ Runs(A[j]) /\ A[j].method = "POST" /\ A[i].res = A[j].res =>
                    PlannedFor(c, A[i].res) /\ ~Write(A[i].method)
  BY ActionsOrder
<1>4. \A a \in Acts :
        LET q == ActionRequest(a, c, b)
        IN  /\ q.source = "action" /\ q.method = a.method /\ q.res = a.res
            /\ q.gives = {} /\ q.needs \subseteq {a.res} /\ q.skip \in {"no", "gate"}
            /\ q.skip = "no" => q.category = "SMOKE"
            /\ q.skip # "no" => Write(q.method) /\ ~CaseApproved(ActionApproved(a, b), a.method, a.constraints)
  BY <1>1, ActionRequestType
<1> HIDE DEF A, b, rs
<1>5. ASSUME NEW k \in 1 .. Len(rs)
      PROVE  /\ rs[k].source = "action" /\ rs[k].method = A[at[k]].method /\ rs[k].res = A[at[k]].res
             /\ rs[k].gives = {} /\ rs[k].needs \subseteq {rs[k].res}
             /\ rs[k].skip = "no" /\ rs[k].category = "SMOKE"
  <2>1. PICK a \in Acts : a = A[at[k]] /\ Runs(a) /\ at[k] \in 1 .. Len(A) /\ rs[k] = ActionRequest(a, c, b)
    BY <1>1, <1>2
  <2>2. /\ rs[k].source = "action" /\ rs[k].method = a.method /\ rs[k].res = a.res
        /\ rs[k].gives = {} /\ rs[k].needs \subseteq {a.res} /\ rs[k].skip \in {"no", "gate"}
        /\ rs[k].skip = "no" => rs[k].category = "SMOKE"
        /\ rs[k].skip # "no" => Write(rs[k].method) /\ ~CaseApproved(ActionApproved(a, b), a.method, a.constraints)
    BY <1>4, <2>1
  <2>3. Write(a.method) => ActionApproved(a, b) /\ CaseApproved(TRUE, a.method, a.constraints)
    BY <1>1, <1>3, <2>1
  <2>4. Write(a.method) => CaseApproved(ActionApproved(a, b), a.method, a.constraints)
    BY <2>3 DEF CaseApproved
  <2> QED
    BY <2>1, <2>2, <2>4
<1>6. ASSUME NEW i \in 1 .. Len(rs), NEW j \in 1 .. Len(rs),
             i < j, rs[j].method = "POST", rs[i].res = rs[j].res
      PROVE  PlannedFor(c, rs[i].res) /\ rs[i].method # "DELETE" /\ rs[i].method # "POST"
  <2>1. /\ at[i] \in 1 .. Len(A) /\ at[j] \in 1 .. Len(A) /\ at[i] < at[j]
        /\ Runs(A[at[i]]) /\ Runs(A[at[j]])
    BY <1>2, <1>6
  <2>2. A[at[j]].method = "POST" /\ A[at[i]].res = A[at[j]].res
    BY <1>5, <1>6
  <2>3. PlannedFor(c, A[at[i]].res) /\ ~Write(A[at[i]].method)
    BY <1>3, <2>1, <2>2
  <2> QED
    BY <1>5, <2>3 DEF Write, WriteMethods
<1> QED
  BY <1>5, <1>6 DEF ChainLike, rs, A

-----------------------------------------------------------------------------
(* The requests the builders make, and the queue.                          *)

\* What the builders other than that of the plan make.
Plain(c) == {q \in Fit(c) : q.source # "action" /\ q.skip # "crud"}

\* No builder of requests of endpoints sends a write that changes anything.
LEMMA EndpointRequest ==
  ASSUME NEW c \in Configurations, NEW e \in Endpoints, NEW category \in Categories,
         NEW skip \in Skips \ {"crud"}, NEW authed \in BOOLEAN,
         skip = "no" => SchemaSkip(e, c.policy) = "no"
  PROVE  SchemaRequest(e, category, skip, authed) \in Plain(c)
<1>1. PICK q : q = SchemaRequest(e, category, skip, authed)
  OBVIOUS
<1>2. q \in Requests /\ q.source = "schema" /\ q.skip = skip /\ q.method = e.method /\ q.res = e.res
      /\ q.from[1] = e
  BY <1>1, SchemaRequestType
<1>3. SchemaSkip(e, c.policy) = "no" /\ Write(e.method) =>
        (e.benign \/ e.res \in NonMutating) /\ e.method # "DELETE"
  BY DEF SchemaSkip, SafeWriteSkips
<1>4. Harmless(q)
  BY <1>2, <1>3 DEF Harmless
<1> QED
  BY <1>1, <1>2, <1>4 DEF Plain, Fit, Origin

LEMMA RequestsOfEndpointType ==
  ASSUME NEW c \in Configurations, NEW e \in Endpoints
  PROVE  RequestsOfEndpoint(e, c) \in Seq(Plain(c))
<1> DEFINE skip == SchemaSkip(e, c.policy)
           P == Plain(c)
<1>1. c.headers \in BOOLEAN /\ e.fields \in Nat
  BY ConfigurationType DEF Endpoints
<1>2. skip \in Skips \ {"crud"}
  BY DEF SchemaSkip, Skips
<1>3. "SKIPPED" \in Categories /\ "SMOKE" \in Categories /\ "AUTH" \in Categories /\ "PARAM_VALIDATION" \in Categories
      /\ "auth" \in Skips \ {"crud"} /\ "no" \in Skips \ {"crud"}
  BY DEF Categories, NegativeCategories, Skips
<1>4. \A x \in P : << x >> \in Seq(P)
  OBVIOUS
<1>5. << >> \in Seq(P) /\ \A s, t \in Seq(P) : s \o t \in Seq(P)
  OBVIOUS
<1>6. CASE skip # "no"
  <2>1. SchemaRequest(e, "SKIPPED", skip, FALSE) \in P
    BY <1>2, <1>3, <1>6, EndpointRequest
  <2>2. RequestsOfEndpoint(e, c) = << SchemaRequest(e, "SKIPPED", skip, FALSE) >>
    BY <1>6 DEF RequestsOfEndpoint
  <2> HIDE DEF P, skip
  <2> QED
    BY <1>4, <2>1, <2>2 DEF P
<1>7. CASE skip = "no" /\ e.auth /\ ~c.headers
  <2>1. SchemaRequest(e, "AUTH", "no", FALSE) \in P /\ SchemaRequest(e, "SKIPPED", "auth", FALSE) \in P
    BY <1>3, <1>7, EndpointRequest
  <2> DEFINE s1 == IF Write(e.method) THEN << >> ELSE << SchemaRequest(e, "AUTH", "no", FALSE) >>
             s2 == << SchemaRequest(e, "SKIPPED", "auth", FALSE) >>
  <2>2. RequestsOfEndpoint(e, c) = s1 \o s2
    BY <1>7 DEF RequestsOfEndpoint, ProbesOf
  <2> HIDE DEF P
  <2>3. s1 \in Seq(P) /\ s2 \in Seq(P)
    BY <1>4, <1>5, <2>1
  <2> HIDE DEF s1, s2
  <2> QED
    BY <1>5, <2>2, <2>3 DEF P
<1>8. CASE skip = "no" /\ ~(e.auth /\ ~c.headers)
  <2> DEFINE negative == SchemaRequest(e, "PARAM_VALIDATION", "no", c.headers)
             positive == SchemaRequest(e, "SMOKE", "no", c.headers)
             probe == SchemaRequest(e, "AUTH", "no", FALSE)
             fields == IF e.method \in {"POST", "PUT"} THEN e.fields ELSE 0
             broken == IF e.method \in {"POST", "PUT"} THEN << negative >> ELSE << >>
             s1 == << positive >>
             s2 == [i \in 1 .. fields |-> negative]
             s4 == IF e.auth THEN << probe >> ELSE << >>
             s5 == IF fields > 0 THEN broken ELSE << >>
  <2>1. negative \in P /\ positive \in P /\ probe \in P
    BY <1>1, <1>3, <1>8, EndpointRequest
  <2>2. RequestsOfEndpoint(e, c) = s1 \o s2 \o broken \o s4 \o s5
    BY <1>8 DEF RequestsOfEndpoint, TestsOf
  <2>3. fields \in Nat
    BY <1>1
  <2> HIDE DEF P, negative, positive, probe, fields
  <2>4. s2 \in Seq(P)
    BY <2>1, <2>3
  <2>5. s1 \in Seq(P) /\ broken \in Seq(P) /\ s4 \in Seq(P) /\ s5 \in Seq(P)
    BY <1>4, <1>5, <2>1
  <2> HIDE DEF s1, s2, broken, s4, s5
  <2>6. s1 \o s2 \in Seq(P)
    BY <1>5, <2>4, <2>5
  <2>7. s1 \o s2 \o broken \in Seq(P)
    BY <1>5, <2>5, <2>6
  <2>8. s1 \o s2 \o broken \o s4 \in Seq(P)
    BY <1>5, <2>5, <2>7
  <2> QED
    BY <1>5, <2>2, <2>5, <2>8 DEF P
<1> QED
  BY <1>6, <1>7, <1>8

LEMMA SchemaRequestsType ==
  ASSUME NEW c \in Configurations, NEW schema \in Seq(Endpoints)
  PROVE  SchemaRequests(schema, c) \in Seq(Plain(c))
<1> DEFINE seqs == [i \in DOMAIN schema |-> RequestsOfEndpoint(schema[i], c)]
<1>1. Len(schema) \in Nat /\ DOMAIN schema = 1 .. Len(schema) /\ \A i \in 1 .. Len(schema) : schema[i] \in Endpoints
  OBVIOUS
<1>2. \A i \in 1 .. Len(schema) : RequestsOfEndpoint(schema[i], c) \in Seq(Plain(c))
  BY <1>1, RequestsOfEndpointType
<1>3. seqs \in [1 .. Len(schema) -> Seq(Plain(c))]
  BY <1>1, <1>2, Zenon
<1>4. SchemaRequests(schema, c) = FlattenSeq(seqs)
  BY DEF SchemaRequests
<1> HIDE DEF seqs
<1>5. seqs \in Seq(Seq(Plain(c)))
  BY <1>1, <1>3, Listed
<1> QED
  BY <1>4, <1>5, FlattenPlaces

LEMMA CaseRequestsType ==
  ASSUME NEW c \in Configurations
  PROVE  CaseRequests(c) \in Seq(Plain(c))
<1> DEFINE ks == RunCases(c)
<1>1. ks \in Seq(Cases)
  BY RunCasesType
<1>2. Len(ks) \in Nat /\ DOMAIN ks = 1 .. Len(ks) /\ \A i \in 1 .. Len(ks) : ks[i] \in Cases
  BY <1>1
<1>3. \A i \in 1 .. Len(ks) : CaseRequest(ks[i], c) \in Plain(c)
  <2> TAKE i \in 1 .. Len(ks)
  <2>1. PICK k \in Cases : k = ks[i]
    BY <1>2
  <2>2. /\ CaseRequest(k, c) \in Requests /\ CaseRequest(k, c).source = "case"
        /\ CaseRequest(k, c).skip \in {"no", "gate", "read_only"}
    BY CaseRequestType
  <2>3. Origin(CaseRequest(k, c), c)
    BY <1>2, <2>1, <2>2 DEF Origin
  <2> QED
    BY <2>1, <2>2, <2>3 DEF Plain, Fit
<1>4. CaseRequests(c) = [i \in 1 .. Len(ks) |-> CaseRequest(ks[i], c)]
  BY <1>2 DEF CaseRequests
<1>5. CaseRequests(c) \in [1 .. Len(ks) -> Plain(c)]
  BY <1>3, <1>4, Zenon
<1> QED
  BY <1>2, <1>5, Listed

LEMMA WriteSkipsType ==
  ASSUME NEW c \in Configurations, NEW requests \in Seq(Plain(c))
  PROVE  WithWriteSkips(requests, c) \in Seq(Plain(c))
<1> DEFINE J == {j \in DOMAIN c.schema :
                   /\ Write(c.schema[j].method)
                   /\ \A i \in DOMAIN requests :
                        <<requests[i].method, requests[i].res, requests[i].detail>>
                          # <<c.schema[j].method, c.schema[j].res, c.schema[j].detail>>}
           missing == Picked(c.schema, J)
           more == [i \in DOMAIN missing |-> SchemaRequest(missing[i], "SKIPPED", "read_only", FALSE)]
<1>1. WithWriteSkips(requests, c) = requests \o more
  BY DEF WithWriteSkips
<1>2. c.schema \in Seq(Endpoints) /\ J \in SUBSET (DOMAIN c.schema)
  BY ConfigurationType
<1> HIDE DEF J
<1>3. missing \in Seq(Endpoints)
  BY <1>2, PickedType
<1> HIDE DEF missing
<1>4. Len(missing) \in Nat /\ DOMAIN missing = 1 .. Len(missing) /\ \A i \in 1 .. Len(missing) : missing[i] \in Endpoints
  BY <1>3
<1>5. \A i \in 1 .. Len(missing) : SchemaRequest(missing[i], "SKIPPED", "read_only", FALSE) \in Plain(c)
  <2>1. "SKIPPED" \in Categories /\ "read_only" \in Skips \ {"crud"} /\ FALSE \in BOOLEAN
    BY DEF Categories, Skips
  <2> QED
    BY <1>4, <2>1, EndpointRequest
<1>6. more \in [1 .. Len(missing) -> Plain(c)]
  BY <1>4, <1>5, Zenon
<1> HIDE DEF more
<1>7. more \in Seq(Plain(c))
  BY <1>4, <1>6, Listed
<1> QED
  BY <1>1, <1>7

LEMMA FirstType ==
  ASSUME NEW T, NEW s \in Seq(T), NEW n \in Nat
  PROVE  /\ First(s, n) \in Seq(T) /\ Len(First(s, n)) <= Len(s)
         /\ \A i \in 1 .. Len(First(s, n)) : First(s, n)[i] = s[i]
<1> DEFINE m == IF n = 0 \/ Len(s) < n THEN Len(s) ELSE n
<1>1. m \in 0 .. Len(s)
  OBVIOUS
<1>2. First(s, n) = SubSeq(s, 1, m)
  BY DEF First
<1> HIDE DEF m
<1> QED
  BY <1>1, <1>2, PrefixType

LEMMA OrderedType ==
  ASSUME NEW T, NEW rs \in Seq(T)
  PROVE  Ordered(rs) \in Seq(T)
<1> DEFINE I(p) == {i \in DOMAIN rs : Priority(rs[i]) = p - 1}
           seqs == [p \in 1 .. 5 |-> Picked(rs, I(p))]
<1>1. Ordered(rs) = FlattenSeq(seqs)
  BY DEF Ordered
<1>2. \A p : I(p) \in SUBSET (DOMAIN rs)
  OBVIOUS
<1> HIDE DEF I
<1>3. \A p \in 1 .. 5 : Picked(rs, I(p)) \in Seq(T)
  BY <1>2, PickedType
<1>4. seqs \in [1 .. 5 -> Seq(T)]
  BY <1>3, Zenon
<1> HIDE DEF seqs
<1>5. seqs \in Seq(Seq(T))
  BY <1>4, Listed
<1> QED
  BY <1>1, <1>5, FlattenPlaces

\* Order and budget select from the candidates.
LEMMA SelectedType ==
  ASSUME NEW T, NEW rs \in Seq(T), NEW n \in Nat
  PROVE  Selected(rs, n) \in Seq(T)
<1> DEFINE I == {i \in DOMAIN rs : rs[i].skip = "no"}
           J == {i \in DOMAIN rs : rs[i].skip # "no"}
           sendable == Picked(rs, I)
           skipped == Picked(rs, J)
<1>1. Selected(rs, n) = IF n = 0 \/ Len(rs) <= n THEN rs ELSE First(First(sendable, n) \o skipped, n)
  BY DEF Selected
<1>2. I \in SUBSET (DOMAIN rs) /\ J \in SUBSET (DOMAIN rs)
  OBVIOUS
<1> HIDE DEF I, J
<1>3. sendable \in Seq(T) /\ skipped \in Seq(T)
  BY <1>2, PickedType
<1> HIDE DEF sendable, skipped
<1>4. First(sendable, n) \o skipped \in Seq(T)
  BY <1>3, FirstType
<1>5. First(First(sendable, n) \o skipped, n) \in Seq(T)
  BY <1>4, FirstType
<1> QED
  BY <1>1, <1>5

\* A budget takes the first requests of a chain.
LEMMA SelectedChain ==
  ASSUME NEW c \in Configurations, NEW T, NEW rs \in Seq(T), NEW n \in Nat, ChainLike(rs, c)
  PROVE  ChainLike(Selected(rs, n), c)
<1> DEFINE I == {i \in DOMAIN rs : rs[i].skip = "no"}
           J == {i \in DOMAIN rs : rs[i].skip # "no"}
           sendable == Picked(rs, I)
           skipped == Picked(rs, J)
           q == Selected(rs, n)
<1>1. q = IF n = 0 \/ Len(rs) <= n THEN rs ELSE First(First(sendable, n) \o skipped, n)
  BY DEF Selected
<1>2. I \in SUBSET (DOMAIN rs)
  OBVIOUS
<1>3. skipped = << >>
  <2>1. J = {}
    BY DEF ChainLike
  <2>2. Cardinality(J) = 0
    BY <2>1, FS_EmptySet
  <2> HIDE DEF J
  <2>3. skipped = [k \in 1 .. 0 |-> rs[CHOOSE i \in J : Cardinality({j \in J : j <= i}) = k]]
    BY <2>2 DEF Picked
  <2> QED
    BY <2>3
<1> HIDE DEF I, q, sendable, skipped
<1>4. sendable \in Seq(T) /\ Len(sendable) = Cardinality(I) /\ Cardinality(I) \in Nat
  BY <1>2, PickedType DEF sendable
<1>5. PICK at \in [1 .. Cardinality(I) -> I] :
              /\ sendable = [k \in 1 .. Cardinality(I) |-> rs[at[k]]]
              /\ \A k, m \in 1 .. Cardinality(I) : k < m => at[k] < at[m]
  BY <1>2, PickedPlaces DEF sendable
<1>6. CASE n = 0 \/ Len(rs) <= n
  <2>1. q = rs
    BY <1>1, <1>6
  <2> QED
    BY <2>1 DEF q
<1>7. CASE ~(n = 0 \/ Len(rs) <= n)
  <2> DEFINE f == First(sendable, n)
  <2>1. f \in Seq(T) /\ Len(f) <= Len(sendable) /\ \A i \in 1 .. Len(f) : f[i] = sendable[i]
    BY <1>4, FirstType
  <2> HIDE DEF f
  <2>2. f \o skipped = f
    BY <1>3, <2>1
  <2>3. q = First(f, n)
    BY <1>1, <1>7, <2>2 DEF f
  <2>4. q \in Seq(T) /\ Len(q) <= Len(f) /\ \A i \in 1 .. Len(q) : q[i] = f[i]
    BY <2>1, <2>3, FirstType
  <2>5. \A i \in 1 .. Len(q) : i \in 1 .. Cardinality(I) /\ q[i] = rs[at[i]] /\ at[i] \in 1 .. Len(rs)
    <3> TAKE i \in 1 .. Len(q)
    <3>1. i \in 1 .. Len(f) /\ i \in 1 .. Cardinality(I) /\ q[i] = sendable[i]
      BY <1>4, <2>1, <2>4
    <3>2. at[i] \in I /\ q[i] = rs[at[i]]
      BY <1>5, <3>1
    <3> QED
      BY <1>2, <3>1, <3>2
  <2>6. \A i, j \in 1 .. Len(q) : i < j => at[i] < at[j]
    BY <1>5, <2>5
  <2>7. \A i, j \in 1 .. Len(q) : i < j => at[i] \in 1 .. Len(rs) /\ at[j] \in 1 .. Len(rs) /\ at[i] < at[j]
    BY <2>5, <2>6
  <2>8. ChainLike(q, c)
    <3>1. \A i \in 1 .. Len(q) : q[i].skip = "no" /\ q[i].gives = {} /\ q[i].needs \subseteq {q[i].res}
                                 /\ q[i].category = "SMOKE" /\ q[i].source = "action"
      BY <2>5 DEF ChainLike
    <3>2. \A i, j \in 1 .. Len(q) :
             i < j /\ q[j].method = "POST" /\ q[i].res = q[j].res =>
               PlannedFor(c, q[i].res) /\ q[i].method # "DELETE" /\ q[i].method # "POST"
      BY <2>5, <2>7 DEF ChainLike
    <3> QED
      BY <3>1, <3>2 DEF ChainLike
  <2> QED
    BY <2>8 DEF q
<1> QED
  BY <1>6, <1>7

LEMMA UrlRequestType ==
  ASSUME NEW c \in Configurations
  PROVE  UrlRequest(c) \in Seq(Plain(c))
<1> DEFINE q == [Blank EXCEPT !.authed = c.headers]
<1>1. c.headers \in BOOLEAN
  BY ConfigurationType
<1>2. q \in Requests /\ q.method = "GET" /\ q.skip = "no" /\ q.source = "url"
  BY <1>1, BlankIsARequest DEF Requests
<1>3. UrlRequest(c) = IF c.url THEN << q >> ELSE << >>
  BY DEF UrlRequest
<1> HIDE DEF q
<1>4. q \in Plain(c)
  BY <1>2 DEF Plain, Fit, Origin, Harmless, Write, WriteMethods
<1> QED
  BY <1>3, <1>4

\* What stands for a chain that could not be made.
CrudOnly(q) == q.method = "POST" /\ q.skip = "crud" /\ q.gives = {}

LEMMA CrudBlockedType ==
  ASSUME NEW c \in Configurations
  PROVE  \/ CrudBlocked(c) = << >>
         \/ \E q \in Fit(c) : CrudBlocked(c) = << q >> /\ CrudOnly(q)
<1> DEFINE q == [Blank EXCEPT !.method = "POST", !.skip = "crud", !.category = "SKIPPED"]
<1>1. "POST" \in Methods /\ "crud" \in Skips /\ "SKIPPED" \in Categories
  BY DEF Methods, WriteMethods, Skips, Categories
<1>2. q \in Requests /\ q.source = "url" /\ q.skip = "crud" /\ CrudOnly(q)
  BY <1>1, BlankIsARequest DEF Requests, CrudOnly
<1>3. CrudBlocked(c) = IF WriteAllowed(c.policy) /\ c.crud THEN << q >> ELSE << >>
  BY DEF CrudBlocked
<1> HIDE DEF q
<1>4. q \in Fit(c)
  BY <1>2 DEF Fit, Origin, Harmless
<1> QED
  BY <1>2, <1>3, <1>4

LEMMA FromCasesType ==
  ASSUME NEW c \in Configurations
  PROVE  FromCases(c) \in Seq(Plain(c))
<1> DEFINE own == IF c.schema # << >> /\ ~WriteAllowed(c.policy)
                    THEN WithWriteSkips(CaseRequests(c), c) ELSE CaseRequests(c)
           I == {i \in DOMAIN c.schema : c.schema[i].method \in SafeMethods}
           safe == SchemaRequests(First(SafeEndpoints(c.schema), c.budget), c)
           all == SchemaRequests(c.schema, c)
<1>1. c.schema \in Seq(Endpoints) /\ c.budget \in Nat
  BY ConfigurationType
<1>2. own \in Seq(Plain(c)) /\ all \in Seq(Plain(c))
  BY <1>1, CaseRequestsType, WriteSkipsType, SchemaRequestsType
<1>3. safe \in Seq(Plain(c))
  <2>1. I \in SUBSET (DOMAIN c.schema) /\ SafeEndpoints(c.schema) = Picked(c.schema, I)
    BY DEF SafeEndpoints
  <2> HIDE DEF I
  <2>2. SafeEndpoints(c.schema) \in Seq(Endpoints)
    BY <1>1, <2>1, PickedType
  <2>3. First(SafeEndpoints(c.schema), c.budget) \in Seq(Endpoints)
    BY <1>1, <2>2, FirstType
  <2> QED
    BY <2>3, SchemaRequestsType
<1>4. FromCases(c) \in {own, safe, all}
  BY DEF FromCases
<1> QED
  BY <1>2, <1>3, <1>4

\* The candidates are those of the plan, the one that stands for them, or neither.
LEMMA CandidatesType ==
  ASSUME NEW c \in Configurations
  PROVE  \/ Candidates(c) \in Seq(Plain(c))
         \/ Candidates(c) = ActionRequests(Actions(c), c)
         \/ \E q \in Fit(c) : Candidates(c) = << q >> /\ CrudOnly(q)
<1>1. c.schema \in Seq(Endpoints) /\ c.focus \in Seq(Endpoints)
  BY ConfigurationType
<1>2. /\ CaseRequests(c) \in Seq(Plain(c)) /\ FromCases(c) \in Seq(Plain(c)) /\ UrlRequest(c) \in Seq(Plain(c))
      /\ SchemaRequests(c.schema, c) \in Seq(Plain(c)) /\ SchemaRequests(c.focus, c) \in Seq(Plain(c))
  BY <1>1, CaseRequestsType, FromCasesType, UrlRequestType, SchemaRequestsType
<1>3. \/ Built(c) \in {CaseRequests(c), FromCases(c), UrlRequest(c), SchemaRequests(c.schema, c), SchemaRequests(c.focus, c)}
      \/ Built(c) = ActionRequests(Actions(c), c)
      \/ Built(c) = CrudBlocked(c) /\ CrudBlocked(c) # << >>
  BY DEF Built
<1>4. Candidates(c) = Built(c) \/ Candidates(c) = UrlRequest(c)
  BY DEF Candidates
<1>5. CrudBlocked(c) # << >> => \E q \in Fit(c) : CrudBlocked(c) = << q >> /\ CrudOnly(q)
  BY CrudBlockedType
<1>6. CASE Candidates(c) = UrlRequest(c)
  BY <1>2, <1>6
<1>7. CASE Candidates(c) = Built(c) /\ Built(c) = CrudBlocked(c) /\ CrudBlocked(c) # << >>
  BY <1>5, <1>7
<1>8. CASE Candidates(c) = Built(c) /\ Built(c) = ActionRequests(Actions(c), c)
  BY <1>8
<1>9. CASE Candidates(c) = Built(c) /\ Built(c) \in {CaseRequests(c), FromCases(c), UrlRequest(c),
             SchemaRequests(c.schema, c), SchemaRequests(c.focus, c)}
  BY <1>2, <1>9
<1> QED
  BY <1>3, <1>4, <1>6, <1>7, <1>8, <1>9

\* What the chains that the stage composed have in common: a creation comes before
\* every other request about its resource, those of the plan left aside.
Tidy(rs, c) ==
  /\ \A i \in 1 .. Len(rs) :
       /\ rs[i].gives = {}
       /\ rs[i].method = "DELETE" => rs[i].skip = "no" /\ rs[i].needs \subseteq {rs[i].res}
  /\ \A i, j \in 1 .. Len(rs) :
       /\ i < j /\ rs[j].method = "POST" /\ rs[j].skip = "no" /\ rs[i].res = rs[j].res
       => PlannedFor(c, rs[i].res) /\ rs[i].method # "DELETE" /\ rs[i].method # "POST"

LEMMA ChainIsTidy == \A rs, c : ChainLike(rs, c) => Tidy(rs, c)
BY DEF ChainLike, Tidy

\* The queue is made of requests that fit the configuration; if its chains are the
\* stage's own, they are tidy.
LEMMA QueueType ==
  ASSUME NEW c \in Configurations
  PROVE  /\ Queue(c) \in Seq(Fit(c))
         /\ FromActions(Queue(c)) /\ ~PlansWrite(OwnPlan(c)) => Tidy(Queue(c), c)
<1> DEFINE all == Candidates(c)
           some == IF FromActions(all) THEN all ELSE Ordered(all)
           q == Queue(c)
<1>1. c.budget \in Nat
  BY ConfigurationType
<1>2. q = Selected(some, c.budget)
  BY DEF Queue
<1>3. CASE all \in Seq(Plain(c))
  <2>1. some \in Seq(Plain(c))
    BY <1>3, OrderedType
  <2> HIDE DEF all, some, q
  <2>2. q \in Seq(Plain(c))
    BY <1>1, <1>2, <2>1, SelectedType
  <2>3. ~FromActions(q)
    <3>1. \A x \in Plain(c) : x.source # "action" /\ x.skip # "crud"
      BY DEF Plain
    <3>2. q # << >> => Head(q) \in Plain(c)
      BY <2>2
    <3> QED
      BY <3>1, <3>2 DEF FromActions
  <2>4. q \in Seq(Fit(c))
    <3>1. Plain(c) \subseteq Fit(c)
      BY DEF Plain
    <3>2. Len(q) \in Nat /\ q \in [1 .. Len(q) -> Plain(c)]
      BY <2>2
    <3>3. q \in [1 .. Len(q) -> Fit(c)]
      BY <3>1, <3>2
    <3> QED
      BY <3>2, <3>3, Listed
  <2> QED
    BY <2>3, <2>4 DEF q
<1>4. CASE all = ActionRequests(Actions(c), c)
  <2>1. all \in Seq(Fit(c))
    BY <1>4, ActionRequestsType
  <2>2. some \in Seq(Fit(c))
    BY <2>1, OrderedType
  <2>3. all # << >> => some = all
    <3>1. ASSUME all # << >> PROVE Head(all).source = "action"
      <4>1. Len(all) # 0 /\ Len(all) \in Nat /\ Head(all) = all[1]
        BY <2>1, <3>1
      <4>2. PICK a : a \in Acts /\ all[1] = ActionRequest(a, c, GateConfirmed(Actions(c)))
        <5>1. 1 \in 1 .. Len(all)
          BY <4>1
        <5>2. Actions(c) \in Seq(Acts)
          BY ActionsType
        <5>3. \E k \in 1 .. Len(Actions(c)) : all[1] = ActionRequest(Actions(c)[k], c, GateConfirmed(Actions(c)))
          BY <1>4, <5>1, ActionRequestsType
        <5> QED
          BY <5>2, <5>3
      <4>3. ActionRequest(a, c, GateConfirmed(Actions(c))).source = "action"
        BY <4>2, GateConfirmedType, ActionRequestType
      <4> QED
        BY <4>1, <4>2, <4>3
    <3> QED
      BY <3>1 DEF FromActions
  <2>4. q \in Seq(Fit(c))
    BY <1>1, <1>2, <2>2, SelectedType
  <2>5. ASSUME ~PlansWrite(OwnPlan(c)), FromActions(q) PROVE Tidy(q, c)
    <3>1. ChainLike(all, c)
      BY <1>4, <2>5, ChainRequests
    <3>2. CASE all = << >>
      <4>1. Ordered(all) \in Seq({})
        <5>1. all \in Seq({})
          BY <3>2
        <5> QED
          BY <5>1, OrderedType
      <4>2. some \in Seq({})
        BY <3>2, <4>1
      <4>3. q \in Seq({})
        BY <1>1, <1>2, <4>2, SelectedType
      <4>4. q = << >>
        BY <4>3
      <4> QED
        BY <2>5, <4>4 DEF FromActions
    <3>3. CASE all # << >>
      <4>1. q = Selected(all, c.budget)
        BY <1>2, <2>3, <3>3
      <4> HIDE DEF all, q
      <4> QED
        BY <1>1, <2>1, <3>1, <4>1, SelectedChain, ChainIsTidy
    <3> QED
      BY <3>2, <3>3
  <2> QED
    BY <2>4, <2>5
<1>5. ASSUME NEW x \in Fit(c), all = << x >>, CrudOnly(x)
      PROVE  q \in Seq(Fit(c)) /\ Tidy(q, c)
  <2> DEFINE X == {x}
  <2>1. all \in Seq(X)
    BY <1>5
  <2>2. some \in Seq(X)
    <3> HIDE DEF X
    <3> QED
      BY <2>1, OrderedType
  <2> HIDE DEF some, q
  <2>3. q \in Seq(X)
    <3> HIDE DEF X
    <3> QED
      BY <1>1, <1>2, <2>2, SelectedType
  <2>4. Len(q) \in Nat /\ \A i \in 1 .. Len(q) : q[i] = x
    BY <2>3
  <2>5. q \in [1 .. Len(q) -> Fit(c)]
    BY <1>5, <2>3, <2>4
  <2>6. q \in Seq(Fit(c))
    BY <2>4, <2>5, Listed
  <2> QED
    BY <1>5, <2>4, <2>6 DEF Tidy, CrudOnly
<1> HIDE DEF all, q, some
<1>6. \/ all \in Seq(Plain(c)) \/ all = ActionRequests(Actions(c), c)
      \/ \E x \in Fit(c) : all = << x >> /\ CrudOnly(x)
  BY CandidatesType DEF all
<1> QED
  BY <1>3, <1>4, <1>5, <1>6 DEF q

-----------------------------------------------------------------------------
(* The inductive invariant.                                                *)

MaxTries == conf.retries + 1

\* Where the loop is between two requests, nothing was sent for the next one.
Counters ==
  /\ conf \in Scenarios /\ conf.budget \in Nat /\ conf.retries \in Nat
  /\ pc \in {"select", "next", "send", "answered", "login", "judge", "done"}
  /\ tries \in Nat /\ spent \in Nat /\ sends \in Nat /\ round \in {1, 2}
  /\ pc \in {"select", "next", "done"} => tries = 0 /\ sends = 0 /\ round = 1
  /\ pc = "login" => round = 1

\* Those of a second round come on top of a full first one.
TriesBounded ==
  /\ tries <= MaxTries
  /\ sends <= tries + (IF round = 2 THEN MaxTries ELSE 0)

\* A request that is sent is not marked to be skipped, and what was sent the
\* policy allowed.
Allowed(i) == queue[i].method \in PolicyMethods(conf.policy) /\ queue[i].skip = "no"
Sendable ==
  /\ pc \in {"send", "answered", "login", "judge"} => Q.skip = "no"
  /\ pc = "select" => sent = {}
  /\ \A i \in sent : Allowed(i)

IInv == Counters /\ TriesBounded /\ BudgetHolds /\ Sendable

LEMMA InitHolds == Init => IInv
<1> SUFFICES ASSUME Init PROVE IInv
  OBVIOUS
<1>1. Counters
  BY ScenariosAssumption DEF Init, Counters, Configurations
<1>2. TriesBounded /\ BudgetHolds
  BY <1>1 DEF Init, Counters, TriesBounded, BudgetHolds, MaxTries
<1>3. Sendable
  BY DEF Init, Sendable
<1> QED
  BY <1>1, <1>2, <1>3 DEF IInv

-----------------------------------------------------------------------------
(* The steps.                                                              *)

LEMMA AttemptsBounded ==
  ASSUME Counters
  PROVE  /\ tries < Attempts => Q.method \in PolicyMethods(conf.policy)
         /\ tries < Attempts => tries + 1 <= MaxTries
         /\ tries < Attempts /\ conf.budget # 0 => spent + tries + 1 <= conf.budget
BY DEF Counters, Attempts, MaxTries

\* A call sends the request the loop is at, once more than before.
LEMMA SentStep ==
  ASSUME IInv, Sent, pc = "send", pc' \in {"send", "answered"}, tries < Attempts,
         UNCHANGED <<conf, queue, index, round, spent>>
  PROVE  IInv'
<1>1. /\ tries + 1 <= MaxTries /\ Q.method \in PolicyMethods(conf.policy)
      /\ conf.budget # 0 => spent + tries + 1 <= conf.budget
  BY AttemptsBounded DEF IInv
<1>2. tries' = tries + 1 /\ sends' = sends + 1 /\ sent' = sent \cup {index}
  BY DEF Sent
<1>3. Counters'
  BY <1>2 DEF IInv, Counters
<1>4. TriesBounded' /\ BudgetHolds'
  BY <1>1, <1>2 DEF IInv, Counters, TriesBounded, BudgetHolds, MaxTries
<1>5. Sendable'
  BY <1>1, <1>2 DEF IInv, Sendable, Allowed, Q
<1> QED
  BY <1>3, <1>4, <1>5 DEF IInv

\* A result ends the call of the request.
LEMMA ResultStep ==
  ASSUME IInv, NEW o, Result(o), pc \notin {"select", "done"}, UNCHANGED <<conf, queue, sent>>,
         spent' \in Nat, conf.budget # 0 => spent' <= conf.budget
  PROVE  IInv'
<1>1. /\ pc' \in {"next", "done"} /\ round' = 1 /\ tries' = 0 /\ sends' = 0
  BY DEF Result
<1>2. Counters'
  BY <1>1 DEF IInv, Counters
<1>3. TriesBounded' /\ BudgetHolds'
  BY <1>1, <1>2 DEF IInv, Counters, TriesBounded, BudgetHolds, MaxTries
<1>4. Sendable'
  BY <1>1 DEF IInv, Sendable, Allowed
<1> QED
  BY <1>2, <1>3, <1>4 DEF IInv

LEMMA Inductive == IInv /\ [Next]_vars => IInv'
<1> SUFFICES ASSUME IInv, [Next]_vars PROVE IInv'
  OBVIOUS
<1> USE DEF IInv
<1>1. CASE Select
  <2>1. /\ pc' \in {"next", "done"} /\ sent = {}
        /\ UNCHANGED <<conf, round, tries, sends, spent, sent>> /\ pc = "select"
    BY <1>1 DEF Select, Call, History, Sendable
  <2>2. Counters'
    BY <2>1 DEF Counters
  <2> QED
    BY <2>1, <2>2 DEF Counters, TriesBounded, BudgetHolds, MaxTries, Sendable
<1>2. CASE SkipMarked \/ SkipDependent \/ SkipEnvironment
  <2>1. /\ pc = "next" /\ UNCHANGED <<conf, queue, sent, spent>> /\ \E o : Result(o)
    BY <1>2 DEF SkipMarked, SkipDependent, SkipEnvironment, History
  <2>2. spent' \in Nat /\ (conf.budget # 0 => spent' <= conf.budget)
    BY <2>1 DEF Counters, BudgetHolds
  <2> QED
    BY <2>1, <2>2, ResultStep
<1>3. CASE OmitRest \/ Begin
  <2>1. /\ pc = "next" /\ Q.skip = "no" /\ pc' \in {"done", "send"}
        /\ UNCHANGED <<conf, queue, index, round, tries, sends, spent, sent>>
    BY <1>3 DEF OmitRest, Begin, Call, History
  <2>2. Counters'
    BY <2>1 DEF Counters
  <2> QED
    BY <2>1, <2>2 DEF Counters, TriesBounded, BudgetHolds, MaxTries, Sendable, Allowed, Q
<1>4. ASSUME NEW a \in Answers, Respond(a) PROVE IInv'
  <2>1. /\ pc = "send" /\ pc' \in {"send", "answered"} /\ tries < Attempts /\ Sent
        /\ UNCHANGED <<conf, queue, index, round, spent>>
    BY <1>4 DEF Respond
  <2> QED
    BY <2>1, SentStep
<1>5. CASE Raise
  <2>1. /\ pc = "send" /\ pc' \in {"send", "answered"} /\ tries < Attempts /\ Sent
        /\ UNCHANGED <<conf, queue, index, round, spent>>
    BY <1>5 DEF Raise
  <2> QED
    BY <2>1, SentStep
<1>6. CASE NoResponse \/ Denied
  <2>1. /\ pc = "answered" /\ UNCHANGED <<conf, queue, sent>> /\ spent' = spent + tries /\ \E o : Result(o)
    BY <1>6 DEF NoResponse, Denied, History
  <2>2. spent' \in Nat /\ (conf.budget # 0 => spent' <= conf.budget)
    BY <2>1 DEF Counters, BudgetHolds
  <2> QED
    BY <2>1, <2>2, ResultStep
<1>7. CASE Answered
  <2>1. /\ pc = "answered" /\ pc' \in {"login", "judge"} /\ spent' = spent + tries
        /\ pc' = "login" => round = 1
        /\ UNCHANGED <<conf, queue, index, round, tries, sends, sent>>
    BY <1>7 DEF Answered, Refreshes, Call, History
  <2>2. Counters'
    BY <2>1 DEF Counters
  <2> QED
    BY <2>1, <2>2 DEF Counters, TriesBounded, BudgetHolds, MaxTries, Sendable, Allowed, Q
<1>8. CASE LoginAgain
  <2>1. /\ pc = "login" /\ UNCHANGED <<conf, queue, index, spent, sends, sent>>
        /\ \/ pc' = "send" /\ round' = 2 /\ tries' = 0
           \/ pc' = "judge" /\ UNCHANGED <<round, tries>>
    BY <1>8 DEF LoginAgain, Call, History
  <2>2. Counters'
    BY <2>1 DEF Counters
  <2>3. TriesBounded'
    <3>1. sends <= MaxTries /\ MaxTries' = MaxTries /\ round = 1
      BY <2>1 DEF Counters, TriesBounded, MaxTries
    <3> QED
      BY <2>1, <3>1 DEF Counters, TriesBounded, MaxTries
  <2>4. BudgetHolds'
    BY <2>1, <2>2 DEF Counters, BudgetHolds
  <2> QED
    BY <2>1, <2>2, <2>3, <2>4 DEF Sendable, Allowed, Q
<1>9. CASE Judge
  <2>1. /\ pc = "judge" /\ UNCHANGED <<conf, queue, sent, spent>> /\ \E o : Result(o)
    BY <1>9 DEF Judge
  <2>2. spent' \in Nat /\ (conf.budget # 0 => spent' <= conf.budget)
    BY <2>1 DEF Counters, BudgetHolds
  <2> QED
    BY <2>1, <2>2, ResultStep
<1>10. CASE Done \/ UNCHANGED vars
  <2>1. UNCHANGED <<conf, pc, queue, index, round, tries, sends, spent, sent>>
    BY <1>10 DEF Done, vars
  <2> QED
    BY <2>1 DEF Counters, TriesBounded, BudgetHolds, MaxTries, Sendable, Allowed, Q
<1> HIDE DEF IInv
<1> QED
  BY <1>1, <1>2, <1>3, <1>4, <1>5, <1>6, <1>7, <1>8, <1>9, <1>10 DEF Next

LEMMA Invariance == Spec => []IInv
BY InitHolds, Inductive, PTL DEF Spec

\* No answer, error, retry or new login makes the stage send more HTTP calls
\* than the budget allows, or one request more often than twice its attempts
\* (ToolExecutor._execute_api_http_request, api_runner.run).
THEOREM CallsBounded == Spec => []CallsAreBounded
<1>1. IInv => CallsAreBounded
  BY DEF CallsAreBounded, IInv, Counters, TriesBounded, SendsBounded, MaxTries
<1> QED
  BY <1>1, Invariance, PTL

\* Whatever the builders selected, under the read-only policy no write leaves the
\* stage, and under either none that a gate had marked.
THEOREM PolicyKept ==
  Spec => [](\A i \in sent : queue[i].skip = "no" /\ (Write(queue[i].method) => WriteAllowed(conf.policy)))
<1>1. IInv => \A i \in sent : queue[i].skip = "no" /\ (Write(queue[i].method) => WriteAllowed(conf.policy))
  BY DEF IInv, Sendable, Allowed, PolicyMethods, Write, SafeMethods, WriteMethods
<1> QED
  BY <1>1, Invariance, PTL

-----------------------------------------------------------------------------
(* Every request comes to a result.                                        *)

Books ==
  /\ index \in Nat /\ results \in [Outcomes -> Nat]
  /\ pc \in {"select", "next", "send", "answered", "login", "judge", "done"}
  /\ pc # "done" => Total = index - 1 /\ omitted = 0
  /\ pc = "select" => index = 1
  /\ pc = "done" => \A S : queue \in Seq(S) => Total + omitted = Len(queue)

LEMMA ResultBooked ==
  ASSUME Books, NEW o \in Outcomes, Result(o), pc \notin {"select", "done"}, UNCHANGED <<queue, omitted>>
  PROVE  Books'
<1>1. /\ results' = [results EXCEPT ![o] = results[o] + 1] /\ index' = index + 1
      /\ pc' = IF index = Len(queue) THEN "done" ELSE "next"
  BY DEF Result
<1>2. results' \in [Outcomes -> Nat]
  BY <1>1 DEF Books
<1>3. Total' = Total + 1
  <2>1. \A x \in Outcomes : results[x] \in Nat /\ results'[x] = IF x = o THEN results[x] + 1 ELSE results[x]
    BY <1>1 DEF Books
  <2> QED
    BY <2>1 DEF Total, Outcomes
<1>4. Total \in Nat
  BY DEF Books, Total, Outcomes
<1> QED
  BY <1>1, <1>2, <1>3, <1>4 DEF Books

LEMMA BooksInductive == Books /\ [Next]_vars => Books'
<1> SUFFICES ASSUME Books, [Next]_vars PROVE Books'
  OBVIOUS
<1>1. ASSUME NEW o \in Outcomes, Result(o), pc \notin {"select", "done"}, UNCHANGED <<queue, omitted>>
      PROVE  Books'
  BY <1>1, ResultBooked
<1>2. CASE Select
  <2>1. /\ pc = "select" /\ pc' = IF Len(queue') = 0 THEN "done" ELSE "next"
        /\ UNCHANGED <<index, results, omitted>>
    BY <1>2 DEF Select
  <2>2. Total' = Total
    BY <2>1 DEF Total
  <2> QED
    BY <2>1, <2>2 DEF Books
<1>3. CASE SkipMarked
  BY <1>3, <1>1 DEF SkipMarked, Outcomes
<1>4. CASE SkipDependent
  BY <1>4, <1>1 DEF SkipDependent, Outcomes
<1>5. CASE SkipEnvironment
  BY <1>5, <1>1 DEF SkipEnvironment, Outcomes
<1>6. CASE NoResponse
  BY <1>6, <1>1 DEF NoResponse, Outcomes
<1>7. CASE Denied
  BY <1>7, <1>1 DEF Denied, Outcomes
<1>8. CASE Judge
  <2>1. PICK o \in Verdicts : Result(o)
    BY <1>8 DEF Judge
  <2>2. o \in Outcomes
    BY DEF Verdicts, Outcomes
  <2> QED
    BY <1>8, <1>1, <2>1, <2>2 DEF Judge
<1>9. CASE OmitRest
  <2>1. /\ pc = "next" /\ pc' = "done" /\ omitted' = omitted + Len(queue) - index + 1
        /\ UNCHANGED <<queue, index, results>>
    BY <1>9 DEF OmitRest
  <2>2. ASSUME NEW S, queue \in Seq(S) PROVE Total + omitted' = Len(queue)
    <3>1. Len(queue) \in Nat
      BY <2>2
    <3>2. Total \in Int /\ Total = index - 1 /\ omitted = 0 /\ index \in Nat
      BY <2>1 DEF Books
    <3> QED
      BY <2>1, <3>1, <3>2
  <2>3. Total' = Total /\ queue' = queue
    BY <2>1 DEF Total
  <2> QED
    BY <2>1, <2>2, <2>3 DEF Books
<1>10. CASE Begin \/ (\E a \in Answers : Respond(a)) \/ Raise \/ Answered \/ LoginAgain
  <2>1. /\ pc \in {"next", "send", "answered", "login"} /\ pc' \in {"send", "answered", "login", "judge"}
        /\ UNCHANGED <<queue, index, results, omitted>>
    BY <1>10 DEF Begin, Respond, Raise, Answered, LoginAgain
  <2> QED
    BY <2>1 DEF Books, Total
<1>11. CASE Done \/ UNCHANGED vars
  BY <1>11 DEF Done, vars, Books, Total
<1> QED
  BY <1>2, <1>3, <1>4, <1>5, <1>6, <1>7, <1>8, <1>9, <1>10, <1>11 DEF Next

-----------------------------------------------------------------------------
(* The state of the stage.                                                 *)

\* What the loop goes through is what the builders selected for the configuration.
Selection ==
  /\ pc = "select" => queue = << >> /\ index = 1 /\ sent = {}
  /\ pc # "select" => queue = Queue(conf)

\* Between "next" and a result the loop is at a request; it was sent, once there
\* is an answer to it or none is to come.
Position ==
  /\ index \in 1 .. Len(queue) + 1
  /\ pc \in {"next", "send", "answered", "login", "judge"} => index \in 1 .. Len(queue)
  /\ pc \in {"answered", "login", "judge"} => index \in sent
  /\ pc = "done" => index \in 1 .. Len(queue) + 1

SInv == TypeOK /\ Selection /\ Position

\* The queue of a scenario, request by request.
LEMMA QueueFits ==
  ASSUME ScenariosAssumption, conf \in Scenarios
  PROVE  /\ conf \in Configurations /\ Queue(conf) \in Seq(Fit(conf))
         /\ \A i \in DOMAIN Queue(conf) :
              /\ Queue(conf)[i] \in Requests
              /\ Queue(conf)[i].method \in Methods /\ Queue(conf)[i].res \in Resources
              /\ Queue(conf)[i].needs \cup Queue(conf)[i].gives \subseteq Vars
              /\ Queue(conf)[i].skip \in Skips /\ Queue(conf)[i].category \in Categories
<1>1. conf \in Configurations
  BY DEF ScenariosAssumption
<1>2. Queue(conf) \in Seq(Fit(conf))
  BY <1>1, QueueType
<1>3. \A i \in DOMAIN Queue(conf) : Queue(conf)[i] \in Requests
  BY <1>2 DEF Fit
<1> QED
  BY <1>1, <1>2, <1>3 DEF Requests

\* The request the loop is at.
LEMMA AtRequest ==
  ASSUME SInv, pc \in {"next", "send", "answered", "login", "judge"}
  PROVE  /\ index \in 1 .. Len(queue) /\ index \in DOMAIN queue /\ Len(queue) \in Nat
         /\ DOMAIN queue = 1 .. Len(queue)
         /\ Q.method \in Methods /\ Q.res \in Resources /\ Q.res \in Vars
         /\ Q.needs \subseteq Vars /\ Q.gives \subseteq Vars /\ ctx[Q.res] \in Owners
         /\ queue = Queue(conf) /\ conf \in Configurations /\ Q \in Fit(conf)
<1>1. queue = Queue(conf) /\ conf \in Scenarios /\ pc # "select"
  BY DEF SInv, Selection, TypeOK
<1>2. conf \in Configurations /\ queue \in Seq(Fit(conf))
  BY <1>1, QueueFits, ScenariosAssumption
<1>3. Len(queue) \in Nat /\ DOMAIN queue = 1 .. Len(queue)
  BY <1>2
<1>4. index \in 1 .. Len(queue) /\ index \in DOMAIN queue
  BY <1>3 DEF SInv, Position
<1>5. Q \in Fit(conf)
  BY <1>2, <1>4 DEF Q
<1>6. /\ Q.method \in Methods /\ Q.res \in Resources
      /\ Q.needs \subseteq Vars /\ Q.gives \subseteq Vars
  BY <1>4 DEF SInv, TypeOK, Q
<1> QED
  BY <1>1, <1>2, <1>3, <1>4, <1>5, <1>6 DEF Vars, SInv, TypeOK

LEMMA InitSInv == Init => SInv
<1> SUFFICES ASSUME Init PROVE SInv
  OBVIOUS
<1>1. queue = << >> /\ index = 1 /\ sent = {} /\ pc = "select" /\ Len(queue) = 0 /\ DOMAIN queue = {}
  BY DEF Init
<1>2. conf \in Scenarios /\ conf.headers \in BOOLEAN
  BY ScenariosAssumption DEF Init, Configurations
<1>3. /\ round \in 1 .. 2 /\ tries \in Nat /\ spent \in Nat /\ sends \in Nat /\ omitted \in Nat
      /\ answer \in Answers \cup {"none"} /\ shows \in Owners
      /\ ctx \in [Vars -> Owners] /\ blocked \subseteq WriteMethods /\ signedIn \in BOOLEAN
      /\ results \in [Outcomes -> Nat] /\ named \subseteq Resources
      /\ wrote \subseteq WriteMethods \X Owners
  BY <1>2 DEF Init, Owners
<1>4. TypeOK
  BY <1>1, <1>2, <1>3 DEF TypeOK
<1>5. Selection /\ Position
  BY <1>1 DEF Selection, Position
<1> QED
  BY <1>4, <1>5 DEF SInv

\* A result: the counters start anew, the loop is at the next request.
LEMMA SInvResult ==
  ASSUME SInv, pc \in {"next", "answered", "judge"}, NEW o \in Outcomes, Result(o),
         UNCHANGED <<conf, queue, omitted, sent, wrote>>, spent' \in Nat,
         ctx' \in [Vars -> Owners], blocked' \subseteq WriteMethods, signedIn' \in BOOLEAN,
         named' \subseteq Resources
  PROVE  SInv'
<1>1. /\ index' = index + 1 /\ pc' = IF index = Len(queue) THEN "done" ELSE "next"
      /\ round' = 1 /\ tries' = 0 /\ answer' = "none" /\ shows' = "none" /\ sends' = 0
      /\ results' = [results EXCEPT ![o] = results[o] + 1]
  BY DEF Result
<1>2. results' \in [Outcomes -> Nat]
  BY <1>1 DEF SInv, TypeOK
<1>3. index \in 1 .. Len(queue) /\ Len(queue) \in Nat
  BY AtRequest
<1>4. index' \in 1 .. Len(queue) + 1 /\ pc' \in {"next", "done"} /\ (pc' = "next" => index' \in 1 .. Len(queue))
  BY <1>1, <1>3
<1>5. TypeOK'
  BY <1>1, <1>2, <1>4 DEF SInv, TypeOK, Owners
<1>6. Selection' /\ Position'
  BY <1>4 DEF SInv, Selection, Position
<1> QED
  BY <1>5, <1>6 DEF SInv

\* One call.
LEMMA SInvSent ==
  ASSUME SInv, pc = "send", pc' \in {"send", "answered"}, Sent, answer' \in Answers \cup {"none"},
         shows' \in Owners, UNCHANGED <<conf, queue, index, round, spent, World, results, omitted, named>>
  PROVE  SInv'
<1>1. /\ tries' = tries + 1 /\ sends' = sends + 1 /\ sent' = sent \cup {index}
      /\ wrote' = IF Write(Q.method) /\ Q.detail THEN wrote \cup {<<Q.method, Touched>>} ELSE wrote
  BY DEF Sent
<1>2. index \in 1 .. Len(queue) /\ index \in DOMAIN queue /\ Q.method \in Methods /\ ctx[Q.res] \in Owners
  BY AtRequest
<1>3. wrote' \subseteq WriteMethods \X Owners
  <2>1. Touched \in Owners
    BY <1>2 DEF Touched, Owners
  <2>2. Write(Q.method) => Q.method \in WriteMethods
    BY DEF Write
  <2> QED
    BY <1>1, <2>1, <2>2 DEF SInv, TypeOK
<1>4. TypeOK'
  BY <1>1, <1>2, <1>3 DEF SInv, TypeOK, World
<1>5. Selection' /\ Position'
  BY <1>1, <1>2 DEF SInv, Selection, Position
<1> QED
  BY <1>4, <1>5 DEF SInv

LEMMA ShownType ==
  ASSUME SInv, pc = "send", NEW a
  PROVE  Shown(a) \subseteq Owners
<1>1. Touched \in Owners
  BY AtRequest DEF Touched, Owners
<1> QED
  BY <1>1 DEF Shown, Owners

\* What the stage knows after an answer is still whose record each variable names.
LEMMA ExtractedType ==
  ASSUME SInv, pc = "judge"
  PROVE  Extracted(Recorded) \subseteq [Vars -> Owners]
<1>1. Q.res \in Vars /\ shows \in Owners /\ ctx \in [Vars -> Owners]
  BY AtRequest DEF SInv, TypeOK
<1>2. Recorded \in [Vars -> Owners]
  BY <1>1 DEF Recorded
<1> QED
  BY <1>2 DEF Extracted, Owners

LEMMA SInvInductive == SInv /\ [Next]_vars => SInv'
<1> SUFFICES ASSUME SInv, [Next]_vars PROVE SInv'
  OBVIOUS
<1>1. CASE Select
  <2>1. /\ pc = "select" /\ queue' = Queue(conf) /\ pc' = IF Len(queue') = 0 THEN "done" ELSE "next"
        /\ UNCHANGED <<conf, index, round, tries, answer, shows, spent, ctx, blocked, signedIn,
                       results, omitted, sent, named, wrote>>
    BY <1>1 DEF Select, Call, World, History
  <2>2. sends' = sends
    BY <1>1 DEF Select
  <2>3. /\ conf \in Configurations /\ queue' \in Seq(Fit(conf))
        /\ \A i \in DOMAIN queue' :
              /\ queue'[i].method \in Methods /\ queue'[i].res \in Resources
              /\ queue'[i].needs \cup queue'[i].gives \subseteq Vars
              /\ queue'[i].skip \in Skips /\ queue'[i].category \in Categories
    BY <2>1, QueueFits, ScenariosAssumption DEF SInv, TypeOK
  <2>4. Len(queue') \in Nat /\ index' = 1 /\ sent' = {}
    BY <2>1, <2>3 DEF SInv, Selection
  <2>5. index' \in 1 .. Len(queue') + 1 /\ (pc' = "next" => index' \in 1 .. Len(queue')) /\ pc' \in {"next", "done"}
    BY <2>1, <2>4
  <2>6. TypeOK'
    BY <2>1, <2>2, <2>3, <2>4, <2>5 DEF SInv, TypeOK
  <2> QED
    BY <2>1, <2>5, <2>6 DEF SInv, Selection, Position
<1>2. CASE SkipMarked \/ SkipDependent \/ SkipEnvironment
  <2>1. /\ pc = "next" /\ UNCHANGED <<conf, queue, spent, ctx, blocked, signedIn, omitted, sent, named, wrote>>
        /\ \E o \in Outcomes : Result(o)
    BY <1>2 DEF SkipMarked, SkipDependent, SkipEnvironment, World, History, Outcomes
  <2> QED
    BY <2>1, SInvResult DEF SInv, TypeOK
<1>3. CASE OmitRest \/ Begin
  <2>1. /\ pc = "next" /\ pc' \in {"done", "send"}
        /\ omitted' \in {omitted, omitted + Len(queue) - index + 1}
        /\ UNCHANGED <<conf, queue, index, round, tries, answer, shows, spent, ctx, blocked, signedIn,
                       results, sends, sent, named, wrote>>
    BY <1>3 DEF OmitRest, Begin, Call, World, History
  <2>2. index \in 1 .. Len(queue) /\ Len(queue) \in Nat
    BY <2>1, AtRequest
  <2>3. omitted' \in Nat
    BY <2>1, <2>2 DEF SInv, TypeOK
  <2>4. TypeOK'
    BY <2>1, <2>3 DEF SInv, TypeOK
  <2> QED
    BY <2>1, <2>2, <2>4 DEF SInv, Selection, Position
<1>4. ASSUME NEW a \in Answers, Respond(a) PROVE SInv'
  <2>1. /\ pc = "send" /\ pc' \in {"send", "answered"} /\ Sent /\ answer' = a /\ shows' \in Shown(a)
        /\ UNCHANGED <<conf, queue, index, round, spent, World, results, omitted, named>>
    BY <1>4 DEF Respond
  <2>2. shows' \in Owners
    BY <2>1, ShownType
  <2> QED
    BY <2>1, <2>2, SInvSent
<1>5. CASE Raise
  <2>1. /\ pc = "send" /\ pc' \in {"send", "answered"} /\ Sent
        /\ answer' \in {"none", answer} /\ shows' \in {"none", shows}
        /\ UNCHANGED <<conf, queue, index, round, spent, World, results, omitted, named>>
    BY <1>5 DEF Raise
  <2>2. answer' \in Answers \cup {"none"} /\ shows' \in Owners
    BY <2>1 DEF SInv, TypeOK, Owners
  <2> QED
    BY <2>1, <2>2, SInvSent
<1>6. CASE NoResponse \/ Denied
  <2>1. /\ pc = "answered" /\ UNCHANGED <<conf, queue, ctx, signedIn, omitted, sent, named, wrote>>
        /\ spent' = spent + tries /\ \E o \in Outcomes : Result(o)
        /\ blocked' = blocked \/ (blocked' = blocked \cup {Q.method} /\ Write(Q.method))
    BY <1>6 DEF NoResponse, Denied, World, History, Outcomes
  <2>2. spent' \in Nat /\ blocked' \subseteq WriteMethods
    BY <2>1 DEF SInv, TypeOK, Write
  <2> QED
    BY <2>1, <2>2, SInvResult DEF SInv, TypeOK
<1>7. CASE Answered
  <2>1. /\ pc = "answered" /\ pc' \in {"login", "judge"} /\ spent' = spent + tries
        /\ UNCHANGED <<conf, queue, index, round, tries, answer, shows, ctx, blocked, signedIn,
                       results, omitted, sends, sent, named, wrote>>
    BY <1>7 DEF Answered, Call, World, History
  <2>2. TypeOK'
    BY <2>1 DEF SInv, TypeOK
  <2> QED
    BY <2>1, <2>2 DEF SInv, Selection, Position
<1>8. CASE LoginAgain
  <2>1. /\ pc = "login" /\ pc' \in {"send", "judge"}
        /\ round' \in {2, round} /\ tries' \in {0, tries} /\ answer' \in {"none", answer} /\ shows' \in {"none", shows}
        /\ signedIn' = TRUE \/ signedIn' = signedIn
        /\ UNCHANGED <<conf, queue, index, spent, ctx, blocked, results, omitted, sends, sent, named, wrote>>
    BY <1>8 DEF LoginAgain, Call, History
  <2>2. /\ round' \in 1 .. 2 /\ tries' \in Nat /\ answer' \in Answers \cup {"none"}
        /\ shows' \in Owners
    BY <2>1 DEF SInv, TypeOK, Owners
  <2>3. signedIn' \in BOOLEAN
    BY <2>1 DEF SInv, TypeOK
  <2>4. TypeOK'
    BY <2>1, <2>2, <2>3 DEF SInv, TypeOK
  <2> QED
    BY <2>1, <2>4 DEF SInv, Selection, Position
<1>9. CASE Judge
  <2>1. /\ pc = "judge" /\ ctx' \in Extracted(Recorded) /\ named' \in {named, named \cup {Q.res}}
        /\ UNCHANGED <<conf, queue, spent, blocked, signedIn, omitted, sent, wrote>>
        /\ \E o \in Outcomes : Result(o)
    <3>1. Verdicts \subseteq Outcomes
      BY DEF Verdicts, Outcomes
    <3> QED
      BY <1>9, <3>1 DEF Judge
  <2>2. ctx' \in [Vars -> Owners] /\ named' \subseteq Resources
    BY <2>1, ExtractedType, AtRequest DEF SInv, TypeOK
  <2> QED
    BY <2>1, <2>2, SInvResult DEF SInv, TypeOK
<1>10. CASE Done \/ UNCHANGED vars
  <2>1. UNCHANGED vars
    BY <1>10 DEF Done
  <2> QED
    BY <2>1 DEF vars, SInv, TypeOK, Selection, Position
<1> QED
  BY <1>1, <1>2, <1>3, <1>4, <1>5, <1>6, <1>7, <1>8, <1>9, <1>10 DEF Next

\* Every variable keeps its type, and every request the builders make has one: the
\* positions of what was sent are those of the queue, an id belongs to somebody
\* (api_runner.run, _build_*_requests).
THEOREM TypeCorrect == Spec => []TypeOK
<1>1. SInv => TypeOK
  BY DEF SInv
<1> QED
  BY <1>1, InitSInv, SInvInductive, PTL DEF Spec

-----------------------------------------------------------------------------
(* What may be sent.                                                       *)

\* A request that fits the configuration and is not marked to be skipped has
\* passed the gate of its kind, if it is a write the policy allows.
LEMMA FitIsApproved ==
  ASSUME conf \in Configurations, NEW q \in Fit(conf), q.skip = "no", Write(q.method)
  PROVE  Approval(q)
<1>1. CASE q.source \in {"schema", "url"}
  <2>1. Harmless(q)
    BY <1>1 DEF Fit, Origin
  <2> QED
    BY <2>1 DEF Harmless, Approval
<1>2. CASE q.source = "action"
  <2> DEFINE b == GateConfirmed(Actions(conf))
  <2>1. PICK a \in Acts : Runs(a) /\ q = ActionRequest(a, conf, b)
    BY <1>2 DEF Fit, Origin
  <2>2. b \in BOOLEAN
    BY GateConfirmedType
  <2> HIDE DEF b
  <2>3. /\ q.from = <<a>> /\ q.method = a.method
        /\ \/ q.method # "DELETE" /\ (a.benign \/ q.res \in NonMutating)
           \/ ActionApproved(a, b)
    BY <2>1, <2>2, ActionRequestType
  <2>4. q.from[1] = a
    BY <2>3
  <2>5. CASE ActionApproved(a, b)
    <3>1. /\ a.allowed /\ Has(a.constraints, IsolationMarkers)
          /\ Has(a.constraints, ConfirmMarkers) \/ b
      BY <2>5 DEF ActionApproved
    <3> QED
      BY <1>2, <2>4, <3>1 DEF Approval, b
  <2> QED
    BY <1>2, <2>3, <2>4, <2>5 DEF Approval
<1>3. CASE q.source = "case"
  <2>1. PICK i \in DOMAIN RunCases(conf) : q = CaseRequest(RunCases(conf)[i], conf)
    BY <1>3 DEF Fit, Origin
  <2>2. PICK k \in Cases : q = CaseRequest(k, conf)
    BY <2>1, RunCasesType
  <2>3. /\ q.from = <<k>> /\ q.method = k.method /\ q.res = k.res
        /\ \/ k.method # "DELETE" /\ (k.benign \/ k.res \in NonMutating)
           \/ k.marked /\ k.constraints # {}
    BY <2>2, CaseRequestType
  <2>4. q.from[1] = k
    BY <2>3
  <2> QED
    BY <1>3, <2>3, <2>4 DEF Approval
<1> QED
  BY <1>1, <1>2, <1>3 DEF Fit, Origin

\* A request of a generated case is of an endpoint of the description.
LEMMA FitIsInScope ==
  ASSUME conf \in Configurations, NEW q \in Fit(conf), q.source = "case",
         conf.generated, ~conf.free, conf.schema # << >>
  PROVE  \E j \in DOMAIN conf.schema :
           <<conf.schema[j].method, conf.schema[j].res, conf.schema[j].detail>> = <<q.method, q.res, q.detail>>
<1>1. PICK i \in DOMAIN RunCases(conf) : q = CaseRequest(RunCases(conf)[i], conf)
  BY DEF Fit, Origin
<1>2. PICK k \in Cases : RunCases(conf)[i] = Sanitized(k, conf.schema, conf.generated) /\ InScope(k, conf)
  BY <1>1, RunCasesType
<1>3. conf.schema \in Seq(Endpoints) /\ conf.generated \in BOOLEAN
  BY DEF Configurations
<1>4. PICK s \in Cases : /\ s = Sanitized(k, conf.schema, conf.generated)
                         /\ s.method = k.method /\ s.res = k.res /\ s.detail = k.detail
  BY <1>3, SanitizedType
<1>5. q.method = k.method /\ q.res = k.res /\ q.detail = k.detail
  <2>1. q = CaseRequest(s, conf)
    BY <1>1, <1>2, <1>4
  <2>2. q.method = s.method /\ q.res = s.res /\ q.detail = s.detail
    BY <2>1, CaseRequestType
  <2> QED
    BY <1>4, <2>2
<1>6. Matching(k, conf.schema) # {}
  BY <1>2 DEF InScope
<1> QED
  BY <1>5, <1>6 DEF Matching

LEMMA AllowedRequests == IInv /\ SInv => RequestsAreAllowed
<1> SUFFICES ASSUME IInv, SInv PROVE RequestsAreAllowed
  OBVIOUS
<1>1. \A i \in sent : queue[i].skip = "no" /\ (Write(queue[i].method) => WriteAllowed(conf.policy))
  BY DEF IInv, Sendable, Allowed, PolicyMethods, Write, SafeMethods, WriteMethods
<1>2. conf \in Configurations /\ \A i \in sent : queue[i] \in Fit(conf)
  <2>1. conf \in Configurations /\ Queue(conf) \in Seq(Fit(conf))
    BY QueueFits, ScenariosAssumption DEF SInv, TypeOK
  <2>2. sent \subseteq DOMAIN queue /\ (sent # {} => queue = Queue(conf))
    BY DEF SInv, TypeOK, Selection
  <2> QED
    BY <2>1, <2>2
<1>3. WritesAreGated
  BY <1>1, <1>2, FitIsApproved DEF WritesAreGated
<1>4. ScopeKept
  BY <1>2, FitIsInScope DEF ScopeKept
<1> QED
  BY <1>3, <1>4 DEF RequestsAreAllowed

\* For every description, case, plan and setting: a write is sent only under
\* write_allowed and only if its case or action passed its gate or, if it is no deletion,
\* its path or text names a login, a token, a captcha, an export or a download; and a
\* request of a generated case is sent only to an endpoint of the description
\* (_safe_write_skip_reason, _action_safe_write_approved,
\* validate_generated_api_cases).
THEOREM RequestsAllowed == Spec => []RequestsAreAllowed
BY AllowedRequests, Invariance, InitSInv, SInvInductive, PTL DEF Spec

-----------------------------------------------------------------------------
(* The books, and what counts as a failure.                                *)

\* What the sanitizer leaves of an assertion about a status it reads is met by a success.
LEMMA ScopedStatus ==
  ASSUME NEW a \in Assertions, NEW k \in Cases, k.category = "SMOKE", NEW strict \in BOOLEAN
  PROVE  LET s == Scoped(a, k, strict) IN s.kind = "status" /\ s.readable /\ s.blocking => s.fits
<1>1. CASE a.guarded
  BY <1>1 DEF Scoped, Assertions
<1>2. CASE ~a.guarded /\ a.kind = "status"
  <2>1. Scoped(a, k, strict) = IF ~a.readable \/ a.fits THEN a ELSE [a EXCEPT !.fits = TRUE, !.lax = FALSE]
    BY <1>2 DEF Scoped, StatusScoped, NegativeCategories
  <2> QED
    BY <2>1 DEF Assertions
<1>3. CASE ~a.guarded /\ a.kind # "status"
  <2>1. \/ Scoped(a, k, strict) = a
        \/ Scoped(a, k, strict) = Downgraded(a)
        \/ Scoped(a, k, strict) = [a EXCEPT !.kind = "type"]
    BY <1>3 DEF Scoped, PathScoped, TypeScoped, OtherScoped
  <2>2. Downgraded(a).kind = a.kind /\ [a EXCEPT !.kind = "type"].kind = "type"
    BY DEF Downgraded, Assertions
  <2> QED
    BY <1>3, <2>1, <2>2
<1> QED
  BY <1>1, <1>2, <1>3

\* What it leaves of a generated assertion about the body rests on a schema or on
\* a name.
LEMMA ScopedGrounded ==
  ASSUME NEW a \in Assertions, NEW k \in Cases
  PROVE  LET s == Scoped(a, k, TRUE)
         IN  s.blocking /\ s.kind \in BodyKinds => k.schema \/ s.names # {}
<1> DEFINE s == Scoped(a, k, TRUE)
<1>1. s = Downgraded(a) => ~s.blocking
  BY DEF Downgraded, Assertions
<1>2. s = [a EXCEPT !.kind = "type"] => s.names = a.names
  BY DEF Assertions
<1>3. CASE a.guarded
  BY <1>3 DEF Scoped, Assertions
<1>4. CASE ~a.guarded /\ a.kind = "status"
  BY <1>4 DEF Scoped, StatusScoped, Assertions, BodyKinds
<1>5. CASE ~a.guarded /\ a.kind = "path"
  <2>1. s = PathScoped(a, k, TRUE)
    BY <1>5 DEF Scoped
  <2>2. \/ s = Downgraded(a)
        \/ s = [a EXCEPT !.kind = "type"] /\ TypeGrounded(a, k)
        \/ s = a /\ Grounded(a, k)
    BY <2>1 DEF PathScoped
  <2> HIDE DEF s
  <2>3. s.blocking => k.schema \/ s.names # {}
    BY <1>1, <1>2, <2>2 DEF TypeGrounded, Grounded, GroundedInSchema, GroundedInExample, GroundedInObjective
  <2> QED
    BY <2>3 DEF s
<1>6. CASE ~a.guarded /\ a.kind = "type"
  <2>1. s = TypeScoped(a, k, TRUE)
    BY <1>6 DEF Scoped
  <2>2. s = Downgraded(a) \/ (s = a /\ TypeGrounded(a, k))
    BY <2>1 DEF TypeScoped
  <2> HIDE DEF s
  <2>3. s.blocking => k.schema \/ s.names # {}
    BY <1>1, <2>2 DEF TypeGrounded, GroundedInSchema
  <2> QED
    BY <2>3 DEF s
<1>7. CASE ~a.guarded /\ a.kind \notin {"status", "path", "type"}
  <2>1. s = OtherScoped(a, k)
    BY <1>7 DEF Scoped
  <2>2. s = Downgraded(a) \/ k.schema
    BY <2>1 DEF OtherScoped
  <2> HIDE DEF s
  <2>3. s.blocking => k.schema \/ s.names # {}
    BY <1>1, <2>2
  <2> QED
    BY <2>3 DEF s
<1> QED
  BY <1>3, <1>4, <1>5, <1>6, <1>7

LEMMA JustVerdicts == SInv => VerdictsAreJust
<1> SUFFICES ASSUME SInv, pc = "judge", Q.source = "case", Q.category = "SMOKE", answer \in {"ok", "wrong"}
             PROVE  /\ conf.generated /\ "failed" \in Verdicts =>
                         \/ \E a \in Deciding(Q) : a.names # {}
                         \/ \E a \in Q.checks : a.kind = "status" /\ a.blocking /\ ~a.fits /\ ~a.readable
                    /\ ~conf.generated /\ answer = "wrong" =>
                         \A a \in Q.from[1].asserts :
                           a.kind = "path" /\ a.blocking /\ ~a.token => Verdicts = {"failed"}
  BY DEF VerdictsAreJust
<1>1. Q \in Fit(conf) /\ conf \in Configurations
  BY AtRequest
<1>2. PICK i \in DOMAIN RunCases(conf) : Q = CaseRequest(RunCases(conf)[i], conf)
  BY <1>1 DEF Fit, Origin
<1>3. PICK k0 \in Cases : RunCases(conf)[i] = Sanitized(k0, conf.schema, conf.generated)
  BY <1>1, <1>2, RunCasesType
<1>4. conf.schema \in Seq(Endpoints) /\ conf.generated \in BOOLEAN
  BY <1>1 DEF Configurations
<1>5. PICK k \in Cases : k = Sanitized(k0, conf.schema, conf.generated)
  BY <1>4, SanitizedType
<1>6. PICK known \in Cases :
        /\ known.schema = k.schema /\ known.category = k0.category /\ k.category = k0.category
        /\ k.asserts = {Scoped(a, known, conf.generated) : a \in k0.asserts}
  BY <1>4, <1>5, SanitizedType
<1>7. Q = CaseRequest(k, conf)
  BY <1>2, <1>3, <1>5
<1>8. /\ Q.from = <<k>>
      /\ Q.category = IF CaseSkip(k, conf) = "no" THEN k.category ELSE "SKIPPED"
      /\ Q.checks = CaseChecks(k)
  BY <1>1, <1>7, CaseRequestType
<1>9. k.category = "SMOKE" /\ known.category = "SMOKE" /\ Q.from[1] = k
  BY <1>6, <1>8
<1>10. SchemaCheck(TRUE).kind = "schema" /\ SchemaCheck(TRUE).blocking /\ SchemaCheck(TRUE).names # {}
      /\ "schema" \in BodyKinds /\ "path" \in BodyKinds /\ "status" # "schema"
  BY DEF SchemaCheck, BodyKinds
<1>11. ASSUME NEW a \in Q.checks, a.kind = "status", a.readable, a.blocking PROVE a.fits
  <2>1. a \in k.asserts
    BY <1>8, <1>10, <1>11, ExpectedType DEF CaseChecks
  <2>2. PICK a0 \in k0.asserts : a = Scoped(a0, known, conf.generated)
    BY <1>6, <2>1
  <2>3. a0 \in Assertions
    BY <2>2 DEF Cases
  <2> QED
    BY <1>4, <1>9, <1>11, <2>2, <2>3, ScopedStatus
<1>12. Verdicts = {IF fits /\ holds THEN "passed" ELSE "failed" : fits \in StatusHolds(Q), holds \in BodyHolds(Q)}
  BY DEF Verdicts, Probes
<1>13. StatusHolds(Q) = {\A a \in Q.checks : a.kind = "status" /\ a.blocking => a.fits}
  <2> DEFINE stated == {a \in Q.checks : a.kind = "status" /\ a.blocking}
  <2>1. Q.category = "SMOKE" /\ Q.category \notin Probes /\ answer \in {"ok", "wrong"}
    BY DEF Probes
  <2>2. StatusHolds(Q) = {\A a \in stated : a.fits}
    BY <2>1 DEF StatusHolds
  <2> QED
    BY <2>2, Zenon
<1>14. ASSUME conf.generated, "failed" \in Verdicts
       PROVE  \/ \E a \in Deciding(Q) : a.names # {}
              \/ \E a \in Q.checks : a.kind = "status" /\ a.blocking /\ ~a.fits /\ ~a.readable
  <2>1. CASE \E a \in Q.checks : a.kind = "status" /\ a.blocking /\ ~a.fits
    BY <1>11, <2>1
  <2>2. CASE \A a \in Q.checks : a.kind = "status" /\ a.blocking => a.fits
    <3>1. FALSE \in BodyHolds(Q)
      <4>1. PICK fits \in StatusHolds(Q), holds \in BodyHolds(Q) :
              "failed" = IF fits /\ holds THEN "passed" ELSE "failed"
        BY <1>12, <1>14
      <4>2. fits = TRUE
        BY <1>13, <2>2, <4>1, Zenon
      <4>3. holds \in BOOLEAN
        BY <4>1 DEF BodyHolds
      <4> QED
        BY <4>1, <4>2, <4>3
    <3>2. PICK a \in Deciding(Q) : TRUE
      BY <3>1 DEF BodyHolds
    <3>3. a \in Q.checks /\ a.blocking /\ a.kind \in BodyKinds
      BY <3>2 DEF Deciding
    <3>4. CASE k.schema
      <4>1. SchemaCheck(TRUE) \in Deciding(Q)
        BY <1>8, <1>10, <3>4 DEF Deciding, CaseChecks, Probes
      <4> QED
        BY <1>10, <4>1
    <3>5. CASE ~k.schema
      <4>1. a.kind # "status"
        BY <3>3 DEF BodyKinds
      <4>2. PICK a0 \in k0.asserts : a = Scoped(a0, known, TRUE)
        BY <1>4, <1>6, <1>8, <1>14, <3>3, <3>5, <4>1, ExpectedType DEF CaseChecks
      <4>3. a0 \in Assertions
        BY <4>2 DEF Cases
      <4>4. a.names # {}
        BY <1>6, <3>3, <3>5, <4>2, <4>3, ScopedGrounded
      <4> QED
        BY <4>4
    <3> QED
      BY <3>4, <3>5
  <2> QED
    BY <2>1, <2>2
<1>15. ASSUME ~conf.generated, answer = "wrong", NEW a \in Q.from[1].asserts,
              a.kind = "path", a.blocking, ~a.token
       PROVE  Verdicts = {"failed"}
  <2>1. a \in Deciding(Q)
    BY <1>8, <1>9, <1>10, <1>15 DEF Deciding, CaseChecks, Probes
  <2>2. BodyHolds(Q) = {FALSE}
    BY <1>15, <2>1 DEF BodyHolds
  <2> QED
    BY <1>12, <1>13, <2>2
<1> QED
  BY <1>14, <1>15

LEMMA CandidatesCounted ==
  ASSUME conf \in Configurations
  PROVE  Len(Candidates(conf)) \in Nat
<1>1. ActionRequests(Actions(conf), conf) \in Seq(Fit(conf))
  BY ActionRequestsType
<1>2. \A S : \A s \in Seq(S) : Len(s) \in Nat
  OBVIOUS
<1>3. \A q : Len(<< q >>) \in Nat
  OBVIOUS
<1> QED
  BY <1>1, <1>2, <1>3, CandidatesType, Zenon

\* When the stage is done, each candidate has one result or is counted as omitted,
\* nothing being lost between selection, skips, retries and logins; an answer with the
\* documented status fails a generated case only over a field somebody named or a status
\* the sanitizer does not read, and one that contradicts the user's own assertion never
\* passes (api_runner.run, sanitize_api_case_assertions).
THEOREM EverythingAccounted == Spec => []Accounted
<1>1. Init => Books
  BY DEF Init, Books, Total, Outcomes
<1>2. Books /\ SInv => EveryCandidateAccounted
  <2> SUFFICES ASSUME Books, SInv, pc = "done" PROVE EveryCandidateAccounted
    BY DEF EveryCandidateAccounted
  <2>1. conf \in Configurations /\ queue \in Seq(Fit(conf))
    BY QueueFits, ScenariosAssumption DEF SInv, TypeOK, Selection
  <2>2. Total + omitted = Len(queue) /\ Len(queue) \in Nat
    BY <2>1 DEF Books
  <2>3. Len(Candidates(conf)) \in Nat
    BY <2>1, CandidatesCounted
  <2>4. Total \in Nat /\ omitted \in Nat
    BY DEF Books, Total, Outcomes, SInv, TypeOK
  <2> QED
    BY <2>2, <2>3, <2>4 DEF EveryCandidateAccounted
<1> QED
  BY <1>1, <1>2, JustVerdicts, BooksInductive, InitSInv, SInvInductive, PTL DEF Spec, Accounted

-----------------------------------------------------------------------------
(* The chains the stage composes itself.                                   *)

\* A creation of a record of r is still to come.
Ahead(r) == \E j \in index .. Len(queue) :
              queue[j].method = "POST" /\ queue[j].skip = "no" /\ queue[j].res = r

\* An id is shown by a success; a creation shows that of its own record.
Showing ==
  /\ shows # "none" => answer \in {"ok", "wrong"} /\ pc \in {"send", "answered", "login", "judge"}
  /\ shows # "none" /\ Q.method = "POST" => shows = "own"
  /\ pc = "select" => named = {} /\ ctx = [v \in Vars |-> "none"]

\* Whose record is known for r: its own, or none yet, or none is to be created.
Known(r) == ctx[r] = "own" \/ (r \notin named /\ (ctx[r] = "none" \/ ~Ahead(r)))

\* A deletion the loop is past was sent, or there is nothing of this run to delete.
Deleted(i) ==
  queue[i].method = "DELETE" =>
    i \in sent \/ "DELETE" \in blocked \/ (queue[i].res \notin named /\ ~Ahead(queue[i].res))

Chains ==
  Synthetic => /\ \A r \in named : ctx[r] # "none"
               /\ \A r \in Resources : ~Planned(r) => Known(r)
               /\ \A i \in 1 .. index - 1 : Deleted(i)

CInv == IInv /\ SInv /\ Showing /\ Chains

LEMMA SyntheticIsTidy ==
  ASSUME SInv, Synthetic
  PROVE  /\ pc # "select" /\ Tidy(queue, conf) /\ Len(queue) \in Nat /\ index \in Nat
         /\ \A r : Planned(r) <=> PlannedFor(conf, r)
<1>1. FromActions(queue) /\ ~PlansWrite(OwnPlan(conf))
  BY DEF Synthetic, OwnPlan
<1>2. pc # "select" /\ queue = Queue(conf)
  BY <1>1 DEF FromActions, SInv, Selection
<1>3. conf \in Configurations /\ queue \in Seq(Fit(conf))
  BY <1>2, QueueFits, ScenariosAssumption DEF SInv, TypeOK
<1>4. Tidy(queue, conf)
  BY <1>1, <1>2, <1>3, QueueType
<1>5. Len(queue) \in Nat /\ index \in Nat
  BY <1>3 DEF SInv, TypeOK
<1> QED
  BY <1>2, <1>4, <1>5 DEF Planned, PlannedFor

\* The request the loop is at, if its chain is tidy: after it no creation of its
\* resource, unless the plan has such a request.
LEMMA NoneAhead ==
  ASSUME SInv, Synthetic, pc \in {"next", "send", "answered", "login", "judge"},
         NEW j \in index + 1 .. Len(queue), queue[j].method = "POST", queue[j].skip = "no",
         queue[j].res = Q.res
  PROVE  Planned(Q.res) /\ Q.method # "DELETE" /\ Q.method # "POST"
<1>1. /\ Tidy(queue, conf) /\ \A r : Planned(r) <=> PlannedFor(conf, r)
  BY SyntheticIsTidy
<1>2. index \in 1 .. Len(queue) /\ Len(queue) \in Nat
  BY AtRequest
<1>3. j \in 1 .. Len(queue) /\ index < j
  BY <1>2
<1>4. PlannedFor(conf, queue[index].res) /\ queue[index].method # "DELETE" /\ queue[index].method # "POST"
  BY <1>1, <1>2, <1>3 DEF Tidy, Q
<1> QED
  BY <1>1, <1>4 DEF Q

\* What a request passed without a success, or what no request changes, keeps.
LEMMA ChainsPass ==
  ASSUME CInv, NEW n, n = index, pc \in {"next", "answered"}, index' = index + 1,
         UNCHANGED <<conf, queue, ctx, sent, named>>, blocked \subseteq blocked',
         Synthetic => Deleted(n)'
  PROVE  Chains'
<1> SUFFICES ASSUME Synthetic
             PROVE  /\ \A r \in named' : ctx'[r] # "none"
                    /\ \A r \in Resources : ~Planned(r) => Known(r)'
                    /\ \A i \in 1 .. index' - 1 : Deleted(i)'
  BY DEF Chains, Synthetic, Planned
<1>1. Chains /\ SInv
  BY DEF CInv
<1>2. index \in Nat /\ Len(queue) \in Nat
  BY <1>1, SyntheticIsTidy
<1>3. \A r : Ahead(r)' => Ahead(r)
  BY <1>2 DEF Ahead
<1>4. \A r \in Resources : ~Planned(r) => Known(r)'
  BY <1>1, <1>3 DEF Chains, Known
<1>5. ASSUME NEW i \in 1 .. index' - 1 PROVE Deleted(i)'
  <2>1. CASE i = index
    <3>1. i = n
      BY <2>1
    <3> QED
      BY <3>1
  <2>2. CASE i \in 1 .. index - 1
    BY <1>1, <1>3, <2>2 DEF Chains, Deleted
  <2> QED
    BY <1>2, <2>1, <2>2
<1> QED
  BY <1>1, <1>4, <1>5 DEF Chains

\* The steps that stay at the request.
LEMMA ChainsStay ==
  ASSUME CInv, UNCHANGED <<conf, queue, index, ctx, blocked, named>>, sent \subseteq sent'
  PROVE  Chains'
BY DEF CInv, Chains, Synthetic, Planned, Known, Deleted, Ahead

LEMMA ChainsJudged ==
  ASSUME CInv, Judge
  PROVE  Chains'
<1>1. /\ pc = "judge" /\ UNCHANGED <<conf, queue, blocked, sent>> /\ index' = index + 1
      /\ ctx' \in Extracted(Recorded)
      /\ named' = IF Q.method = "POST" /\ Q.category = "SMOKE" /\ shows = "own"
                    THEN named \cup {Q.res} ELSE named
  BY DEF Judge, Result
<1> SUFFICES ASSUME Synthetic
             PROVE  /\ \A r \in named' : ctx'[r] # "none"
                    /\ \A r \in Resources : ~Planned(r) => Known(r)'
                    /\ \A i \in 1 .. index' - 1 : Deleted(i)'
  BY <1>1 DEF Chains, Synthetic, Planned
<1>2. SInv /\ IInv /\ Showing /\ Chains
  BY DEF CInv
<1>3. Tidy(queue, conf) /\ Len(queue) \in Nat /\ index \in 1 .. Len(queue)
  BY <1>1, <1>2, SyntheticIsTidy, AtRequest
<1>4. Q.skip = "no" /\ index \in sent
  BY <1>1, <1>2 DEF IInv, Sendable, SInv, Position
<1>5. Q.gives = {} /\ Q.res \in Vars /\ Q.res \in Resources
  BY <1>1, <1>2, <1>3, AtRequest DEF Tidy, Q
<1>6. ctx' = Recorded /\ Recorded \in [Vars -> Owners]
  <2>1. ctx \in [Vars -> Owners] /\ shows \in Owners
    BY <1>2 DEF SInv, TypeOK
  <2>2. Recorded \in [Vars -> Owners]
    BY <1>5, <2>1 DEF Recorded
  <2>3. ctx' = [v \in Vars |-> Recorded[v]]
    BY <1>1, <1>5 DEF Extracted
  <2> QED
    BY <2>2, <2>3
<1>7. PICK x : x = Q.res
  OBVIOUS
<1> DEFINE records == Q.category = "SMOKE" /\ answer \in {"ok", "wrong"} /\ shows # "none" /\ ctx[Q.res] = "none"
<1>8. /\ ~records => ctx' = ctx
      /\ records => ctx'[Q.res] = shows
      /\ \A r \in Resources : r # Q.res => ctx'[r] = ctx[r]
  <2>1. ctx \in [Vars -> Owners] /\ Resources \subseteq Vars
    BY <1>2 DEF SInv, TypeOK, Vars
  <2> QED
    BY <1>5, <1>6, <2>1 DEF Recorded
<1>9. \A r : Ahead(r)' => Ahead(r)
  BY <1>1, <1>3 DEF Ahead
<1>10. Q.method = "POST" => Ahead(Q.res)
  BY <1>3, <1>4 DEF Ahead, Q
<1>11. Ahead(x)' => Planned(x) /\ Q.method # "POST"
  <2>1. ASSUME Ahead(x)' PROVE \E j \in index + 1 .. Len(queue) :
                    queue[j].method = "POST" /\ queue[j].skip = "no" /\ queue[j].res = Q.res
    BY <1>1, <1>7, <2>1 DEF Ahead
  <2> QED
    BY <1>1, <1>2, <1>7, <2>1, NoneAhead
<1>12. named \subseteq Resources
  BY <1>2 DEF SInv, TypeOK
<1>13. Q.method = "POST" /\ Q.category = "SMOKE" /\ shows = "own" => ctx'[Q.res] # "none"
  BY <1>2, <1>8 DEF Showing
<1>14. \A r \in named : ctx'[r] # "none"
  BY <1>2, <1>8, <1>12 DEF Chains
<1>15. \A r \in named' : ctx'[r] # "none"
  BY <1>1, <1>13, <1>14
<1>16. ASSUME NEW r \in Resources, ~Planned(r) PROVE Known(r)'
  <2>1. Known(r)
    BY <1>2, <1>16 DEF Chains
  <2>2. CASE r # Q.res
    <3>1. ctx'[r] = ctx[r] /\ (r \in named' <=> r \in named)
      BY <1>1, <1>8, <2>2
    <3> QED
      BY <1>9, <2>1, <3>1 DEF Known
  <2>3. CASE r = Q.res /\ ctx[r] = "own"
    BY <1>8, <2>3 DEF Known
  <2>4. CASE r = Q.res /\ ctx[r] # "own" /\ Q.method = "POST"
    <3>1. r \notin named /\ ctx[r] = "none"
      BY <1>10, <2>1, <2>4 DEF Known
    <3>2. shows # "none" => shows = "own" /\ answer \in {"ok", "wrong"}
      BY <1>2, <2>4 DEF Showing
    <3>3. CASE Q.category = "SMOKE" /\ shows = "own"
      BY <1>8, <2>4, <3>1, <3>2, <3>3 DEF Known
    <3>4. CASE ~(Q.category = "SMOKE" /\ shows = "own")
      <4>1. named' = named /\ ctx' = ctx
        BY <1>1, <1>8, <3>2, <3>4
      <4> QED
        BY <3>1, <4>1 DEF Known
    <3> QED
      BY <3>3, <3>4
  <2>5. CASE r = Q.res /\ ctx[r] # "own" /\ Q.method # "POST"
    <3>1. r \notin named' /\ ~Ahead(r)'
      BY <1>1, <1>7, <1>11, <1>16, <2>1, <2>5 DEF Known
    <3> QED
      BY <3>1 DEF Known
  <2> QED
    BY <2>2, <2>3, <2>4, <2>5
<1>17. ASSUME NEW i \in 1 .. index' - 1 PROVE Deleted(i)'
  <2>1. CASE i = index
    BY <1>1, <1>4, <2>1 DEF Deleted
  <2>2. CASE i \in 1 .. index - 1
    <3>1. Deleted(i)
      BY <1>2, <2>2 DEF Chains
    <3>2. named' = named \/ (named' = named \cup {Q.res} /\ Ahead(Q.res))
      BY <1>1, <1>10
    <3>3. queue[i].res \notin named /\ ~Ahead(queue[i].res) => queue[i].res \notin named' /\ ~Ahead(queue[i].res)'
      BY <1>1, <1>9, <3>2
    <3> QED
      BY <1>1, <3>1, <3>3 DEF Deleted
  <2> QED
    BY <1>1, <1>3, <2>1, <2>2
<1> QED
  BY <1>15, <1>16, <1>17

LEMMA ShowingInductive ==
  ASSUME CInv, [Next]_vars
  PROVE  Showing'
<1>1. SInv /\ Showing
  BY DEF CInv
<1>2. ASSUME NEW o, Result(o), pc # "select" PROVE Showing'
  BY <1>2 DEF Result, Showing
<1>3. CASE Select
  BY <1>1, <1>3 DEF Select, Call, World, History, Showing
<1>4. CASE SkipMarked \/ SkipDependent \/ SkipEnvironment \/ NoResponse \/ Denied \/ Judge
  BY <1>2, <1>4 DEF SkipMarked, SkipDependent, SkipEnvironment, NoResponse, Denied, Judge
<1>5. CASE OmitRest \/ Begin
  BY <1>1, <1>5 DEF OmitRest, Begin, Call, World, History, Showing, Q
<1>6. ASSUME NEW a \in Answers, Respond(a) PROVE Showing'
  <2>1. /\ pc = "send" /\ pc' \in {"send", "answered"} /\ answer' = a /\ shows' \in Shown(a)
        /\ UNCHANGED <<queue, index>>
    BY <1>6 DEF Respond
  <2>2. shows' # "none" => a \in {"ok", "wrong"}
    BY <2>1 DEF Shown
  <2>3. shows' # "none" /\ Q.method = "POST" => shows' = "own"
    BY <2>1 DEF Shown
  <2> QED
    BY <2>1, <2>2, <2>3 DEF Showing, Q
<1>7. CASE Raise
  <2>1. /\ pc = "send" /\ pc' \in {"send", "answered"} /\ UNCHANGED <<queue, index>>
        /\ \/ answer' = "none" /\ shows' = "none"
           \/ answer' = answer /\ shows' = shows
    BY <1>7 DEF Raise
  <2> QED
    BY <1>1, <2>1 DEF Showing, Q
<1>8. CASE Answered
  BY <1>1, <1>8 DEF Answered, Call, World, History, Showing, Q
<1>9. CASE LoginAgain
  BY <1>1, <1>9 DEF LoginAgain, Call, World, History, Showing, Q
<1>10. CASE Done \/ UNCHANGED vars
  BY <1>1, <1>10 DEF Done, vars, Showing, Q
<1> QED
  BY <1>3, <1>4, <1>5, <1>6, <1>7, <1>8, <1>9, <1>10 DEF Next

LEMMA ChainsInductive ==
  ASSUME CInv, [Next]_vars
  PROVE  Chains'
<1>1. SInv /\ Chains
  BY DEF CInv
<1>2. PICK n : n = index
  OBVIOUS
<1>3. CASE Select
  <2>1. /\ pc = "select" /\ index' = 1 /\ named' = {} /\ ctx' = [v \in Vars |-> "none"]
    BY <1>1, <1>3 DEF Select, World, History, CInv, Showing, SInv, Selection
  <2>2. Resources \subseteq Vars
    BY DEF Vars
  <2>3. \A r \in Resources : Known(r)'
    BY <2>1, <2>2 DEF Known
  <2> QED
    BY <2>1, <2>3 DEF Chains
<1>4. CASE SkipMarked
  <2>1. /\ pc = "next" /\ Q.skip # "no" /\ index' = index + 1
        /\ UNCHANGED <<conf, queue, ctx, blocked, sent, named>>
    BY <1>4 DEF SkipMarked, Result, World, History
  <2>2. Synthetic => Q.method # "DELETE"
    BY <1>1, <2>1, SyntheticIsTidy, AtRequest DEF Tidy, Q
  <2>3. Synthetic => Deleted(n)'
    BY <1>2, <2>1, <2>2 DEF Deleted, Q
  <2> QED
    BY <2>1, <2>3, <1>2, ChainsPass
<1>5. CASE SkipDependent
  <2>1. /\ pc = "next" /\ Missing(Q) # {} /\ index' = index + 1
        /\ UNCHANGED <<conf, queue, ctx, blocked, sent, named>>
    BY <1>5 DEF SkipDependent, Result, World, History
  <2>2. PICK x : x = Q.res
    OBVIOUS
  <2>3. ASSUME Synthetic, Q.method = "DELETE" PROVE x \notin named /\ ~Ahead(x)'
    <3>1. Q.needs \subseteq {x}
      BY <1>1, <2>1, <2>3, <2>2, SyntheticIsTidy, AtRequest DEF Tidy, Q
    <3>2. ctx[x] = "none"
      BY <2>1, <3>1 DEF Missing
    <3>3. ~Ahead(x)'
      <4>1. ASSUME Ahead(x)' PROVE \E j \in index + 1 .. Len(queue) :
                    queue[j].method = "POST" /\ queue[j].skip = "no" /\ queue[j].res = Q.res
        BY <2>1, <2>2, <4>1 DEF Ahead
      <4> QED
        BY <1>1, <2>1, <2>3, <4>1, NoneAhead
    <3> QED
      BY <1>1, <2>3, <3>2, <3>3 DEF Chains
  <2>4. Synthetic => Deleted(n)'
    BY <1>2, <2>1, <2>2, <2>3 DEF Deleted, Q
  <2> QED
    BY <2>1, <2>4, <1>2, ChainsPass
<1>6. CASE SkipEnvironment
  <2>1. /\ pc = "next" /\ Q.method \in blocked /\ index' = index + 1
        /\ UNCHANGED <<conf, queue, ctx, blocked, sent, named>>
    BY <1>6 DEF SkipEnvironment, Result, World, History
  <2>2. Deleted(n)'
    BY <1>2, <2>1 DEF Deleted, Q
  <2> QED
    BY <2>1, <2>2, <1>2, ChainsPass
<1>7. CASE NoResponse \/ Denied
  <2>1. /\ pc = "answered" /\ index' = index + 1 /\ blocked \subseteq blocked'
        /\ UNCHANGED <<conf, queue, ctx, sent, named>>
    BY <1>7 DEF NoResponse, Denied, Result, World, History
  <2>2. Deleted(n)'
    BY <1>1, <1>2, <2>1 DEF Deleted, SInv, Position
  <2> QED
    BY <2>1, <2>2, <1>2, ChainsPass
<1>8. CASE Judge
  BY <1>8, ChainsJudged
<1>9. CASE OmitRest \/ Begin \/ Answered \/ LoginAgain \/ Done \/ UNCHANGED vars
  <2>1. UNCHANGED <<conf, queue, index, ctx, blocked, named, sent>>
    BY <1>9 DEF OmitRest, Begin, Answered, LoginAgain, Done, vars, World, History
  <2> QED
    BY <2>1, ChainsStay
<1>10. CASE (\E a \in Answers : Respond(a)) \/ Raise
  <2>1. UNCHANGED <<conf, queue, index, ctx, blocked, named>> /\ sent \subseteq sent'
    BY <1>10 DEF Respond, Raise, Sent, World
  <2> QED
    BY <2>1, ChainsStay
<1> QED
  BY <1>3, <1>4, <1>5, <1>6, <1>7, <1>8, <1>9, <1>10 DEF Next

LEMMA CInvInductive == CInv /\ [Next]_vars => CInv'
BY Inductive, SInvInductive, ShowingInductive, ChainsInductive DEF CInv

\* A chain the stage composed for an unplanned resource addresses the record it
\* created and named, and its deletion is sent unless a 405 or the budget stands in
\* the way, whatever failed in between (_synthetic_crud_action_chain_for_resource,
\* _record_dependency_context_from_response).
THEOREM CleanedUp == Spec => []ChainsCleanUp
<1>1. Init => CInv
  <2> SUFFICES ASSUME Init PROVE CInv
    OBVIOUS
  <2>1. IInv /\ SInv
    BY InitHolds, InitSInv
  <2>2. Showing
    BY DEF Init, Showing
  <2>3. Chains
    BY <2>1, SyntheticIsTidy DEF Init, Chains
  <2> QED
    BY <2>1, <2>2, <2>3 DEF CInv
<1>2. CInv => ChainsCleanUp
  <2> SUFFICES ASSUME CInv PROVE ChainsCleanUp
    OBVIOUS
  <2>1. named \subseteq Resources
    BY DEF CInv, SInv, TypeOK
  <2>2. NamedRecordIsUsed
    BY <2>1 DEF CInv, Chains, Known, NamedRecordIsUsed
  <2>3. CleanupIsTried
    BY DEF CInv, Chains, Deleted, CleanupIsTried
  <2> QED
    BY <2>2, <2>3 DEF ChainsCleanUp
<1> QED
  BY <1>1, <1>2, CInvInductive, PTL DEF Spec
=============================================================================
