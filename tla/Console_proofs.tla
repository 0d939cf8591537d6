---------------------------- MODULE Console_proofs ---------------------------
(***************************************************************************)
(* What the console of Project/Routing_Table/server.c puts into the two    *)
(* tables, for any vocabulary of words and any lines made of them, and     *)
(* what a newly accepted client makes of the texts it is sent.             *)
(*                                                                         *)
(* The inductive invariant is ConInv: every stored route is one that a     *)
(* line which passed the checks of check_format_input_string spells, or    *)
(* the one of a read of 0 bytes; every stored MAC address has the form of  *)
(* one; entries with the same key come in neighbouring pairs.  The first   *)
(* is what makes the printed texts parse back, the last what makes the     *)
(* client's own duplicate check let them through.                          *)
(***************************************************************************)
EXTENDS Console, SequenceTheorems, WellFoundedInduction, TLAPS

-----------------------------------------------------------------------------
(* Least elements, and the choice SelectInSeq makes.                       *)
\* Every non-empty set of natural numbers has a least element.
LEMMA Least ==
  ASSUME NEW S \in SUBSET Nat, S # {}
  PROVE  \E n \in S : \A m \in S : n <= m
<1> DEFINE Less == OpToRel(<, Nat)
<1>1. \A x, y \in Nat : y < x => <<y, x>> \in Less
  BY DEF OpToRel
<1>2. IsWellFoundedOn(Less, Nat)
  BY NatLessThanWellFounded, Zenon
<1> HIDE DEF Less
<1>3. PICK x \in S : \A y \in S : ~ (<<y, x>> \in Less)
  BY <1>2, WFMin
<1>4. \A y \in S : ~ (y < x)
  BY <1>1, <1>3
<1>5. QED BY <1>4

\* The index SelectInSeq finds is one of an element that passes the test.
LEMMA MinOf ==
  ASSUME NEW S \in SUBSET Nat, S # {}
  PROVE  Min(S) \in S
<1>1. PICK n \in S : \A m \in S : n <= m
  BY Least
<1>2. QED BY <1>1 DEF Min

-----------------------------------------------------------------------------
(* The list operations of common.c and common_mac.c.                        *)
\* The elements behind the one removed move up.
LEMMA RemoveAtIs ==
  ASSUME NEW T, NEW s \in Seq(T), NEW i \in 1..Len(s)
  PROVE  /\ RemoveAt(s, i) \in Seq(T) /\ Len(RemoveAt(s, i)) = Len(s) - 1
         /\ \A j \in 1..(Len(s) - 1) :
              RemoveAt(s, i)[j] = IF j < i THEN s[j] ELSE s[j + 1]
<1> DEFINE a == SubSeq(s, 1, i - 1)
           b == SubSeq(s, i + 1, Len(s))
<1>1. /\ a \in Seq(T) /\ Len(a) = i - 1
      /\ \A j \in 1..(i - 1) : a[j] = s[j]
  BY SubSeqProperties
<1>2. /\ b \in Seq(T) /\ Len(b) = Len(s) - i
      /\ \A j \in 1..(Len(s) - i) : b[j] = s[i + j]
  BY SubSeqProperties
<1>3. RemoveAt(s, i) = a \o b
  BY DEF RemoveAt
<1> HIDE DEF a, b
<1>4. Len(s) \in Nat
  BY LenProperties
<1>5. /\ a \o b \in Seq(T) /\ Len(a \o b) = Len(a) + Len(b)
      /\ \A j \in 1..(Len(a) + Len(b)) :
           (a \o b)[j] = IF j <= Len(a) THEN a[j] ELSE b[j - Len(a)]
  BY <1>1, <1>2, ConcatProperties
<1>6. ASSUME NEW j \in 1..(Len(s) - 1)
      PROVE  (a \o b)[j] = IF j < i THEN s[j] ELSE s[j + 1]
  <2>1. CASE j < i
    <3>1. (a \o b)[j] = a[j] /\ j \in 1..(i - 1)
      BY <1>1, <1>2, <1>4, <1>5, <2>1
    <3>2. QED BY <1>1, <2>1, <3>1
  <2>2. CASE ~ (j < i)
    <3>1. (a \o b)[j] = b[j - (i - 1)] /\ j - (i - 1) \in 1..(Len(s) - i)
      BY <1>1, <1>2, <1>4, <1>5, <2>2
    <3>2. b[j - (i - 1)] = s[i + (j - (i - 1))] /\ i + (j - (i - 1)) = j + 1
      BY <1>2, <1>4, <3>1
    <3>3. QED BY <2>2, <3>1, <3>2
  <2>3. QED BY <2>1, <2>2
<1>7. QED BY <1>1, <1>2, <1>3, <1>4, <1>5, <1>6

\* Every case of the opcode switch makes a list of elements the list had and, unless
\* it is DELETE, the request's.
LEMMA EditRoutesIn ==
  ASSUME NEW T, NEW s \in Seq(T), NEW e, NEW op \in TableOps, op # "DELETE" => e \in T
  PROVE  EditRoutes(s, e, op) \in Seq(T)
<1>0. Len(s) \in Nat
  BY LenProperties
<1>1. CASE op = "CREATE"
  BY <1>1, AppendProperties DEF EditRoutes, add_last_entry_list
<1>2. CASE op = "UPDATE"
  BY <1>2, LenProperties DEF EditRoutes, update_entry_table
<1>3. CASE op = "DELETE"
  <2> DEFINE I == {i \in 1..Len(s) : s[i].key = e.key}
             m == Min(I)
  <2>1. EditRoutes(s, e, op) = IF I # {} THEN RemoveAt(s, m) ELSE s
    BY <1>3 DEF EditRoutes, remove_node_list, RemoveFirstMatch, SelectInSeq
  <2>2. I \subseteq 1..Len(s) /\ I \in SUBSET Nat
    BY <1>0
  <2> HIDE DEF I
  <2>3. I # {} => m \in 1..Len(s)
    BY <2>2, MinOf
  <2> HIDE DEF m
  <2>4. QED BY <2>1, <2>3, RemoveAtIs
<1>4. QED BY <1>1, <1>2, <1>3 DEF TableOps

LEMMA EditMacsIn ==
  ASSUME NEW T, NEW s \in Seq(T), NEW e, NEW op \in TableOps, op # "DELETE" => e \in T
  PROVE  EditMacs(s, e, op) \in Seq(T)
<1>0. Len(s) \in Nat
  BY LenProperties
<1>1. CASE op = "CREATE"
  BY <1>1, AppendProperties DEF EditMacs, add_last_entry_list_mac
<1>2. CASE op = "UPDATE"
  BY <1>2, LenProperties DEF EditMacs, update_entry_table_mac
<1>3. CASE op = "DELETE"
  <2> DEFINE I == {i \in 1..Len(s) : s[i] = e}
             m == Min(I)
  <2>1. EditMacs(s, e, op) = IF I # {} THEN RemoveAt(s, m) ELSE s
    BY <1>3 DEF EditMacs, remove_node_list_mac, RemoveFirstMatch, SelectInSeq
  <2>2. I \subseteq 1..Len(s) /\ I \in SUBSET Nat
    BY <1>0
  <2> HIDE DEF I
  <2>3. I # {} => m \in 1..Len(s)
    BY <2>2, MinOf
  <2> HIDE DEF m
  <2>4. QED BY <2>1, <2>3, RemoveAtIs
<1>4. QED BY <1>1, <1>2, <1>3 DEF TableOps

\* A key is in a table at most twice, and then in neighbouring entries.
PairedRoutes(s) ==
  \A i, j \in 1..Len(s) : i < j /\ s[i].key = s[j].key => j = i + 1
PairedMacs(s) ==
  \A i, j \in 1..Len(s) : i < j /\ s[i] = s[j] => j = i + 1
Paired(t) == PairedRoutes(t.rt) /\ PairedMacs(t.mac)

\* CREATE compares with all entries but the last (common.c:256), UPDATE changes no
\* key and DELETE takes one entry out: pairs stay pairs.
LEMMA EditRoutesPaired ==
  ASSUME NEW s \in Seq(Routes), NEW e \in Routes, NEW op \in TableOps,
         PairedRoutes(s), check_condition(s, e.key, op)
  PROVE  PairedRoutes(EditRoutes(s, e, op))
<1> DEFINE n == Len(s)
<1>0. n \in Nat /\ \A i \in 1..n : s[i] \in Routes
  BY LenProperties, ElementOfSeq
<1>1. CASE op = "CREATE"
  <2> DEFINE u == Append(s, e)
  <2>1. Len(u) = n + 1 /\ u[n + 1] = e /\ \A i \in 1..n : u[i] = s[i]
    BY AppendProperties
  <2>2. \A i \in 1..(n - 1) : s[i].key # e.key
    BY <1>1 DEF check_condition, HasKey
  <2>3. EditRoutes(s, e, op) = u
    BY <1>1 DEF EditRoutes, add_last_entry_list
  <2> HIDE DEF u, n
  <2>4. ASSUME NEW i \in 1..(n + 1), NEW j \in 1..(n + 1), i < j, u[i].key = u[j].key
        PROVE  j = i + 1
    <3>1. CASE j = n + 1
      <4>1. i \in 1..n /\ u[i] = s[i] /\ u[j] = e
        BY <1>0, <2>1, <2>4, <3>1
      <4>2. i \notin 1..(n - 1)
        BY <2>2, <2>4, <4>1
      <4>3. QED BY <1>0, <3>1, <4>1, <4>2
    <3>2. CASE j # n + 1
      <4>1. i \in 1..n /\ j \in 1..n
        BY <1>0, <2>4, <3>2
      <4>2. QED BY <2>1, <2>4, <4>1 DEF PairedRoutes, n
    <3>3. QED BY <3>1, <3>2
  <2>5. QED BY <2>1, <2>3, <2>4 DEF PairedRoutes
<1>2. CASE op = "UPDATE"
  <2> DEFINE u == update_entry_table(s, e)
  <2>1. Len(u) = n /\ \A i \in 1..n : u[i].key = s[i].key
    BY <1>0 DEF update_entry_table
  <2>2. EditRoutes(s, e, op) = u
    BY <1>2 DEF EditRoutes
  <2> HIDE DEF u
  <2>3. QED BY <2>1, <2>2 DEF PairedRoutes
<1>3. CASE op = "DELETE"
  <2> DEFINE I == {i \in 1..n : s[i].key = e.key}
             m == Min(I)
             u == RemoveAt(s, m)
  <2>0. EditRoutes(s, e, op) = IF I # {} THEN u ELSE s
    BY <1>3 DEF EditRoutes, remove_node_list, RemoveFirstMatch, SelectInSeq
  <2>1. CASE I # {}
    <3>1. I \in SUBSET Nat
      BY <1>0
    <3> HIDE DEF I
    <3>2. m \in I
      BY <2>1, <3>1, MinOf
    <3> USE DEF I
    <3> HIDE DEF m
    <3>4. m \in 1..n
      BY <3>2
    <3>5. Len(u) = n - 1 /\ \A j \in 1..(n - 1) : u[j] = IF j < m THEN s[j] ELSE s[j + 1]
      BY <3>4, RemoveAtIs
    <3> HIDE DEF u, n, I
    <3>6. ASSUME NEW i \in 1..(n - 1), NEW j \in 1..(n - 1), i < j, u[i].key = u[j].key
          PROVE  j = i + 1
      <4> DEFINE x == IF i < m THEN i ELSE i + 1
                 y == IF j < m THEN j ELSE j + 1
      <4>1. x \in 1..n /\ y \in 1..n /\ x < y /\ u[i] = s[x] /\ u[j] = s[y]
        BY <1>0, <3>4, <3>5, <3>6
      <4>2. y = x + 1
        BY <3>6, <4>1 DEF PairedRoutes, n
      <4>3. QED BY <1>0, <3>4, <3>6, <4>2
    <3>7. QED BY <2>0, <2>1, <3>5, <3>6 DEF PairedRoutes
  <2>2. CASE I = {}
    BY <2>0, <2>2
  <2>3. QED BY <2>1, <2>2
<1>4. QED BY <1>1, <1>2, <1>3 DEF TableOps

LEMMA EditMacsPaired ==
  ASSUME NEW s \in Seq(Words), NEW a \in Words, NEW op \in TableOps,
         PairedMacs(s), check_condition_mac(s, a, op)
  PROVE  PairedMacs(EditMacs(s, a, op))
<1> DEFINE n == Len(s)
<1>0. n \in Nat
  BY LenProperties
<1>1. CASE op = "CREATE"
  <2> DEFINE u == Append(s, a)
  <2>1. Len(u) = n + 1 /\ u[n + 1] = a /\ \A i \in 1..n : u[i] = s[i]
    BY AppendProperties
  <2>2. \A i \in 1..(n - 1) : s[i] # a
    BY <1>1 DEF check_condition_mac, HasMac
  <2>3. EditMacs(s, a, op) = u
    BY <1>1 DEF EditMacs, add_last_entry_list_mac
  <2> HIDE DEF u, n
  <2>4. ASSUME NEW i \in 1..(n + 1), NEW j \in 1..(n + 1), i < j, u[i] = u[j]
        PROVE  j = i + 1
    <3>1. CASE j = n + 1
      <4>1. i \in 1..n /\ u[i] = s[i] /\ u[j] = a
        BY <1>0, <2>1, <2>4, <3>1
      <4>2. i \notin 1..(n - 1)
        BY <2>2, <2>4, <4>1
      <4>3. QED BY <1>0, <3>1, <4>1, <4>2
    <3>2. CASE j # n + 1
      <4>1. i \in 1..n /\ j \in 1..n
        BY <1>0, <2>4, <3>2
      <4>2. QED BY <2>1, <2>4, <4>1 DEF PairedMacs, n
    <3>3. QED BY <3>1, <3>2
  <2>5. QED BY <2>1, <2>3, <2>4 DEF PairedMacs
<1>2. CASE op = "UPDATE"
  <2>1. EditMacs(s, a, op) = s
    BY <1>2, LenProperties DEF EditMacs, update_entry_table_mac
  <2>2. QED BY <2>1
<1>3. CASE op = "DELETE"
  <2> DEFINE I == {i \in 1..n : s[i] = a}
             m == Min(I)
             u == RemoveAt(s, m)
  <2>0. EditMacs(s, a, op) = IF I # {} THEN u ELSE s
    BY <1>3 DEF EditMacs, remove_node_list_mac, RemoveFirstMatch, SelectInSeq
  <2>1. CASE I # {}
    <3>1. I \in SUBSET Nat
      BY <1>0
    <3> HIDE DEF I
    <3>2. m \in I
      BY <2>1, <3>1, MinOf
    <3> USE DEF I
    <3> HIDE DEF m
    <3>4. m \in 1..n
      BY <3>2
    <3>5. Len(u) = n - 1 /\ \A j \in 1..(n - 1) : u[j] = IF j < m THEN s[j] ELSE s[j + 1]
      BY <3>4, RemoveAtIs
    <3> HIDE DEF u, n, I
    <3>6. ASSUME NEW i \in 1..(n - 1), NEW j \in 1..(n - 1), i < j, u[i] = u[j]
          PROVE  j = i + 1
      <4> DEFINE x == IF i < m THEN i ELSE i + 1
                 y == IF j < m THEN j ELSE j + 1
      <4>1. x \in 1..n /\ y \in 1..n /\ x < y /\ u[i] = s[x] /\ u[j] = s[y]
        BY <1>0, <3>4, <3>5, <3>6
      <4>2. y = x + 1
        BY <3>6, <4>1 DEF PairedMacs, n
      <4>3. QED BY <1>0, <3>4, <3>6, <4>2
    <3>7. QED BY <2>0, <2>1, <3>5, <3>6 DEF PairedMacs
  <2>2. CASE I = {}
    BY <2>0, <2>2
  <2>3. QED BY <2>1, <2>2
<1>4. QED BY <1>1, <1>2, <1>3 DEF TableOps

-----------------------------------------------------------------------------
(* What the tables hold and what a replay of a snapshot gives.             *)
LEMMA Vocabulary ==
  /\ EmptyKey \in LineKeys /\ EmptyVia \in LineVias /\ Blank \in Words
  /\ NoRoute \in Routes /\ NoToken \in Token
BY WordAssumption DEF EmptyKey, LineKeys, EmptyVia, LineVias, NoToken, Token, NoRoute, Routes

LEMMA RequestTypes ==
  /\ Invalid \in Requests /\ EmptyCreate \in Requests
  /\ \A op \in FUNCTION : Plain(op) \in Requests
  /\ \A e \in Routes, op \in TableOps : RouteReq(op, e) \in Requests
  /\ \A m \in Words, op \in TableOps : MacReq(op, m) \in Requests
  /\ \A e \in Routes : WireRoute(e) \in Requests
  /\ \A m \in Words : WireMac(m) \in Requests
BY Vocabulary
   DEF Invalid, EmptyCreate, Plain, RouteReq, MacReq, WireRoute, WireMac, Requests,
       NoRoute, Routes, FUNCTION, TableOps

\* The first i elements of a sequence, and the next one.
LEMMA Prefix ==
  ASSUME NEW T, NEW s \in Seq(T), NEW i \in 1..Len(s)
  PROVE  /\ SubSeq(s, 1, i) = Append(SubSeq(s, 1, i - 1), s[i])
         /\ SubSeq(s, 1, i - 1) \in Seq(T) /\ Len(SubSeq(s, 1, i - 1)) = i - 1
         /\ \A j \in 1..(i - 1) : SubSeq(s, 1, i - 1)[j] = s[j]
<1> DEFINE a == SubSeq(s, 1, i - 1)
           b == SubSeq(s, 1, i)
<1>0. Len(s) \in Nat /\ s[i] \in T
  BY LenProperties, ElementOfSeq
<1>1. /\ a \in Seq(T) /\ Len(a) = i - 1
      /\ \A j \in 1..(i - 1) : a[j] = s[j]
  BY <1>0, SubSeqProperties
<1>2. /\ b \in Seq(T) /\ Len(b) = i
      /\ \A j \in 1..i : b[j] = s[j]
  BY <1>0, SubSeqProperties
<1> HIDE DEF a, b
<1>3. /\ Append(a, s[i]) \in Seq(T) /\ Len(Append(a, s[i])) = i
      /\ Append(a, s[i])[i] = s[i] /\ \A j \in 1..(i - 1) : Append(a, s[i])[j] = a[j]
  BY <1>0, <1>1, AppendProperties
<1>4. \A j \in 1..i : Append(a, s[i])[j] = b[j]
  BY <1>1, <1>2, <1>3
<1>5. b = Append(a, s[i])
  BY <1>2, <1>3, <1>4, SeqEqual
<1>6. QED BY <1>1, <1>5 DEF a, b

\* The tables a replay of s from t goes through.
Run(t, s, g) ==
  /\ g[0] = t
  /\ \A i \in 1..Len(s) : g[i] = Apply(g[i - 1], s[i])

\* The recursive function inside FoldLeft.
Folds(t, s, f) ==
  f = [S \in SUBSET DOMAIN s |->
         IF S = {} THEN t ELSE Apply(f[S \ {Max(S)}], s[Max(S)])]

\* The greatest of the first k indices is k.
LEMMA MaxOfFirst ==
  ASSUME NEW k \in Nat, k # 0
  PROVE  Max(1..k) = k /\ (1..k) \ {k} = 1..(k - 1)
<1>1. \A x \in 1..k : (\A y \in 1..k : x >= y) => x = k
  OBVIOUS
<1>2. k \in 1..k /\ \A y \in 1..k : k >= y
  OBVIOUS
<1>3. Max(1..k) = k
  BY <1>1, <1>2 DEF Max
<1>4. QED BY <1>3

\* It exists: the least number of elements without one would have a predecessor.
LEMMA FoldExists ==
  ASSUME NEW t, NEW s, NEW n \in Nat, DOMAIN s = 1..n
  PROVE  \E f : Folds(t, s, f)
<1> DEFINE Part(k, f) ==
             f = [S \in SUBSET (1..k) |->
                    IF S = {} THEN t ELSE Apply(f[S \ {Max(S)}], s[Max(S)])]
           Without == {k \in Nat : ~ \E f : Part(k, f)}
<1>1. Part(0, [S \in SUBSET (1..0) |-> t])
  <2>1. SUBSET (1..0) = {{}}
    OBVIOUS
  <2>2. QED BY <2>1
<1>2. ASSUME NEW k \in Nat, NEW f, Part(k, f)
      PROVE  \E g : Part(k + 1, g)
  <2> DEFINE g == [S \in SUBSET (1..(k + 1)) |->
                     IF k + 1 \in S THEN Apply(f[S \ {k + 1}], s[k + 1]) ELSE f[S]]
  <2> HIDE DEF Part
  <2>0. \A S \in SUBSET (1..k) :
          f[S] = IF S = {} THEN t ELSE Apply(f[S \ {Max(S)}], s[Max(S)])
    BY <1>2 DEF Part
  <2>1. ASSUME NEW S \in SUBSET (1..(k + 1))
        PROVE  g[S] = IF S = {} THEN t ELSE Apply(g[S \ {Max(S)}], s[Max(S)])
    <3>1. CASE k + 1 \in S
      <4>1. Max(S) = k + 1
        <5>1. \A x \in S : (\A y \in S : x >= y) => x = k + 1
          BY <3>1
        <5>2. \A y \in S : k + 1 >= y
          OBVIOUS
        <5>3. QED BY <3>1, <5>1, <5>2 DEF Max
      <4>2. g[S \ {k + 1}] = f[S \ {k + 1}]
        OBVIOUS
      <4>3. g[S] = Apply(f[S \ {k + 1}], s[k + 1])
        BY <3>1
      <4> HIDE DEF g
      <4>4. QED BY <3>1, <4>1, <4>2, <4>3
    <3>2. CASE k + 1 \notin S
      <4>1. S \in SUBSET (1..k)
        BY <3>2
      <4>2. S \ {Max(S)} \in SUBSET (1..k) /\ k + 1 \notin S \ {Max(S)}
        BY <4>1, <3>2
      <4>3. g[S] = f[S] /\ g[S \ {Max(S)}] = f[S \ {Max(S)}]
        BY <4>1, <4>2, <3>2
      <4> HIDE DEF g
      <4>4. QED BY <4>1, <4>3, <2>0
    <3>3. QED BY <3>1, <3>2
  <2>2. g = [S \in SUBSET (1..(k + 1)) |-> g[S]]
    OBVIOUS
  <2> HIDE DEF g
  <2>3. g = [S \in SUBSET (1..(k + 1)) |->
               IF S = {} THEN t ELSE Apply(g[S \ {Max(S)}], s[Max(S)])]
    BY <2>1, <2>2
  <2>4. QED BY <2>3 DEF Part
<1> HIDE DEF Part
<1>3. Without = {}
  <2> SUFFICES ASSUME Without # {} PROVE FALSE
    OBVIOUS
  <2>1. PICK k \in Without : \A j \in Without : k <= j
    BY Least
  <2>2. k # 0
    BY <1>1
  <2>3. k - 1 \in Nat /\ k - 1 \notin Without
    BY <2>1, <2>2
  <2>4. PICK f : Part(k - 1, f)
    BY <2>3
  <2>5. \E g : Part(k - 1 + 1, g)
    BY <1>2, <2>3, <2>4
  <2>6. QED BY <2>5
<1>4. \E f : Part(n, f)
  BY <1>3
<1>5. QED BY <1>4 DEF Part, Folds

\* Replay is the value of that function for all indices, and so the last of a run.
LEMMA ReplayFolds ==
  ASSUME NEW t, NEW s
  PROVE  Replay(t, s) = (CHOOSE f : Folds(t, s, f))[DOMAIN s]
BY DEF Replay, FoldLeft, MapThenFoldSet, Folds

\* A replay runs through tables, one for each prefix.
LEMMA ReplayRuns ==
  ASSUME NEW t, NEW s, NEW n \in Nat, DOMAIN s = 1..n, Len(s) = n
  PROVE  \E g : Run(t, s, g) /\ g[n] = Replay(t, s)
<1>1. PICK f : f = (CHOOSE h : Folds(t, s, h)) /\ Folds(t, s, f)
  BY FoldExists
<1> DEFINE g == [i \in 0..n |-> f[1..i]]
<1>2. g[0] = t
  <2>1. 1..0 = {} /\ {} \in SUBSET DOMAIN s
    OBVIOUS
  <2>2. f[{}] = t
    BY <1>1, <2>1 DEF Folds
  <2>3. QED BY <2>1, <2>2
<1>3. ASSUME NEW i \in 1..n
      PROVE  g[i] = Apply(g[i - 1], s[i])
  <2>1. 1..i \in SUBSET DOMAIN s /\ 1..i # {}
    OBVIOUS
  <2>2. Max(1..i) = i /\ (1..i) \ {i} = 1..(i - 1)
    BY MaxOfFirst
  <2>3. f[1..i] = Apply(f[1..(i - 1)], s[i])
    BY <1>1, <2>1, <2>2 DEF Folds
  <2>4. g[i] = f[1..i] /\ g[i - 1] = f[1..(i - 1)]
    OBVIOUS
  <2>5. QED BY <2>3, <2>4
<1>4. g[n] = Replay(t, s)
  BY <1>1, ReplayFolds
<1> HIDE DEF g
<1>5. QED BY <1>2, <1>3, <1>4 DEF Run

\* There is one run: the first index at which two differ would follow equal tables.
LEMMA RunsAgree ==
  ASSUME NEW t, NEW s, NEW n \in Nat, Len(s) = n, NEW g, NEW h,
         Run(t, s, g), Run(t, s, h)
  PROVE  g[n] = h[n]
<1> DEFINE Differ == {i \in 0..n : g[i] # h[i]}
<1>1. Differ = {}
  <2> SUFFICES ASSUME Differ # {} PROVE FALSE
    OBVIOUS
  <2>1. Differ \in SUBSET Nat
    OBVIOUS
  <2>2. PICK i \in Differ : \A j \in Differ : i <= j
    BY <2>1, Least
  <2>3. i # 0
    BY <2>2 DEF Run
  <2>4. i \in 1..n /\ g[i - 1] = h[i - 1]
    BY <2>2, <2>3
  <2>5. g[i] = h[i]
    BY <2>4 DEF Run
  <2>6. QED BY <2>2, <2>5
<1>2. QED BY <1>1

\* The end of a run is the replay.
LEMMA ReplayIs ==
  ASSUME NEW t, NEW s, NEW n \in Nat, DOMAIN s = 1..n, Len(s) = n, NEW g, Run(t, s, g)
  PROVE  Replay(t, s) = g[n]
<1>1. PICK h : Run(t, s, h) /\ h[n] = Replay(t, s)
  BY ReplayRuns
<1>2. QED BY <1>1, RunsAgree

\* A replay of the requests a newly accepted client is sent gives the tables they
\* were made from: the duplicate check, run again on the way, lets every pair pass.
LEMMA SnapshotReplays ==
  ASSUME NEW t \in Tables, Paired(t), \A i \in 1..Len(t.rt) : t.rt[i].key # EmptyKey
  PROVE  Replay(EmptyTables, Snapshot(t)) = t
<1> DEFINE a == Len(t.rt)
           b == Len(t.mac)
           x == [i \in 1..a |-> WireRoute(t.rt[i])]
           y == [i \in 1..b |-> WireMac(t.mac[i])]
           s == Snapshot(t)
           g == [i \in 0..(a + b) |->
                   IF i <= a THEN [rt |-> SubSeq(t.rt, 1, i), mac |-> <<>>]
                             ELSE [rt |-> t.rt, mac |-> SubSeq(t.mac, 1, i - a)]]
<1>1. t.rt \in Seq(Routes) /\ t.mac \in Seq(Words) /\ a \in Nat /\ b \in Nat
  BY LenProperties DEF Tables
<1>2. /\ x \in Seq(Requests) /\ Len(x) = a /\ \A i \in 1..a : x[i] = WireRoute(t.rt[i])
      /\ y \in Seq(Requests) /\ Len(y) = b /\ \A i \in 1..b : y[i] = WireMac(t.mac[i])
  BY <1>1, RequestTypes, ElementOfSeq
<1>3. s = x \o y
  BY DEF Snapshot
<1> HIDE DEF x, y, s, a, b
<1>4. /\ s \in Seq(Requests) /\ Len(s) = a + b
      /\ \A i \in 1..(a + b) : s[i] = IF i <= a THEN x[i] ELSE y[i - a]
  <2>1. /\ x \o y \in Seq(Requests) /\ Len(x \o y) = Len(x) + Len(y)
        /\ \A i \in 1..(Len(x) + Len(y)) :
             (x \o y)[i] = IF i <= Len(x) THEN x[i] ELSE y[i - Len(x)]
    BY <1>2, ConcatProperties
  <2>2. QED BY <1>2, <1>3, <2>1
<1>5. DOMAIN s = 1..(a + b)
  BY <1>4, LenProperties
<1>6. g[0] = EmptyTables
  <2>1. SubSeq(t.rt, 1, 0) = <<>>
    BY <1>1, SubSeqProperties, EmptySeq
  <2>2. 0 \in 0..(a + b) /\ 0 <= a
    BY <1>1
  <2>3. QED BY <2>1, <2>2 DEF EmptyTables, flush_routing_table_info, flush_mac_info
<1>7. ASSUME NEW i \in 1..(a + b), i <= a
      PROVE  g[i] = Apply(g[i - 1], s[i])
  <2> DEFINE e == t.rt[i]
             h == SubSeq(t.rt, 1, i - 1)
  <2>0. i \in 1..a /\ e \in Routes /\ e.key # EmptyKey
    BY <1>1, <1>7, ElementOfSeq DEF a
  <2>1. /\ SubSeq(t.rt, 1, i) = Append(h, e) /\ Len(h) = i - 1
        /\ \A j \in 1..(i - 1) : h[j] = t.rt[j]
    BY <1>1, <2>0, Prefix DEF a
  <2>2. s[i] = RouteReq("CREATE", e)
    BY <1>2, <1>4, <1>7, <2>0 DEF WireRoute
  <2>3. g[i] = [rt |-> Append(h, e), mac |-> <<>>] /\ g[i - 1] = [rt |-> h, mac |-> <<>>]
    <3>1. i \in 0..(a + b) /\ i - 1 \in 0..(a + b) /\ i - 1 <= a
      BY <1>1, <1>7
    <3>2. QED BY <1>7, <2>1, <3>1
  <2>4. ~ HasKey(h, e.key, Len(h) - 1)
    <3> SUFFICES ASSUME NEW j \in 1..(i - 2), h[j].key = e.key PROVE FALSE
      BY <2>1 DEF HasKey
    <3>1. j \in 1..a /\ j < i /\ t.rt[j].key = t.rt[i].key
      <4>1. j \in 1..(i - 1) /\ j \in 1..a /\ j < i
        BY <1>1, <2>0
      <4>2. h[j] = t.rt[j]
        BY <2>1, <4>1
      <4>3. QED BY <4>1, <4>2
    <3>2. i = j + 1
      BY <2>0, <3>1 DEF Paired, PairedRoutes, a
    <3>3. QED BY <2>0, <3>2
  <2> HIDE DEF e, h, g
  <2>5. /\ s[i].op = "CREATE" /\ s[i].tbl = "RT" /\ s[i].route = e
        /\ g[i - 1].rt = h
    BY <2>2, <2>3 DEF RouteReq, Plain
  <2>6. Accepts(g[i - 1], s[i])
    BY <2>4, <2>5 DEF Accepts, check_condition
  <2>7. Change(g[i - 1], s[i]) = g[i]
    BY <2>3, <2>5 DEF Change, EditRoutes, add_last_entry_list
  <2>8. QED BY <2>5, <2>6, <2>7 DEF Apply, TableOps
<1>8. ASSUME NEW i \in 1..(a + b), ~ (i <= a)
      PROVE  g[i] = Apply(g[i - 1], s[i])
  <2> DEFINE k == i - a
             e == t.mac[k]
             h == SubSeq(t.mac, 1, k - 1)
  <2>0. k \in 1..b /\ e \in Words
    <3>1. k \in 1..b
      BY <1>1, <1>8
    <3> HIDE DEF k
    <3>2. QED BY <1>1, <3>1, ElementOfSeq DEF b
  <2>1. /\ SubSeq(t.mac, 1, k) = Append(h, e) /\ Len(h) = k - 1
        /\ \A j \in 1..(k - 1) : h[j] = t.mac[j]
    <3> HIDE DEF k
    <3>1. QED BY <1>1, <2>0, Prefix DEF b
  <2>2. s[i] = MacReq("CREATE", e)
    BY <1>2, <1>4, <1>8, <2>0 DEF WireMac
  <2>3. g[i] = [rt |-> t.rt, mac |-> Append(h, e)] /\ g[i - 1] = [rt |-> t.rt, mac |-> h]
    <3>1. g[i] = [rt |-> t.rt, mac |-> Append(h, e)]
      <4>1. i \in 0..(a + b)
        BY <1>1
      <4> HIDE DEF h, e
      <4>2. QED BY <1>8, <2>1, <4>1
    <3>2. CASE k = 1
      <4>1. SubSeq(t.rt, 1, a) = t.rt /\ h = <<>> /\ i - 1 = a
        <5>1. SubSeq(t.rt, 1, a) = t.rt
          BY <1>1, SubSeqFull DEF a
        <5>2. h = <<>>
          BY <1>1, <3>2, SubSeqProperties, EmptySeq
        <5>3. QED BY <1>1, <3>2, <5>1, <5>2
      <4>2. i - 1 \in 0..(a + b) /\ i - 1 <= a
        BY <1>1, <4>1
      <4> HIDE DEF h, e
      <4>3. QED BY <3>1, <4>1, <4>2
    <3>3. CASE k # 1
      <4>1. i - 1 \in 0..(a + b) /\ ~ (i - 1 <= a) /\ i - 1 - a = k - 1
        <5>1. k = i - a /\ k >= 1
          BY <1>1, <1>8
        <5> HIDE DEF k
        <5>2. QED BY <1>1, <1>8, <3>3, <5>1
      <4>2. QED BY <3>1, <4>1
    <3>4. QED BY <3>2, <3>3
  <2>4. ~ HasMac(h, e, Len(h) - 1)
    <3>0. k \in Int
      BY <1>1, <1>8
    <3> HIDE DEF k
    <3> SUFFICES ASSUME NEW j \in 1..(k - 2), h[j] = e PROVE FALSE
      BY <2>1, <3>0 DEF HasMac
    <3>1. j \in 1..b /\ j < k /\ t.mac[j] = t.mac[k]
      <4>0. j \in 1..(k - 1)
        BY <3>0
      <4>1. h[j] = t.mac[j] /\ h[j] = e
        BY <2>1, <4>0
      <4>2. QED BY <1>1, <2>0, <4>1
    <3>2. k = j + 1
      BY <2>0, <3>1 DEF Paired, PairedMacs, b
    <3>3. QED BY <2>0, <3>2
  <2> HIDE DEF e, h, g, k
  <2>5. /\ s[i].op = "CREATE" /\ s[i].tbl = "MAC" /\ s[i].mac = e
        /\ g[i - 1].mac = h
    BY <2>2, <2>3 DEF MacReq, Plain
  <2>6. Accepts(g[i - 1], s[i])
    BY <2>4, <2>5 DEF Accepts, check_condition_mac
  <2>7. Change(g[i - 1], s[i]) = g[i]
    <3>1. EditMacs(h, e, "CREATE") = Append(h, e)
      BY DEF EditMacs, add_last_entry_list_mac
    <3>2. Change(g[i - 1], s[i]) = [g[i - 1] EXCEPT !.mac = Append(h, e)]
      BY <2>5, <3>1 DEF Change
    <3>3. \A p, q, v : [[rt |-> p, mac |-> q] EXCEPT !.mac = v] = [rt |-> p, mac |-> v]
      OBVIOUS
    <3>4. [[rt |-> t.rt, mac |-> h] EXCEPT !.mac = Append(h, e)]
            = [rt |-> t.rt, mac |-> Append(h, e)]
      BY <3>3
    <3>5. QED BY <2>3, <3>2, <3>4, Zenon
  <2>8. QED BY <2>5, <2>6, <2>7 DEF Apply, TableOps
<1>9. g[a + b] = t
  <2>1. SubSeq(t.rt, 1, a) = t.rt /\ SubSeq(t.mac, 1, b) = t.mac
    BY <1>1, SubSeqFull DEF a, b
  <2>2. t = [rt |-> t.rt, mac |-> t.mac]
    BY DEF Tables
  <2>3. CASE b = 0
    <3>1. t.mac = <<>>
      BY <1>1, <2>3, EmptySeq DEF b
    <3>2. QED BY <1>1, <2>1, <2>2, <2>3, <3>1
  <2>4. CASE b # 0
    BY <1>1, <2>1, <2>2, <2>4
  <2>5. QED BY <2>3, <2>4
<1> HIDE DEF g
<1>10. Run(EmptyTables, s, g)
  BY <1>4, <1>6, <1>7, <1>8 DEF Run
<1>11. a + b \in Nat
  BY <1>1
<1>12. Replay(EmptyTables, s) = g[a + b]
  BY <1>4, <1>5, <1>10, <1>11, ReplayIs
<1>13. QED BY <1>9, <1>12 DEF s

-----------------------------------------------------------------------------
(* The parser.                                                             *)
\* An address as a field of 16 bytes holds it.
Addresses == {w \in IpWords : Attr[w].len <= 16}

\* What a line that passes the checks leaves in the fields.
GoodRoutes ==
  {e \in Routes : /\ e.key.dest \in Addresses
                  /\ e.key.mask.w \in MaskWords /\ ~e.key.mask.nl
                  /\ e.via.gateway \in Addresses /\ e.via.oif \in OifWords}

\* The lengths of the words and their parts.
LEMMA Lengths ==
  /\ Blank \in Words /\ Attr[Blank].len = 0
  /\ \A w \in Words : Attr[w].len \in Nat /\ (Attr[w].len = 0 <=> w = Blank)
<1>1. Blank \in Words /\ \A w \in Words : Attr[w].len \in 0..32 /\ (Attr[w].len = 0 <=> w = Blank)
  BY WordAssumption
<1>2. \A n \in 0..32 : n \in Nat
  OBVIOUS
<1>3. QED BY <1>1, <1>2

LEMMA Parts ==
  ASSUME NEW w \in Words
  PROVE  /\ Attr[w].head \in Words /\ Attr[w].rest \in Words
         /\ Attr[Attr[w].head].fields = Attr[w].fields
         /\ Attr[w].len \in Nat /\ Attr[Attr[w].head].len \in Nat
         /\ Attr[Attr[w].head].len <= 16 /\ Attr[Attr[w].rest].len <= 16
         /\ Attr[w].len <= 16 => Attr[w].head = w /\ Attr[w].rest = Blank
         /\ Attr[w].len > 16 => /\ Attr[Attr[w].head].len = 16
                                /\ Attr[Attr[w].rest].len = Attr[w].len - 16
<1>1. /\ Attr[w].head \in Words /\ Attr[w].rest \in Words
      /\ Attr[Attr[w].head].fields = Attr[w].fields
      /\ Attr[w].len <= 16 => Attr[w].head = w /\ Attr[w].rest = Blank
      /\ ~(Attr[w].len <= 16) => /\ Attr[Attr[w].head].len = 16
                                 /\ Attr[Attr[w].rest].len = Attr[w].len - 16
  BY PartAssumption
<1>2. Attr[w].len \in 0..32 /\ Attr[Attr[w].head].len \in Nat /\ Attr[Blank].len = 0
  BY <1>1, WordAssumption, Lengths
<1>3. CASE Attr[w].len <= 16
  BY <1>1, <1>2, <1>3
<1>4. CASE ~(Attr[w].len <= 16)
  BY <1>1, <1>2, <1>4
<1>5. QED BY <1>3, <1>4

\* The OIF that the copies leave: a word, and the one of the line unless the rest of
\* the gateway is longer.
LEMMA OIFOfIs ==
  ASSUME NEW r \in Words, Attr[r].len <= 16, NEW o \in Words
  PROVE  /\ OIFOf(r, o) \in Words
         /\ Attr[r].len <= Attr[o].len => OIFOf(r, o) = o
         /\ Attr[r].len > Attr[o].len => Attr[OIFOf(r, o)].len = Attr[r].len
<1>1. Attr[r].len \in Nat /\ Attr[o].len \in Nat
  BY Lengths
<1>2. CASE Attr[r].len <= Attr[o].len
  BY <1>1, <1>2 DEF OIFOf
<1>3. CASE ~(Attr[r].len <= Attr[o].len)
  <2>1. OIFOf(r, o) = Overlay(r, o)
    BY <1>3 DEF OIFOf
  <2>2. Attr[o].len < Attr[r].len
    BY <1>1, <1>3
  <2>3. Overlay(r, o) \in Words /\ Attr[Overlay(r, o)].len = Attr[r].len
    BY <2>2, PartAssumption
  <2>4. QED BY <1>3, <2>1, <2>3
<1>4. QED BY <1>2, <1>3

\* A field prints as itself, or full as a word it begins.
LEMMA PrintedIs ==
  ASSUME NEW w \in Words, Attr[w].len <= 16, NEW b \in Words, Attr[b].len <= 16
  PROVE  /\ Printed(w, b) \in Words /\ Attr[Printed(w, b)].head = w
         /\ Attr[Printed(w, b)].fields = Attr[w].fields
         /\ Attr[w].len # 16 => Printed(w, b) = w /\ Attr[Printed(w, b)].rest = Blank
         /\ Attr[w].len = 16 => /\ Attr[Printed(w, b)].rest = b
                                /\ Attr[Printed(w, b)].len = 16 + Attr[b].len
<1> DEFINE v == Printed(w, b)
<1>1. Attr[w].len \in Nat /\ Attr[b].len \in Nat /\ Attr[Blank].len = 0
  BY Lengths
<1>2. CASE Attr[w].len # 16
  <2>1. v = w
    BY <1>1, <1>2 DEF Printed
  <2>2. QED BY <1>2, <2>1, Parts
<1>3. CASE Attr[w].len = 16
  <2>1. v = CHOOSE x \in Words : Attr[x].head = w /\ Attr[x].rest = b
    BY <1>3 DEF Printed
  <2>2. \E x \in Words : Attr[x].head = w /\ Attr[x].rest = b
    BY <1>3, PartAssumption
  <2>3. v \in Words /\ Attr[v].head = w /\ Attr[v].rest = b
    BY <2>1, <2>2
  <2> HIDE DEF v
  <2>4. Attr[v].len = 16 + Attr[b].len
    BY <1>1, <1>3, <2>3, Parts
  <2>5. Attr[v].fields = Attr[w].fields
    BY <2>3, Parts
  <2>6. QED BY <1>3, <2>3, <2>4, <2>5 DEF v
<1>4. QED BY <1>2, <1>3

LEMMA ArgsOf ==
  ASSUME NEW line \in Seq(Token), line # <<>>
  PROVE  /\ Len(line) \in Nat /\ Len(line) >= 1
         /\ Tail(line) \in Seq(Token) /\ Len(Tail(line)) = Len(line) - 1
         /\ \A i \in 1..(Len(line) - 1) : Tail(line)[i] = line[i + 1] /\ line[i + 1] \in Token
<1>1. Len(line) \in Nat /\ Len(line) # 0
  BY LenProperties, EmptySeq
<1>2. /\ Tail(line) \in Seq(Token) /\ Len(Tail(line)) = Len(line) - 1
      /\ \A i \in 1..(Len(line) - 1) : Tail(line)[i] = line[i + 1]
  BY HeadTailProperties
<1>3. \A i \in 1..(Len(line) - 1) : line[i + 1] \in Token
  BY <1>1, ElementOfSeq
<1>4. QED BY <1>1, <1>2, <1>3

\* The route is the one the line spells, as far as the fields hold it.
Spelled(line, e) ==
  /\ e.key = NamedKey(line)
  /\ e.via.gateway = Attr[line[4].w].head
  /\ \/ e.via.oif = line[5].w
     \/ Attr[line[4].w].len > 16 + Attr[line[5].w].len

\* case 'C' and case 'U': the newline makes the fourth argument the last one.
LEMMA RouteLineSpells ==
  ASSUME NEW line \in SplitLines, line # <<>>, NEW op \in {"CREATE", "UPDATE"}, NEW stack,
         RouteLine(op, Tail(line), stack) # Invalid
  PROVE  \E e \in GoodRoutes :
           /\ RouteLine(op, Tail(line), stack) = RouteReq(op, e)
           /\ Len(line) = 5
           /\ line[2].w \in IpWords /\ line[3].w \in MaskWords
           /\ line[4].w \in IpWords /\ line[5].w \in OifWords
           /\ Spelled(line, e)
<1> DEFINE args == Tail(line)
           e == [key |-> KeyOf(args), via |-> ViaOf(args)]
<1>1. line \in Seq(Token) /\ \A i \in 1..Len(line) : /\ line[i].nl => i = Len(line)
                                                     /\ line[i].w = Blank => line[i].nl
  BY DEF SplitLines
<1>2. /\ Len(line) \in Nat /\ Len(args) = Len(line) - 1
      /\ \A i \in 1..(Len(line) - 1) : args[i] = line[i + 1] /\ line[i + 1] \in Token
  BY <1>1, ArgsOf
<1> HIDE DEF args
<1>3. /\ RouteLine(op, args, stack) = RouteReq(op, e)
      /\ Len(args) >= 4 /\ strlen(args[2]) <= 2 /\ args[4].nl
      /\ check_desIP_valid(args[1], stack) /\ check_mask_valid(args[2], stack)
      /\ check_gateway_valid(args[3], stack) /\ check_OIF_valid(ViaOf(args).oif)
  BY DEF RouteLine, args
<1>4. /\ args[1] = line[2] /\ args[2] = line[3] /\ args[3] = line[4] /\ args[4] = line[5]
      /\ line[2] \in Token /\ line[3] \in Token /\ line[4] \in Token /\ line[5] \in Token
  BY <1>2, <1>3
<1>5. Len(line) = 5
  <2>1. line[5].nl
    BY <1>3, <1>4
  <2>2. 5 \in 1..Len(line)
    BY <1>2, <1>3
  <2>3. ASSUME NEW n \in 1..Len(line), n = 5 PROVE n = Len(line)
    <3>1. line[n].nl
      BY <2>1, <2>3
    <3>2. QED BY <1>1, <2>3, <3>1
  <2>4. QED BY <2>2, <2>3
<1>6. ~line[3].nl /\ line[3].w # Blank
  <2>1. 3 \in 1..Len(line) /\ 3 # Len(line)
    BY <1>5
  <2>2. ASSUME NEW n \in 1..Len(line), n = 3 PROVE ~line[n].nl /\ line[n].w # Blank
    <3>1. n # Len(line)
      BY <2>1, <2>2
    <3>2. QED BY <1>1, <2>2, <3>1
  <2>3. QED BY <2>1, <2>2
<1>7. /\ line[2].w \in Words /\ line[3].w \in Words /\ line[4].w \in Words /\ line[5].w \in Words
      /\ line[3] = [w |-> line[3].w, nl |-> FALSE]
  BY <1>4, <1>6 DEF Token
<1>8. /\ line[2].w \in IpWords /\ line[4].w \in IpWords
  BY <1>3, <1>4, <1>7 DEF check_desIP_valid, check_gateway_valid, IpWords
<1>9. line[3].w \in MaskWords
  <2>1. Attr[line[3].w].len <= 2 /\ Attr[line[3].w].atoi \in 0..32
    <3>1. strlen(line[3]) = Attr[line[3].w].len + 0 /\ Attr[line[3].w].len \in Nat
      BY <1>6, <1>7, Lengths, Zenon DEF strlen
    <3>2. strlen(line[3]) <= 2 /\ check_mask_valid(line[3], stack)
      BY <1>3, <1>4
    <3>3. QED BY <3>1, <3>2 DEF check_mask_valid
  <2>2. Attr[line[3].w].len \in Nat /\ Attr[line[3].w].len # 0
    BY <1>6, <1>7, Lengths
  <2>3. Attr[line[3].w].len \in 1..2
    BY <2>1, <2>2
  <2>4. QED BY <1>7, <2>1, <2>3 DEF MaskWords
<1> DEFINE r == Attr[line[4].w].rest
           o == line[5].w
<1>10. /\ r \in Words /\ o \in Words /\ Attr[r].len <= 16
       /\ Attr[r].len \in Nat /\ Attr[o].len \in Nat
       /\ OIFOf(r, o) \in Words /\ Attr[OIFOf(r, o)].len \in Nat
       /\ Attr[OIFOf(r, o)].len <= 16
       /\ Attr[r].len <= Attr[o].len => OIFOf(r, o) = o
       /\ Attr[r].len > Attr[o].len => Attr[OIFOf(r, o)].len = Attr[r].len
  <2>1. r \in Words /\ o \in Words /\ Attr[r].len <= 16
    BY <1>7, Parts
  <2>2. ViaOf(args).oif = OIFOf(r, o)
    BY <1>4 DEF ViaOf
  <2> HIDE DEF r, o
  <2>3. check_OIF_valid(OIFOf(r, o))
    BY <1>3, <2>2
  <2>4. QED BY <2>1, <2>3, OIFOfIs, Lengths DEF check_OIF_valid
<1>11. o \in OifWords /\ OIFOf(r, o) \in OifWords
  <2> HIDE DEF r, o
  <2>1. \A n \in Nat : n <= 16 => n \in 0..16
    OBVIOUS
  <2>2. Attr[o].len <= 16
    BY <1>10
  <2>3. QED BY <1>10, <2>1, <2>2 DEF OifWords
<1>12. Spelled(line, e)
  <2>1. e.key = NamedKey(line)
    BY <1>4, <1>7 DEF KeyOf, NamedKey
  <2>2. e.via.gateway = Attr[line[4].w].head /\ e.via.oif = OIFOf(r, o)
    BY <1>4 DEF ViaOf
  <2>3. OIFOf(r, o) = o \/ Attr[line[4].w].len > 16 + Attr[o].len
    <3>1. CASE Attr[line[4].w].len <= 16
      <4>1. r = Blank
        BY <1>7, <3>1, Parts
      <4> HIDE DEF r, o
      <4>2. Attr[r].len = 0
        BY <4>1, Lengths
      <4>3. QED BY <1>10, <4>2
    <3>2. CASE Attr[line[4].w].len > 16
      <4>1. Attr[r].len = Attr[line[4].w].len - 16 /\ Attr[line[4].w].len \in Nat
        BY <1>7, <3>2, Parts
      <4> HIDE DEF r, o
      <4>2. QED BY <1>10, <4>1
    <3>3. Attr[line[4].w].len \in Nat
      BY <1>7, Lengths
    <3>4. QED BY <3>1, <3>2, <3>3
  <2> HIDE DEF e
  <2>4. QED BY <2>1, <2>2, <2>3 DEF Spelled
<1>13. e \in GoodRoutes
  <2>1. /\ e.key = [dest |-> Attr[line[2].w].head, mask |-> [w |-> line[3].w, nl |-> FALSE]]
        /\ e.via = [gateway |-> Attr[line[4].w].head, oif |-> OIFOf(r, o)]
        /\ e = [key |-> e.key, via |-> e.via]
    BY <1>4, <1>7 DEF KeyOf, ViaOf
  <2>2. \A w \in IpWords : Attr[w].head \in Addresses
    <3>1. \A w \in IpWords : w \in Words /\ Attr[w].fields = 4
      BY DEF IpWords
    <3>2. QED BY <3>1, Parts DEF IpWords, Addresses
  <2>3. /\ Attr[line[2].w].head \in Addresses /\ Attr[line[4].w].head \in Addresses
        /\ [w |-> line[3].w, nl |-> FALSE] \in Token
    BY <1>7, <1>8, <2>2 DEF Token
  <2> HIDE DEF e, r, o
  <2>4. \A w \in Addresses : w \in Words
    BY DEF Addresses, IpWords
  <2>5. e.key \in LineKeys /\ e.via \in LineVias
    BY <1>10, <2>1, <2>3, <2>4 DEF LineKeys, LineVias
  <2>6. e \in Routes
    BY <2>1, <2>5 DEF Routes
  <2>7. QED BY <1>9, <1>11, <2>1, <2>3, <2>6 DEF GoodRoutes
<1> HIDE DEF e
<1>14. QED BY <1>3, <1>5, <1>8, <1>9, <1>11, <1>12, <1>13 DEF args

\* The requests that can come of a line.
Parsed(line, req) ==
  /\ req \in Requests
  /\ req.tbl = "MAC" => req.op \in TableOps /\ req.mac \in MacWords
  /\ req.tbl = "RT" /\ req.op \in {"CREATE", "UPDATE"} =>
       \/ line = <<>> /\ req = EmptyCreate
       \/ /\ req.route \in GoodRoutes
          /\ Len(line) = 5
          /\ line[2].w \in IpWords /\ line[3].w \in MaskWords
          /\ line[4].w \in IpWords /\ line[5].w \in OifWords
          /\ Spelled(line, req.route)

LEMMA InvalidParsed ==
  ASSUME NEW line PROVE Parsed(line, Invalid)
BY RequestTypes DEF Parsed, Invalid, Plain

LEMMA MacParsed ==
  ASSUME NEW line, NEW op \in TableOps, NEW args \in Seq(Token), NEW stack,
         stack.copy_buffer \in Token
  PROVE  Parsed(line, MacLine(op, args, stack))
<1> DEFINE t == IF args = <<>> THEN stack.copy_buffer ELSE args[1]
<1>1. t \in Token
  <2>1. args # <<>> => args[1] \in Token
    <3>1. args # <<>> => Len(args) \in Nat /\ Len(args) # 0
      BY LenProperties, EmptySeq
    <3>2. QED BY <3>1, ElementOfSeq
  <2>2. QED BY <2>1
<1>2. CASE check_format_MAC_address(t)
  <2>1. t.w \in MacWords /\ t.w \in Words
    BY <1>1, <1>2 DEF check_format_MAC_address, MacWords, Token
  <2>2. MacLine(op, args, stack) = MacReq(op, t.w)
    BY <1>2 DEF MacLine
  <2> HIDE DEF t
  <2>3. /\ MacReq(op, t.w).op = op /\ MacReq(op, t.w).tbl = "MAC" /\ MacReq(op, t.w).mac = t.w
        /\ MacReq(op, t.w) \in Requests
    BY <2>1, RequestTypes DEF MacReq, Plain
  <2>4. QED BY <2>1, <2>2, <2>3 DEF Parsed
<1>3. CASE ~check_format_MAC_address(t)
  BY <1>3, InvalidParsed DEF MacLine
<1>4. QED BY <1>2, <1>3

LEMMA LineParsed ==
  ASSUME NEW line \in SplitLines, NEW stack, stack.copy_buffer \in Token
  PROVE  Parsed(line, check_format_input_string(line, stack))
<1> DEFINE letter == Attr[line[1].w].letter
           args == Tail(line)
           req == check_format_input_string(line, stack)
<1>1. CASE line = <<>>
  <2>1. req = EmptyCreate
    BY <1>1 DEF check_format_input_string
  <2>2. QED BY <1>1, <2>1, RequestTypes DEF Parsed, EmptyCreate, RouteReq, Plain
<1>2. CASE line # <<>>
  <2>1. args \in Seq(Token) /\ line \in Seq(Token) /\ Len(line) \in Nat
        /\ Len(args) = Len(line) - 1
        /\ \A i \in 1..(Len(line) - 1) : args[i] \in Token
    BY <1>2, ArgsOf DEF SplitLines
  <2>2. ASSUME NEW op \in {"CREATE", "UPDATE"}
        PROVE  Parsed(line, RouteLine(op, args, stack))
    <3>1. CASE RouteLine(op, args, stack) = Invalid
      BY <3>1, InvalidParsed
    <3>2. CASE RouteLine(op, args, stack) # Invalid
      <4>1. PICK e \in GoodRoutes :
              /\ RouteLine(op, args, stack) = RouteReq(op, e)
              /\ Len(line) = 5
              /\ line[2].w \in IpWords /\ line[3].w \in MaskWords
              /\ line[4].w \in IpWords /\ line[5].w \in OifWords
              /\ Spelled(line, e)
        BY <1>2, <3>2, RouteLineSpells
      <4>2. /\ RouteReq(op, e).tbl = "RT" /\ RouteReq(op, e).route = e
            /\ RouteReq(op, e) \in Requests
        BY RequestTypes DEF RouteReq, Plain, GoodRoutes, TableOps
      <4>3. QED BY <4>1, <4>2 DEF Parsed
    <3>3. QED BY <3>1, <3>2
  <2>3. ASSUME NEW op \in TableOps PROVE Parsed(line, MacLine(op, args, stack))
    BY <2>1, MacParsed
  <2>4. Parsed(line, DeleteLine(args, stack))
    <3>1. CASE Len(args) = 2
      <4> DEFINE e == [key |-> KeyOf(args), via |-> EmptyVia]
      <4>1. args[1] \in Token /\ args[2] \in Token
        <5> HIDE DEF args
        <5>1. 1 \in 1..(Len(line) - 1) /\ 2 \in 1..(Len(line) - 1)
          BY <2>1, <3>1
        <5>2. QED BY <2>1, <5>1, Zenon
      <4>2. e \in Routes
        <5>1. args[1].w \in Words
          BY <4>1 DEF Token
        <5>2. Attr[args[1].w].head \in Words
          BY <5>1, Parts
        <5>3. QED BY <4>1, <5>2, Vocabulary DEF KeyOf, Routes, LineKeys
      <4> HIDE DEF e
      <4>3. /\ RouteReq("DELETE", e).tbl = "RT" /\ RouteReq("DELETE", e).op = "DELETE"
            /\ RouteReq("DELETE", e) \in Requests
        BY <4>2, RequestTypes DEF RouteReq, Plain, TableOps
      <4>4. Parsed(line, RouteReq("DELETE", e))
        BY <4>3 DEF Parsed
      <4>5. QED BY <4>4, InvalidParsed DEF DeleteLine, e
    <3>2. CASE Len(args) # 2
      BY <3>2, InvalidParsed DEF DeleteLine
    <3>3. QED BY <3>1, <3>2
  <2>5. ASSUME NEW op \in {"SHOW", "FLUSH", "QUIT"} PROVE Parsed(line, Plain(op))
    BY RequestTypes DEF Parsed, Plain, FUNCTION
  <2>6. req = CASE letter \in {"C", "U"} ->
                     LET op == IF letter = "C" THEN "CREATE" ELSE "UPDATE"
                     IN  IF Len(args) <= 1 THEN MacLine(op, args, stack)
                                           ELSE RouteLine(op, args, stack)
                [] letter = "D" ->
                     IF Len(args) <= 1 THEN MacLine("DELETE", args, stack)
                                       ELSE DeleteLine(args, stack)
                [] letter = "S" -> Plain("SHOW")
                [] letter = "F" -> Plain("FLUSH")
                [] letter = "Q" -> Plain("QUIT")
                [] OTHER        -> Invalid
    BY <1>2 DEF check_format_input_string
  <2> HIDE DEF letter, args, req
  <2>7. Parsed(line, req)
    <3>1. CASE letter \in {"C", "U"}
      BY <3>1, <2>2, <2>3, <2>6 DEF TableOps
    <3>2. CASE letter = "D"
      BY <3>2, <2>3, <2>4, <2>6 DEF TableOps
    <3>3. CASE letter \notin {"C", "U", "D"}
      BY <3>3, <2>5, <2>6, InvalidParsed
    <3>4. QED BY <3>1, <3>2, <3>3
  <2>8. QED BY <2>7 DEF req
<1>3. QED BY <1>1, <1>2

-----------------------------------------------------------------------------
(* The texts a new client is sent, and what it makes of them.              *)
Plainly(w) == [w |-> w, nl |-> FALSE]

\* The words of an entry have characters.
LEMMA Letters ==
  /\ "C" # Blank
  /\ \A w \in Addresses : /\ w \in Words /\ w # Blank
                          /\ Attr[w].fields = 4 /\ Attr[w].len <= 16
  /\ \A w \in MaskWords : /\ w \in Words /\ w # Blank
                          /\ Attr[w].len \in 1..2 /\ Attr[w].atoi \in 0..32
  /\ \A w \in OifWords : w \in Words /\ Attr[w].len <= 16
  /\ \A w \in MacWords : w \in Words /\ w # Blank /\ Attr[w].mac
<1>1. \A w \in Addresses : /\ w \in Words /\ w # Blank
                         /\ Attr[w].fields = 4 /\ Attr[w].len <= 16
  <2>1. Attr[Blank].fields = 0 /\ 0 # 4
    BY WordAssumption
  <2>2. QED BY <2>1 DEF IpWords, Addresses
<1>2. \A w \in MaskWords : /\ w \in Words /\ w # Blank
                           /\ Attr[w].len \in 1..2 /\ Attr[w].atoi \in 0..32
  <2>1. Attr[Blank].len = 0 /\ 0 \notin 1..2
    BY WordAssumption
  <2>2. QED BY <2>1 DEF MaskWords
<1>3. \A w \in OifWords : w \in Words /\ Attr[w].len <= 16
  BY DEF OifWords
<1>4. \A w \in MacWords : w \in Words /\ w # Blank /\ Attr[w].mac
  BY WordAssumption DEF MacWords
<1>5. QED BY <1>1, <1>2, <1>3, <1>4, WordAssumption

LEMMA NotEmpty == ASSUME NEW s, NEW n, Len(s) = n, n # 0 PROVE s # <<>>
<1>1. Len(<<>>) = 0
  OBVIOUS
<1>2. QED BY <1>1, Zenon

LEMMA OneMore ==
  ASSUME NEW T, NEW s \in Seq(T), NEW x \in T, NEW n \in Nat, Len(s) = n,
         NEW k, k = n + 1, NEW z, z = <<x>>, NEW r, r = s \o z
  PROVE  /\ r \in Seq(T) /\ Len(r) = k
         /\ r[k] = x /\ \A i \in 1..n : r[i] = s[i]
<1>1. r = Append(s, x)
  BY AppendIsConcat
<1>2. QED BY <1>1, AppendProperties

\* Five tokens, and two.
LEMMA FiveTokens ==
  ASSUME NEW T, NEW a \in T, NEW b \in T, NEW c \in T, NEW d \in T, NEW e \in T,
         NEW s, s = <<a>> \o <<b>> \o <<c>> \o <<d>> \o <<e>>
  PROVE  /\ s \in Seq(T) /\ Len(s) = 5
         /\ s[1] = a /\ s[2] = b /\ s[3] = c /\ s[4] = d /\ s[5] = e
<1>1. PICK p, y2, y3, y4, y5 : p = <<a>> /\ y2 = <<b>> /\ y3 = <<c>> /\ y4 = <<d>> /\ y5 = <<e>>
  OBVIOUS
<1>2. PICK q : q = p \o y2
  OBVIOUS
<1>3. PICK r : r = q \o y3
  OBVIOUS
<1>4. PICK t : t = r \o y4
  OBVIOUS
<1>5. s = t \o y5
  BY <1>1, <1>2, <1>3, <1>4, Zenon
<1>6. PICK k \in Nat, l \in Nat, m \in Nat, n \in Nat, o \in Nat :
        k = 1 /\ l = 2 /\ m = 3 /\ n = 4 /\ o = 5
  OBVIOUS
<1>7. l = k + 1 /\ m = l + 1 /\ n = m + 1 /\ o = n + 1
  BY ONLY <1>6
<1>8. p \in Seq(T) /\ Len(p) = k /\ p[k] = a
  BY <1>1, <1>6
<1>9. q \in Seq(T) /\ Len(q) = l /\ q[l] = b /\ \A i \in 1..k : q[i] = p[i]
  <2>1. p \in Seq(T) /\ Len(p) = k /\ l = k + 1 /\ y2 = <<b>>
    BY <1>1, <1>7, <1>8, Zenon
  <2>2. QED BY ONLY <1>2, <2>1, OneMore, b \in T, k \in Nat
<1>10. r \in Seq(T) /\ Len(r) = m /\ r[m] = c /\ \A i \in 1..l : r[i] = q[i]
  <2>1. q \in Seq(T) /\ Len(q) = l /\ m = l + 1 /\ y3 = <<c>>
    BY <1>1, <1>7, <1>9, Zenon
  <2>2. QED BY ONLY <1>3, <2>1, OneMore, c \in T, l \in Nat
<1>11. t \in Seq(T) /\ Len(t) = n /\ t[n] = d /\ \A i \in 1..m : t[i] = r[i]
  <2>1. r \in Seq(T) /\ Len(r) = m /\ n = m + 1 /\ y4 = <<d>>
    BY <1>1, <1>7, <1>10, Zenon
  <2>2. QED BY ONLY <1>4, <2>1, OneMore, d \in T, m \in Nat
<1>12. s \in Seq(T) /\ Len(s) = o /\ s[o] = e /\ \A i \in 1..n : s[i] = t[i]
  <2>1. t \in Seq(T) /\ Len(t) = n /\ o = n + 1 /\ y5 = <<e>>
    BY <1>1, <1>7, <1>11, Zenon
  <2>2. QED BY ONLY <1>5, <2>1, OneMore, e \in T, n \in Nat
<1>13. s[4] = t[4] /\ s[3] = r[3] /\ s[2] = q[2] /\ s[1] = p[1]
  BY ONLY <1>6, <1>9, <1>10, <1>11, <1>12
<1>14. QED BY ONLY <1>6, <1>8, <1>9, <1>10, <1>11, <1>12, <1>13

LEMMA TwoTokens ==
  ASSUME NEW T, NEW a \in T, NEW b \in T, NEW s, s = <<a>> \o <<b>>
  PROVE  s \in Seq(T) /\ Len(s) = 2 /\ s[1] = a /\ s[2] = b
<1>1. PICK p, y2 : p = <<a>> /\ y2 = <<b>>
  OBVIOUS
<1>2. s = p \o y2 /\ y2 = <<b>>
  BY <1>1, Zenon
<1>3. PICK k \in Nat, l \in Nat : k = 1 /\ l = 2 /\ l = k + 1
  OBVIOUS
<1>4. p \in Seq(T) /\ Len(p) = k /\ p[k] = a
  BY <1>1, <1>3
<1>5. s \in Seq(T) /\ Len(s) = l /\ s[l] = b /\ \A i \in 1..k : s[i] = p[i]
  <2>1. p \in Seq(T) /\ Len(p) = k /\ l = k + 1 /\ y2 = <<b>> /\ s = p \o y2
    BY <1>2, <1>3, <1>4, Zenon
  <2>2. QED BY ONLY <2>1, OneMore, b \in T, k \in Nat
<1>6. QED BY ONLY <1>3, <1>4, <1>5

\* A line that begins with "C" is about a MAC address or about a route, by its length.
LEMMA CreateLine ==
  ASSUME NEW stack, NEW line \in Seq(Token), line # <<>>, line[1] = Plainly("C")
  PROVE  check_format_input_string(line, stack) =
              IF Len(Tail(line)) <= 1 THEN MacLine("CREATE", Tail(line), stack)
                                      ELSE RouteLine("CREATE", Tail(line), stack)
<1>1. Attr[line[1].w].letter = "C"
  BY WordAssumption DEF Plainly
<1>2. QED BY <1>1 DEF check_format_input_string

LEMMA CreateRouteLine ==
  ASSUME NEW stack, NEW line \in Seq(Token), Len(line) = 5, line[1] = Plainly("C")
  PROVE  \E args : /\ check_format_input_string(line, stack) = RouteLine("CREATE", args, stack)
                   /\ Len(args) = 4
                   /\ args[1] = line[2] /\ args[2] = line[3]
                   /\ args[3] = line[4] /\ args[4] = line[5]
<1> DEFINE args == Tail(line)
<1>1. line # <<>>
  BY NotEmpty, 5 # 0
<1>2. /\ Len(args) = Len(line) - 1
      /\ \A i \in 1..(Len(line) - 1) : args[i] = line[i + 1]
  BY <1>1, ArgsOf
<1>3. check_format_input_string(line, stack) =
        IF Len(args) <= 1 THEN MacLine("CREATE", args, stack)
                          ELSE RouteLine("CREATE", args, stack)
  BY <1>1, CreateLine
<1> HIDE DEF args
<1>4. /\ Len(args) = 4
      /\ args[1] = line[2] /\ args[2] = line[3] /\ args[3] = line[4] /\ args[4] = line[5]
  BY <1>2
<1>5. QED BY <1>3, <1>4

LEMMA CreateMacLine ==
  ASSUME NEW stack, NEW line \in Seq(Token), Len(line) = 2, line[1] = Plainly("C")
  PROVE  check_format_input_string(line, stack) =
           IF check_format_MAC_address(line[2]) THEN MacReq("CREATE", line[2].w) ELSE Invalid
<1> DEFINE args == Tail(line)
<1>1. line # <<>>
  BY NotEmpty, 2 # 0
<1>2. /\ args \in Seq(Token) /\ Len(args) = Len(line) - 1
      /\ \A i \in 1..(Len(line) - 1) : args[i] = line[i + 1]
  BY <1>1, ArgsOf
<1>3. check_format_input_string(line, stack) =
        IF Len(args) <= 1 THEN MacLine("CREATE", args, stack)
                          ELSE RouteLine("CREATE", args, stack)
  BY <1>1, CreateLine
<1> HIDE DEF args
<1>4. Len(args) = 1 /\ args[1] = line[2]
  BY <1>2
<1>5. args # <<>>
  BY <1>4, NotEmpty, 1 # 0
<1>6. QED BY <1>3, <1>4, <1>5 DEF MacLine

\* A stored route goes out as five tokens, and comes back unless the client finds
\* something behind a full field or behind the mask.
LEMMA RouteTextParses ==
  ASSUME NEW e \in GoodRoutes, NEW stack, NEW behind \in Behinds
  PROVE  check_format_input_string(RouteText(e, behind), stack)
           = IF Survives(e, stack, behind) THEN RouteReq("CREATE", e) ELSE Invalid
<1> DEFINE d == e.key.dest
           m == e.key.mask
           g == e.via.gateway
           o == e.via.oif
           pd == Printed(d, m.w)
           pg == Printed(g, o)
           po == Printed(o, behind)
           end == [w |-> po, nl |-> TRUE]
           line == RouteText(e, behind)
<1>1. /\ e \in Routes /\ d \in Addresses /\ m.w \in MaskWords /\ ~m.nl
      /\ g \in Addresses /\ o \in OifWords
  BY DEF GoodRoutes
<1>2. /\ e = [key |-> [dest |-> d, mask |-> m], via |-> [gateway |-> g, oif |-> o]]
      /\ m = Plainly(m.w)
  BY <1>1 DEF Routes, LineKeys, LineVias, Token, Plainly
<1>3. /\ d \in Words /\ Attr[d].len <= 16 /\ Attr[d].fields = 4 /\ d # Blank
      /\ g \in Words /\ Attr[g].len <= 16 /\ Attr[g].fields = 4 /\ g # Blank
      /\ o \in Words /\ Attr[o].len <= 16
      /\ behind \in Words /\ Attr[behind].len <= 16
  BY <1>1, Letters, LineAssumption
<1>4. /\ m.w \in Words /\ m.w # Blank /\ Attr[m.w].atoi \in 0..32
      /\ Attr[m.w].len \in Nat /\ Attr[m.w].len <= 2
  <2>1. Attr[m.w].len \in 1..2
    BY <1>1, Letters
  <2>2. QED BY <1>1, <2>1, Letters
<1>5. /\ Attr[d].len \in Nat /\ Attr[g].len \in Nat /\ Attr[o].len \in Nat
      /\ Attr[behind].len \in Nat /\ (Attr[behind].len = 0 <=> behind = Blank)
      /\ Attr[d].len # 0 /\ Attr[g].len # 0
      /\ Attr[Blank].len = 0 /\ Blank \in Words
  BY <1>3, Lengths
<1>6. /\ pd \in Words /\ Attr[pd].head = d /\ Attr[pd].fields = 4
      /\ (Attr[pd].len < 16 <=> Attr[d].len # 16) /\ pd # Blank
  <2> HIDE DEF d, m
  <2>1. /\ pd \in Words /\ Attr[pd].head = d /\ Attr[pd].fields = Attr[d].fields
        /\ Attr[d].len # 16 => pd = d
        /\ Attr[d].len = 16 => Attr[pd].len = 16 + Attr[m.w].len
    BY <1>3, <1>4, PrintedIs
  <2> HIDE DEF pd
  <2>2. CASE Attr[d].len = 16
    BY <1>3, <1>4, <1>5, <2>1, <2>2
  <2>3. CASE Attr[d].len # 16
    BY <1>3, <1>5, <2>1, <2>3
  <2>4. QED BY <2>2, <2>3
<1>7. /\ po \in Words /\ Attr[po].len \in Nat /\ Attr[po].len >= Attr[o].len
      /\ Attr[po].len <= 16 <=> (Attr[o].len = 16 => behind = Blank)
      /\ (Attr[o].len = 16 => behind = Blank) => po = o
  <2> HIDE DEF o
  <2>1. /\ po \in Words /\ Attr[po].head = o
        /\ Attr[o].len # 16 => po = o
        /\ Attr[o].len = 16 => Attr[po].len = 16 + Attr[behind].len
    BY <1>3, PrintedIs
  <2>2. Attr[po].len <= 16 => Attr[po].head = po
    BY <2>1, Parts
  <2> HIDE DEF po
  <2>3. CASE Attr[o].len = 16 /\ behind = Blank
    <3>1. Attr[po].len = 16
      BY <1>5, <2>1, <2>3
    <3>2. po = o
      BY <2>1, <2>2, <3>1
    <3>3. QED BY <2>1, <2>3, <3>1, <3>2
  <2>4. CASE Attr[o].len = 16 /\ behind # Blank
    BY <1>5, <2>1, <2>4
  <2>5. CASE Attr[o].len # 16
    BY <1>3, <1>5, <2>1, <2>5
  <2>6. QED BY <2>3, <2>4, <2>5
<1>8. /\ pg \in Words /\ Attr[pg].head = g /\ Attr[pg].fields = 4
      /\ (Attr[pg].len < 16 <=> Attr[g].len # 16) /\ pg # Blank
      /\ OIFOf(Attr[pg].rest, po) = po
  <2> HIDE DEF g, o, po
  <2>1. /\ pg \in Words /\ Attr[pg].head = g /\ Attr[pg].fields = Attr[g].fields
        /\ Attr[g].len # 16 => pg = g /\ Attr[pg].rest = Blank
        /\ Attr[g].len = 16 => Attr[pg].rest = o /\ Attr[pg].len = 16 + Attr[o].len
    BY <1>3, PrintedIs
  <2> HIDE DEF pg
  <2>2. CASE Attr[g].len = 16
    <3>1. OIFOf(Attr[pg].rest, po) = po
      BY <1>3, <1>7, <2>1, <2>2, OIFOfIs
    <3>2. QED BY <1>3, <1>5, <2>1, <2>2, <3>1
  <2>3. CASE Attr[g].len # 16
    <3>1. OIFOf(Attr[pg].rest, po) = po
      BY <1>5, <1>7, <2>1, <2>3, OIFOfIs
    <3>2. QED BY <1>3, <1>5, <2>1, <2>3, <3>1
  <2>4. QED BY <2>2, <2>3
<1>9. /\ Plainly("C") \in Token /\ Plainly(pd) \in Token /\ Plainly(m.w) \in Token
      /\ Plainly(pg) \in Token /\ end \in Token
  <2> HIDE DEF pd, pg, po
  <2>1. QED BY <1>4, <1>6, <1>7, <1>8, WordAssumption DEF Plainly, Token
<1>10. line = <<Plainly("C")>> \o <<Plainly(pd)>> \o <<Plainly(m.w)>> \o <<Plainly(pg)>> \o <<end>>
  <2>1. line = Field("C") \o Field(pd) \o Field(m.w) \o Field(pg) \o <<end>>
    BY DEF RouteText
  <2> HIDE DEF pd, pg, line, end
  <2>2. /\ Field("C") = <<Plainly("C")>> /\ Field(pd) = <<Plainly(pd)>>
        /\ Field(m.w) = <<Plainly(m.w)>> /\ Field(pg) = <<Plainly(pg)>>
    BY <1>4, <1>6, <1>8, Letters, Zenon DEF Field, Plainly
  <2>3. QED BY <2>1, <2>2, Zenon
<1> HIDE DEF line, end, pd, pg, po
<1>11. /\ line \in Seq(Token) /\ Len(line) = 5
       /\ line[1] = Plainly("C") /\ line[2] = Plainly(pd) /\ line[3] = Plainly(m.w)
       /\ line[4] = Plainly(pg) /\ line[5] = end
  BY ONLY <1>9, <1>10, FiveTokens
<1>12. PICK args : /\ check_format_input_string(line, stack) = RouteLine("CREATE", args, stack)
                   /\ Len(args) = 4
                   /\ args[1] = line[2] /\ args[2] = line[3]
                   /\ args[3] = line[4] /\ args[4] = line[5]
  BY ONLY <1>11, CreateRouteLine
<1>13. /\ args[1] = Plainly(pd) /\ args[2] = m /\ args[3] = Plainly(pg) /\ args[4] = end
       /\ args[1].w = pd /\ args[3].w = pg /\ args[4].w = po /\ args[4].nl
  <2>1. /\ args[1] = Plainly(pd) /\ args[3] = Plainly(pg) /\ args[4] = end
        /\ args[2] = Plainly(m.w)
    BY <1>11, <1>12
  <2>2. Plainly(pd).w = pd /\ Plainly(pg).w = pg /\ end.w = po /\ end.nl
    BY DEF Plainly, end
  <2>3. QED BY <1>2, <2>1, <2>2
<1>14. strlen(args[2]) <= 2 /\ (check_mask_valid(args[2], stack) <=> ~stack.spoils)
  <2>1. strlen(m) = Attr[m.w].len + 0
    BY <1>1, Zenon DEF strlen
  <2>2. strlen(m) <= 2
    BY <1>4, <2>1
  <2>3. check_mask_valid(m, stack) <=> ~stack.spoils
    BY <1>4, Zenon DEF check_mask_valid
  <2>4. QED BY <1>13, <2>2, <2>3, Zenon
<1>15. /\ check_desIP_valid(args[1], stack) <=> (Attr[d].len = 16 => "dest" \in stack.ends)
       /\ check_gateway_valid(args[3], stack) <=> (Attr[g].len = 16 => "gateway" \in stack.ends)
  <2> HIDE DEF d, g
  <2>1. QED BY <1>6, <1>8, <1>13, Zenon DEF check_desIP_valid, check_gateway_valid
<1>16. ViaOf(args) = [gateway |-> g, oif |-> po]
  BY <1>8, <1>13 DEF ViaOf
<1>17. check_OIF_valid(ViaOf(args).oif) <=> (Attr[o].len = 16 => behind = Blank)
  <2> HIDE DEF g, o
  <2>1. ViaOf(args).oif = po
    BY <1>16
  <2>2. QED BY <1>7, <2>1, Zenon DEF check_OIF_valid
<1>18. KeyOf(args) = [dest |-> d, mask |-> m]
  BY <1>6, <1>13 DEF KeyOf
<1>19. Survives(e, stack, behind) <=> /\ check_desIP_valid(args[1], stack)
                                     /\ check_mask_valid(args[2], stack)
                                     /\ check_gateway_valid(args[3], stack)
                                     /\ check_OIF_valid(ViaOf(args).oif)
  BY <1>14, <1>15, <1>17, Zenon DEF Survives
<1>20. CASE Survives(e, stack, behind)
  <2>1. po = o
    BY <1>7, <1>20 DEF Survives
  <2>2. [key |-> KeyOf(args), via |-> ViaOf(args)] = e
    BY <1>2, <1>16, <1>18, <2>1
  <2>3. RouteLine("CREATE", args, stack)
          = RouteReq("CREATE", [key |-> KeyOf(args), via |-> ViaOf(args)])
    <3>1. Len(args) >= 4
      BY <1>12
    <3>2. QED BY <1>13, <1>14, <1>19, <1>20, <3>1, Zenon DEF RouteLine
  <2>4. QED BY <1>12, <1>20, <2>2, <2>3, Zenon DEF line
<1>21. CASE ~Survives(e, stack, behind)
  <2>1. RouteLine("CREATE", args, stack) = Invalid
    BY <1>19, <1>21, Zenon DEF RouteLine
  <2>2. QED BY <1>12, <1>21, <2>1, Zenon DEF line
<1>22. QED BY <1>20, <1>21

\* The entry of empty strings goes out as the opcode and a newline.
LEMMA BlankTextParses ==
  ASSUME NEW stack, NEW behind \in Behinds
  PROVE  check_format_input_string(RouteText(NoRoute, behind), stack) = Invalid
<1> DEFINE end == [w |-> Blank, nl |-> TRUE]
           c == <<Plainly("C")>>
           line == RouteText(NoRoute, behind)
<1>1. Plainly("C") \in Token /\ end \in Token /\ c \in Seq(Token)
  BY WordAssumption DEF Plainly, Token
<1>2. line = c \o <<end>>
  <2>1. Field("C") = c /\ Field(Blank) = <<>>
    BY Letters, Zenon DEF Field, Plainly
  <2>2. line = Field("C") \o Field(Blank) \o Field(Blank) \o Field(Blank) \o <<end>>
    <3>1. Attr[Blank].len < 16
      BY Lengths
    <3>2. \A b : Printed(Blank, b) = Blank
      BY <3>1 DEF Printed
    <3>3. /\ NoRoute.key.dest = Blank /\ NoRoute.key.mask.w = Blank
          /\ NoRoute.via.gateway = Blank /\ NoRoute.via.oif = Blank
      BY DEF NoRoute, EmptyKey, EmptyVia, NoToken
    <3>4. QED BY <3>2, <3>3, Zenon DEF RouteText
  <2> HIDE DEF c, line
  <2>3. c \o <<>> = c
    BY <1>1, ConcatEmptySeq
  <2>4. QED BY <2>1, <2>2, <2>3, Zenon
<1> HIDE DEF line, end
<1>3. line \in Seq(Token) /\ Len(line) = 2 /\ line[1] = Plainly("C") /\ line[2] = end
  BY ONLY <1>1, <1>2, TwoTokens
<1>4. check_format_input_string(line, stack) =
        IF check_format_MAC_address(end) THEN MacReq("CREATE", end.w) ELSE Invalid
  BY <1>3, CreateMacLine, Zenon
<1>5. QED BY <1>4, WordAssumption DEF end, check_format_MAC_address, line

\* A stored MAC address goes out as two tokens, the newline stuck to the second.
LEMMA MacTextParses ==
  ASSUME NEW m \in MacWords, NEW stack
  PROVE  check_format_input_string(MacText(m), stack) = MacReq("CREATE", m)
<1> DEFINE end == [w |-> m, nl |-> TRUE]
           line == MacText(m)
<1>1. Plainly("C") \in Token /\ end \in Token
  BY Letters, WordAssumption DEF Plainly, Token
<1>2. line = <<Plainly("C"), end>>
  BY DEF MacText, Plainly
<1> HIDE DEF line, end
<1>3. line \in Seq(Token) /\ Len(line) = 2 /\ line[1] = Plainly("C") /\ line[2] = end
  BY ONLY <1>1, <1>2
<1>4. check_format_input_string(line, stack) =
        IF check_format_MAC_address(end) THEN MacReq("CREATE", end.w) ELSE Invalid
  BY <1>3, CreateMacLine, Zenon
<1>5. QED BY <1>4, Letters DEF end, check_format_MAC_address, line

-----------------------------------------------------------------------------
(* What is in the tables.                                                  *)
\* A stored route was spelled by a line that passed every check, or is the one a
\* read of 0 bytes makes; a stored MAC address has the form of one.
StoredRoutes == GoodRoutes \cup {NoRoute}

\* The inductive invariant of the console.
Stored(t) ==
  /\ t \in Tables
  /\ t.rt \in Seq(StoredRoutes)
  /\ t.mac \in Seq(MacWords)
  /\ Paired(t)

Updated(t, req) ==
  req.tbl = "RT" /\ req.op = "UPDATE" =>
    \A i \in DOMAIN t.rt : t.rt[i].key = req.route.key => t.rt[i] = req.route

ConInv ==
  /\ TypeOK
  /\ Stored(tables)
  /\ RouteLinesWellFormed
  /\ UpdateReachesAll

LEMMA StoredTypes ==
  /\ StoredRoutes \subseteq Routes /\ MacWords \subseteq Words
  /\ \A e \in GoodRoutes : e.key # EmptyKey /\ e # NoRoute
  /\ NoRoute.key = EmptyKey
<1>1. StoredRoutes \subseteq Routes /\ MacWords \subseteq Words
  BY Vocabulary, Letters DEF StoredRoutes, GoodRoutes
<1>2. NoRoute.key = EmptyKey /\ EmptyKey.dest = Blank
  BY DEF NoRoute, EmptyKey
<1>3. \A e \in GoodRoutes : e.key.dest # Blank
  BY Letters DEF GoodRoutes
<1>4. QED BY <1>1, <1>2, <1>3

LEMMA EmptyStored == Stored(EmptyTables)
<1>1. EmptyTables = [rt |-> <<>>, mac |-> <<>>]
  BY DEF EmptyTables, flush_routing_table_info, flush_mac_info
<1>2. QED BY <1>1 DEF Stored, Tables, Paired, PairedRoutes, PairedMacs

\* One request of a line keeps the tables so, and an accepted UPDATE leaves no entry
\* of its key behind.
LEMMA ApplyKeeps ==
  ASSUME NEW t, Stored(t), NEW line, NEW req, Parsed(line, req)
  PROVE  Stored(Apply(t, req)) /\ Updated(Apply(t, req), req)
<1>1. /\ req \in Requests
      /\ req.op \in FUNCTION \cup {"INVALID"} /\ req.tbl \in {"RT", "MAC"}
      /\ req.route \in Routes /\ req.mac \in Words
  BY DEF Parsed, Requests
<1>2. /\ t \in Tables /\ t.rt \in Seq(Routes) /\ t.mac \in Seq(Words)
      /\ t.rt \in Seq(StoredRoutes) /\ t.mac \in Seq(MacWords)
      /\ PairedRoutes(t.rt) /\ PairedMacs(t.mac)
      /\ t = [rt |-> t.rt, mac |-> t.mac]
  BY DEF Stored, Tables, Paired
<1>3. CASE req.op \in TableOps /\ Accepts(t, req) /\ req.tbl = "MAC"
  <2> DEFINE u == EditMacs(t.mac, req.mac, req.op)
  <2>1. check_condition_mac(t.mac, req.mac, req.op) /\ req.mac \in MacWords
    BY <1>3 DEF Accepts, Parsed
  <2>2. u \in Seq(MacWords) /\ u \in Seq(Words)
    BY <1>1, <1>2, <1>3, <2>1, EditMacsIn
  <2>3. PairedMacs(u)
    BY <1>1, <1>2, <1>3, <2>1, EditMacsPaired
  <2>4. Apply(t, req) = [t EXCEPT !.mac = u]
    BY <1>3 DEF Apply, Change, TableOps
  <2> HIDE DEF u
  <2>5. Apply(t, req) = [rt |-> t.rt, mac |-> u]
    <3>1. \A p, q, v : [[rt |-> p, mac |-> q] EXCEPT !.mac = v] = [rt |-> p, mac |-> v]
      OBVIOUS
    <3>2. [[rt |-> t.rt, mac |-> t.mac] EXCEPT !.mac = u] = [rt |-> t.rt, mac |-> u]
      BY <3>1
    <3>3. QED BY ONLY <1>2, <2>4, <3>2, Zenon
  <2>6. Stored(Apply(t, req))
    BY <1>2, <2>2, <2>3, <2>5 DEF Stored, Tables, Paired
  <2>7. QED BY <1>3, <2>6 DEF Updated
<1>4. CASE req.op \in TableOps /\ Accepts(t, req) /\ req.tbl = "RT"
  <2> DEFINE u == EditRoutes(t.rt, req.route, req.op)
  <2>1. check_condition(t.rt, req.route.key, req.op)
    BY <1>4 DEF Accepts
  <2>2. req.op # "DELETE" => req.route \in StoredRoutes
    <3>1. EmptyCreate.route = NoRoute
      BY DEF EmptyCreate, RouteReq, Plain
    <3>2. QED BY <1>4, <3>1 DEF Parsed, StoredRoutes, TableOps
  <2>3. u \in Seq(StoredRoutes) /\ u \in Seq(Routes)
    BY <1>1, <1>2, <1>4, <2>2, EditRoutesIn
  <2>4. PairedRoutes(u)
    BY <1>1, <1>2, <1>4, <2>1, EditRoutesPaired
  <2>5. Apply(t, req) = [t EXCEPT !.rt = u]
    BY <1>4 DEF Apply, Change, TableOps
  <2>6. req.op = "UPDATE" =>
          \A i \in DOMAIN u : u[i].key = req.route.key => u[i] = req.route
    <3>1. req.op = "UPDATE" => u = update_entry_table(t.rt, req.route)
      BY DEF EditRoutes
    <3> HIDE DEF u
    <3>2. QED BY <3>1 DEF update_entry_table
  <2> HIDE DEF u
  <2>7. Apply(t, req) = [rt |-> u, mac |-> t.mac]
    <3>1. \A p, q, v : [[rt |-> p, mac |-> q] EXCEPT !.rt = v] = [rt |-> v, mac |-> q]
      OBVIOUS
    <3>2. [[rt |-> t.rt, mac |-> t.mac] EXCEPT !.rt = u] = [rt |-> u, mac |-> t.mac]
      BY <3>1
    <3>3. QED BY ONLY <1>2, <2>5, <3>2, Zenon
  <2>8. Stored(Apply(t, req))
    BY <1>2, <2>3, <2>4, <2>7 DEF Stored, Tables, Paired
  <2>9. Updated(Apply(t, req), req)
    BY <2>6, <2>7 DEF Updated
  <2>10. QED BY <2>8, <2>9
<1>5. CASE req.op \in TableOps /\ ~Accepts(t, req)
  <2>1. Apply(t, req) = t
    BY <1>5 DEF Apply, TableOps
  <2>2. req.tbl = "RT" /\ req.op = "UPDATE" =>
          \A i \in DOMAIN t.rt : t.rt[i].key # req.route.key
    BY <1>2, <1>5, LenProperties DEF Accepts, check_condition, HasKey
  <2>3. QED BY <2>1, <2>2 DEF Updated
<1>6. CASE req.op \notin TableOps
  <2>1. Apply(t, req) \in {t, EmptyTables}
    BY <1>6 DEF Apply
  <2>2. req.op # "UPDATE"
    BY <1>6 DEF TableOps
  <2>3. QED BY <2>1, <2>2, EmptyStored DEF Updated
<1>7. QED BY <1>1, <1>3, <1>4, <1>5, <1>6

-----------------------------------------------------------------------------
(* The invariant holds initially and at every line.                        *)
LEMMA ConInit == Init => ConInv
<1> SUFFICES ASSUME Init PROVE ConInv
  OBVIOUS
<1>1. tables = EmptyTables /\ copy_buffer = NoToken /\ last = [line |-> <<>>, req |-> Invalid]
  BY DEF Init
<1>2. Invalid.op = "INVALID"
  BY DEF Invalid, Plain
<1>3. TypeOK
  BY <1>1, Vocabulary, RequestTypes, EmptyStored DEF TypeOK, Stored
<1>4. RouteLinesWellFormed /\ UpdateReachesAll
  BY <1>1, <1>2 DEF RouteLinesWellFormed, UpdateReachesAll
<1>5. QED BY <1>1, <1>3, <1>4, EmptyStored DEF ConInv

LEMMA ConStep == ConInv /\ [Next]_vars => ConInv'
<1> SUFFICES ASSUME ConInv, [Next]_vars PROVE ConInv'
  OBVIOUS
<1>1. CASE UNCHANGED vars
  BY <1>1 DEF ConInv, vars, TypeOK, Stored, Paired, RouteLinesWellFormed, UpdateReachesAll
<1>2. ASSUME NEW line \in Lines, NEW ip \in BOOLEAN, Typed(line, ip)
      PROVE  ConInv'
  <2>1. PICK stack, req :
          /\ stack \in Stacks
          /\ req = check_format_input_string(line, stack)
          /\ tables' = IF (NeedsIp(req) /\ ~ip) \/ req.op = "QUIT"
                       THEN tables ELSE Apply(tables, req)
          /\ copy_buffer' = Copied(line, copy_buffer)
          /\ last' = [line |-> line, req |-> req]
    <3>1. PICK req \in {check_format_input_string(line, stack) : stack \in Stacks} :
            /\ tables' = IF (NeedsIp(req) /\ ~ip) \/ req.op = "QUIT"
                         THEN tables ELSE Apply(tables, req)
            /\ copy_buffer' = Copied(line, copy_buffer)
            /\ last' = [line |-> line, req |-> req]
      BY <1>2 DEF Typed
    <3>2. PICK stack \in Stacks : req = check_format_input_string(line, stack)
      BY <3>1
    <3>3. QED BY <3>1, <3>2
  <2>2. line \in SplitLines /\ line \in Seq(Token)
    BY LineAssumption DEF SplitLines
  <2>3. stack.copy_buffer \in Token
    BY <2>1, Vocabulary DEF Stacks, ConInv, TypeOK
  <2>4. Parsed(line, req)
    BY <2>1, <2>2, <2>3, LineParsed
  <2>5. Stored(tables) /\ Stored(Apply(tables, req)) /\ Updated(Apply(tables, req), req)
    BY <2>4, ApplyKeeps DEF ConInv
  <2>6. Stored(tables') /\ Updated(tables', req)
    <3>1. CASE (NeedsIp(req) /\ ~ip) \/ req.op = "QUIT"
      <4>1. ~ (req.tbl = "RT" /\ req.op = "UPDATE")
        BY <3>1 DEF NeedsIp
      <4>2. QED BY <2>1, <2>5, <3>1, <4>1 DEF Updated
    <3>2. CASE ~ ((NeedsIp(req) /\ ~ip) \/ req.op = "QUIT")
      BY <2>1, <2>5, <3>2
    <3>3. QED BY <3>1, <3>2
  <2>7. TypeOK'
    <3>1. Copied(line, copy_buffer) \in Token
      <4>1. Len(line) >= 2 => line[2] \in Token
        BY <2>2, LenProperties, ElementOfSeq
      <4>2. QED BY <4>1 DEF Copied, ConInv, TypeOK
    <3>2. req \in Requests
      BY <2>4 DEF Parsed
    <3>3. QED BY <2>1, <2>6, <3>1, <3>2 DEF TypeOK, Stored
  <2>8. RouteLinesWellFormed'
    <3>1. last'.line = line /\ last'.req = req
      BY <2>1
    <3>2. QED BY <2>4, <3>1 DEF Parsed, Spelled, RouteLinesWellFormed
  <2>9. UpdateReachesAll'
    <3>1. last'.req = req
      BY <2>1
    <3>2. QED BY <2>6, <3>1 DEF Updated, UpdateReachesAll
  <2>10. Stored(tables)'
    BY <2>6 DEF Stored, Paired
  <2>11. QED BY <2>7, <2>8, <2>9, <2>10 DEF ConInv
<1>3. QED BY <1>1, <1>2 DEF Next

LEMMA ConInvariant == Spec => []ConInv
BY ConInit, ConStep, PTL DEF Spec

-----------------------------------------------------------------------------
(* What a newly accepted client makes of the texts it is sent.             *)
\* A stored entry comes back as the snapshot has it, or not at all.
LEMMA TextsParse ==
  ASSUME NEW e \in StoredRoutes, NEW stack, NEW behind \in Behinds
  PROVE  check_format_input_string(RouteText(e, behind), stack)
           = IF Survives(e, stack, behind) THEN WireRoute(e) ELSE Invalid
<1>1. CASE e = NoRoute
  <2>1. WireRoute(e) = Invalid
    BY <1>1, StoredTypes DEF WireRoute
  <2>2. QED BY <1>1, <2>1, BlankTextParses
<1>2. CASE e # NoRoute
  <2>1. e \in GoodRoutes /\ e.key # EmptyKey
    BY <1>2, StoredTypes DEF StoredRoutes
  <2>2. WireRoute(e) = RouteReq("CREATE", e)
    BY <2>1 DEF WireRoute
  <2>3. QED BY <2>1, <2>2, RouteTextParses
<1>3. QED BY <1>1, <1>2

\* Applied from empty tables the snapshot gives the tables back, unless an entry of
\* empty strings among them is lost.
LEMMA JoinWorks == ConInv => JoinReproducesTables
<1> SUFFICES ASSUME ConInv PROVE JoinReproducesTables
  OBVIOUS
<1>1. /\ Stored(tables)
      /\ \A i \in 1..Len(tables.rt) : tables.rt[i] \in StoredRoutes
      /\ \A i \in 1..Len(tables.mac) : tables.mac[i] \in MacWords
  BY LenProperties, ElementOfSeq DEF ConInv, Stored
<1>2. ASSUME NEW stack \in Stacks, NEW behind \in Behinds, NEW i \in 1..Len(tables.rt)
      PROVE  check_format_input_string(RouteText(tables.rt[i], behind), stack)
               = IF Survives(tables.rt[i], stack, behind)
                 THEN WireRoute(tables.rt[i]) ELSE Invalid
  BY <1>1, TextsParse
<1>3. ASSUME NEW stack \in Stacks, NEW i \in 1..Len(tables.mac)
      PROVE  check_format_input_string(MacText(tables.mac[i]), stack) = WireMac(tables.mac[i])
  BY <1>1, MacTextParses DEF WireMac
<1>4. \/ Replay(EmptyTables, Snapshot(tables)) = tables
      \/ \E i \in 1..Len(tables.rt) : tables.rt[i] = NoRoute
  <2> SUFFICES ASSUME \A i \in 1..Len(tables.rt) : tables.rt[i] # NoRoute
               PROVE  Replay(EmptyTables, Snapshot(tables)) = tables
    OBVIOUS
  <2>1. \A i \in 1..Len(tables.rt) : tables.rt[i].key # EmptyKey
    BY <1>1, StoredTypes DEF StoredRoutes
  <2>2. tables \in Tables /\ Paired(tables)
    BY <1>1 DEF Stored
  <2>3. QED BY <2>1, <2>2, SnapshotReplays
<1>5. QED BY <1>2, <1>3, <1>4, Zenon DEF JoinReproducesTables

LEMMA PairsWork == ConInv => DuplicatesArePairs
<1> SUFFICES ASSUME ConInv PROVE DuplicatesArePairs
  OBVIOUS
<1> DEFINE keys == [i \in 1..Len(tables.rt) |-> tables.rt[i].key]
<1>1. /\ PairedRoutes(tables.rt) /\ PairedMacs(tables.mac)
      /\ Len(tables.rt) \in Nat /\ tables.mac \in Seq(Words)
      /\ DOMAIN tables.mac = 1..Len(tables.mac)
  BY LenProperties DEF ConInv, Stored, Paired, Tables
<1>2. \A i, j \in DOMAIN keys : i < j /\ keys[i] = keys[j] => j = i + 1
  BY <1>1 DEF PairedRoutes
<1> HIDE DEF keys
<1>3. \A i, j \in DOMAIN tables.mac : i < j /\ tables.mac[i] = tables.mac[j] => j = i + 1
  BY <1>1 DEF PairedMacs
<1>4. QED BY <1>2, <1>3 DEF DuplicatesArePairs, keys

-----------------------------------------------------------------------------
(* The theorems.                                                           *)
\* Type correctness: whatever lines are typed and whatever the parser finds on its
\* stack (common.c:455-703), the tables hold entries and the request is one of the
\* opcode switch of server.c:148-224.
THEOREM TypeCorrect == Spec => []TypeOK
<1>1. ConInv => TypeOK
  BY DEF ConInv
<1>2. QED BY <1>1, ConInvariant, PTL

\* check_format_input_string lets no line create or update a route that has not the
\* form the menu prints, and the route stored is the one the line spells: its
\* addresses cut to the 16 characters of their fields, whatever the length test that
\* follows the copies finds (common.c:366-439, 490-521).
THEOREM LinesWellFormed == Spec => []RouteLinesWellFormed
<1>1. ConInv => RouteLinesWellFormed
  BY DEF ConInv
<1>2. QED BY <1>1, ConInvariant, PTL

\* The texts of send_rtable_to_newly_client and send_mac_table_to_newly_client parse
\* back to the entries they were printed from or, if a field is full or a digit
\* follows the mask, to nothing; and a client that applies all of them to empty
\* tables, duplicate check included, has the server's; only the entry of empty
\* strings that the end of input makes is lost.
THEOREM JoinReproduces == Spec => []JoinReproducesTables
<1>1. QED BY JoinWorks, ConInvariant, PTL

\* The duplicate check of common.c:256, which never looks at the last node, lets a
\* second entry of a key through and never a third, and no update or delete parts
\* the two.
THEOREM DuplicatesPaired == Spec => []DuplicatesArePairs
<1>1. QED BY PairsWork, ConInvariant, PTL

\* An UPDATE leaves no entry of its key with another via (update_entry_table of
\* common.c), and when it is refused there is no entry of the key.
THEOREM UpdatesReachAll == Spec => []UpdateReachesAll
<1>1. ConInv => UpdateReachesAll
  BY DEF ConInv
<1>2. QED BY <1>1, ConInvariant, PTL
=============================================================================
