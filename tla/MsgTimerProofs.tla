--------------------------- MODULE MsgTimerProofs ---------------------------
(***************************************************************************)
(* Proofs about module MsgTimer, for every number of processes, timers,    *)
(* lists and items, every width of TimerTick and every delay it can hold.  *)
(***************************************************************************)
EXTENDS MsgTimer, FiniteSetTheorems, TLAPS

-----------------------------------------------------------------------------
(* The k-th smallest place rises with k and goes through all of them. *)
LEMMA NthFacts ==
  ASSUME NEW n \in Nat, NEW I \in SUBSET (1 .. n)
  PROVE  /\ Cardinality(I) \in Nat
         /\ \A k \in 1 .. Cardinality(I) : Nth(I, k) \in I
         /\ \A j, k \in 1 .. Cardinality(I) : j < k => Nth(I, j) < Nth(I, k)
         /\ \A i \in I : \E k \in 1 .. Cardinality(I) : Nth(I, k) = i
<1> DEFINE upto == [i \in I |-> {j \in I : j <= i}]
           rank == [i \in I |-> Cardinality(upto[i])]
           c == Cardinality(I)
<1>1. IsFiniteSet(I) /\ c \in Nat /\ I \subseteq Nat
  <2>1. IsFiniteSet(1 .. n)
    BY FS_Interval, 1 \in Int, n \in Int
  <2>2. IsFiniteSet(I) /\ c \in Nat
    BY <2>1, FS_Subset, FS_CardinalityType
  <2>3. I \subseteq Nat
    OBVIOUS
  <2> QED BY <2>2, <2>3
<1>2. \A i \in I : upto[i] \in SUBSET I /\ i \in upto[i]
  BY <1>1
<1>3. \A i, j \in I : i < j => upto[i] \in SUBSET upto[j] /\ j \notin upto[i]
  <2> SUFFICES ASSUME NEW i \in I, NEW j \in I, i < j
               PROVE  upto[i] \subseteq upto[j] /\ j \notin upto[i]
    OBVIOUS
  <2>1. \A k \in I : k <= i => k <= j
    BY <1>1
  <2>2. ~ j <= i
    BY <1>1
  <2> QED BY <2>1, <2>2
<1> HIDE DEF upto
<1>4. \A i \in I : IsFiniteSet(upto[i])
  BY <1>1, <1>2, FS_Subset
<1>5. rank \in [I -> 1 .. c]
  <2>1. ASSUME NEW i \in I
        PROVE  Cardinality(upto[i]) \in Nat /\ Cardinality(upto[i]) <= c /\ Cardinality(upto[i]) # 0
    <3>1. upto[i] # {}
      BY <1>2
    <3> QED BY <1>1, <1>2, <1>4, <3>1, FS_Subset, FS_CardinalityType, FS_EmptySet
  <2> HIDE DEF c
  <2>2. ASSUME NEW i \in I PROVE Cardinality(upto[i]) \in 1 .. c
    <3> DEFINE r == Cardinality(upto[i])
    <3>1. r \in Nat /\ r <= c /\ r # 0
      BY <2>1
    <3> HIDE DEF r
    <3>2. r \in 1 .. c
      BY <1>1, <3>1
    <3> QED BY <3>2 DEF r
  <2> QED BY <2>2
<1>6. ASSUME NEW i \in I, NEW j \in I, i < j PROVE rank[i] < rank[j]
  <2>1. upto[i] \in SUBSET upto[j] /\ j \in upto[j] /\ j \notin upto[i]
    BY <1>2, <1>3, <1>6
  <2>2. rank[i] <= rank[j] /\ rank[i] # rank[j]
    BY <1>4, <2>1, FS_Subset
  <2>3. rank[i] \in Nat /\ rank[j] \in Nat
    BY <1>4, FS_CardinalityType
  <2> HIDE DEF rank
  <2> QED BY <2>2, <2>3
<1> HIDE DEF c
<1>7. \A k \in 1 .. c : Nth(I, k) \in I /\ rank[Nth(I, k)] = k
  <2> HIDE DEF rank
  <2>1. ASSUME NEW i \in I, NEW j \in I, rank[i] = rank[j] PROVE i = j
    <3>1. i \in Nat /\ j \in Nat /\ rank[i] \in Nat
      BY <1>1, <1>5
    <3> QED BY <1>6, <2>1, <3>1
  <2>2. rank \in Injection(I, 1 .. c)
    BY <1>5, <2>1 DEF Injection, IsInjective
  <2>3. IsFiniteSet(1 .. c) /\ Cardinality(1 .. c) = c
    BY <1>1, FS_Interval, 1 \in Int, c \in Int
  <2>4. rank \in Surjection(I, 1 .. c)
    BY <2>2, <2>3, FS_Injection DEF c
  <2>5. ASSUME NEW k \in 1 .. c PROVE \E i \in I : rank[i] = k
    BY <2>4 DEF Surjection
  <2>6. \A i \in I : rank[i] = Cardinality({j \in I : j <= i})
    BY DEF rank, upto
  <2> QED BY <2>5, <2>6 DEF Nth
<1> HIDE DEF rank
<1>8. ASSUME NEW j \in 1 .. c, NEW k \in 1 .. c, j < k PROVE Nth(I, j) < Nth(I, k)
  <2>1. /\ Nth(I, j) \in Nat /\ Nth(I, k) \in Nat
        /\ Nth(I, k) < Nth(I, j) => k < j
        /\ Nth(I, k) = Nth(I, j) => k = j
    BY <1>1, <1>6, <1>7
  <2> QED BY <1>1, <1>8, <2>1
<1>9. ASSUME NEW i \in I PROVE \E k \in 1 .. c : Nth(I, k) = i
  <2>1. rank[i] \in 1 .. c
    BY <1>5
  <2>2. Nth(I, rank[i]) \in I /\ rank[Nth(I, rank[i])] = rank[i]
    BY <1>7, <2>1
  <2>3. rank[i] \in Nat /\ i \in Nat /\ Nth(I, rank[i]) \in Nat
    <3>1. rank[i] \in Nat
      BY <1>1, <2>1
    <3>2. i \in Nat /\ Nth(I, rank[i]) \in Nat
      BY <1>1, <2>2
    <3> QED BY <3>1, <3>2
  <2> QED BY <1>6, <2>1, <2>2, <2>3
<1> QED BY <1>1, <1>7, <1>8, <1>9 DEF c

LEMMA LeastPlace ==
  ASSUME NEW n \in Nat, NEW I \in SUBSET (1 .. n), I # {}
  PROVE  \E i \in I : \A j \in I : i <= j
<1> DEFINE c == Cardinality(I)
<1>1. /\ c \in Nat
      /\ \A k \in 1 .. c : Nth(I, k) \in I
      /\ \A j, k \in 1 .. c : j < k => Nth(I, j) < Nth(I, k)
      /\ \A i \in I : \E k \in 1 .. c : Nth(I, k) = i
  BY NthFacts
<1>2. I \subseteq Nat
  OBVIOUS
<1> HIDE DEF c
<1>3. 1 \in 1 .. c
  <2>1. PICK i \in I : TRUE
    OBVIOUS
  <2>2. PICK k \in 1 .. c : Nth(I, k) = i
    BY <1>1
  <2> QED BY <1>1, <2>2
<1>4. ASSUME NEW j \in I PROVE Nth(I, 1) <= j
  <2>1. PICK k \in 1 .. c : Nth(I, k) = j
    BY <1>1
  <2>2. CASE k = 1
    BY <1>2, <2>1, <2>2
  <2>3. CASE k # 1
    <3>1. Nth(I, 1) < j
      BY <1>1, <1>3, <2>1, <2>3
    <3>2. Nth(I, 1) \in Nat /\ j \in Nat
      BY <1>1, <1>2, <1>3
    <3> QED BY <3>1, <3>2
  <2> QED BY <2>2, <2>3
<1> QED BY <1>1, <1>3, <1>4

(* What stays of a list, stays in its order. *)
LEMMA OnlyFacts ==
  ASSUME NEW S, NEW list \in Seq(S), NEW I \in SUBSET (1 .. Len(list))
  PROVE  LET o == Only(list, I) IN
         /\ o \in Seq(S)
         /\ \E at \in [1 .. Len(o) -> I] :
              /\ \A k \in 1 .. Len(o) : o[k] = list[at[k]]
              /\ \A j, k \in 1 .. Len(o) : j < k => at[j] < at[k]
              /\ \A i \in I : \E k \in 1 .. Len(o) : at[k] = i
<1> DEFINE o == Only(list, I)
           all == [k \in 1 .. Len(list) |-> k]
           at == [k \in 1 .. Cardinality(I) |-> Nth(I, k)]
<1>1. CASE I = 1 .. Len(list)
  <2>1. o = list
    BY <1>1 DEF Only
  <2>2. all \in [1 .. Len(o) -> I]
    BY <1>1, <2>1
  <2> QED BY <1>1, <2>1, <2>2
<1>2. CASE I # 1 .. Len(list)
  <2>1. /\ Cardinality(I) \in Nat
        /\ \A k \in 1 .. Cardinality(I) : Nth(I, k) \in I
        /\ \A j, k \in 1 .. Cardinality(I) : j < k => Nth(I, j) < Nth(I, k)
        /\ \A i \in I : \E k \in 1 .. Cardinality(I) : Nth(I, k) = i
    BY NthFacts, Len(list) \in Nat
  <2>2. o = [k \in 1 .. Cardinality(I) |-> list[Nth(I, k)]]
    BY <1>2 DEF Only
  <2> DEFINE c == Cardinality(I)
  <2>3. \A i \in I : list[i] \in S
    OBVIOUS
  <2>4. c \in Nat /\ o = [k \in 1 .. c |-> list[Nth(I, k)]]
    BY <2>1, <2>2
  <2>5. \A k \in 1 .. c : list[Nth(I, k)] \in S
    BY <2>1, <2>3
  <2> HIDE DEF c, o
  <2>6. o \in Seq(S) /\ Len(o) = c
    BY <2>4, <2>5
  <2>7. at \in [1 .. Len(o) -> I]
    BY <2>1, <2>6 DEF c
  <2>8. \A k \in 1 .. Len(o) : o[k] = list[at[k]]
    BY <2>4, <2>6 DEF c
  <2>9. /\ \A j, k \in 1 .. Len(o) : j < k => at[j] < at[k]
        /\ \A i \in I : \E k \in 1 .. Len(o) : at[k] = i
    BY <2>1, <2>6 DEF c
  <2> HIDE DEF at
  <2> QED BY <2>6, <2>7, <2>8, <2>9 DEF o
<1> QED BY <1>1, <1>2

-----------------------------------------------------------------------------
(* The order of a list: s stands before r. *)
Before(list, s, r) == \E i, j \in 1 .. Len(list) : i < j /\ list[i] = s /\ list[j] = r

LEMMA EmptyFacts ==
  ToSet(<<>>) = {} /\ IsInjective(<<>>) /\ \A s, r : ~ Before(<<>>, s, r)
BY DEF ToSet, IsInjective, Before

LEMMA BeforeFacts ==
  ASSUME NEW S, NEW list \in Seq(S)
  PROVE  /\ ToSet(list) \subseteq S
         /\ \A s \in ToSet(list) : \E i \in 1 .. Len(list) : list[i] = s
         /\ \A i \in 1 .. Len(list) : list[i] \in ToSet(list)
         /\ \A s, r : Before(list, s, r) => s \in ToSet(list) /\ r \in ToSet(list)
         /\ IsInjective(list) =>
              /\ \A i, j \in 1 .. Len(list) : list[i] = list[j] => i = j
              /\ \A i, j \in 1 .. Len(list) : Before(list, list[i], list[j]) => i < j
<1>1. DOMAIN list = 1 .. Len(list)
  OBVIOUS
<1>2. \A i \in 1 .. Len(list) : list[i] \in S
  OBVIOUS
<1>3. IsInjective(list) => \A i, j \in 1 .. Len(list) : list[i] = list[j] => i = j
  BY <1>1 DEF IsInjective
<1>4. ASSUME IsInjective(list), NEW i \in 1 .. Len(list), NEW j \in 1 .. Len(list),
             Before(list, list[i], list[j])
      PROVE  i < j
  BY <1>3, <1>4 DEF Before
<1> QED BY <1>1, <1>2, <1>3, <1>4 DEF ToSet, Before

LEMMA RemovedFacts ==
  ASSUME NEW S, NEW list \in Seq(S), NEW D
  PROVE  LET o == Removed(list, D) IN
         /\ o \in Seq(S)
         /\ ToSet(o) = ToSet(list) \ D
         /\ IsInjective(list) => IsInjective(o)
         /\ \A s, r : Before(o, s, r) <=> Before(list, s, r) /\ s \notin D /\ r \notin D
<1> DEFINE I == {i \in 1 .. Len(list) : list[i] \notin D}
           o == Only(list, I)
<1>0. I \in SUBSET (1 .. Len(list))
  OBVIOUS
<1>1. o \in Seq(S)
  BY <1>0, OnlyFacts
<1>2. PICK at \in [1 .. Len(o) -> I] :
              /\ \A k \in 1 .. Len(o) : o[k] = list[at[k]]
              /\ \A j, k \in 1 .. Len(o) : j < k => at[j] < at[k]
              /\ \A i \in I : \E k \in 1 .. Len(o) : at[k] = i
  <2> HIDE DEF I
  <2> QED BY <1>0, OnlyFacts
<1>3. Removed(list, D) = o
  BY DEF Removed
<1>4. \A k \in 1 .. Len(o) : at[k] \in 1 .. Len(list) /\ list[at[k]] \notin D
  OBVIOUS
<1>5. \A i \in 1 .. Len(list) : list[i] \notin D => \E k \in 1 .. Len(o) : at[k] = i
  BY <1>2
<1>6. DOMAIN o = 1 .. Len(o) /\ DOMAIN list = 1 .. Len(list)
  BY <1>1
<1>7. Len(o) \in Nat /\ Len(list) \in Nat
  BY <1>1
<1> HIDE DEF o, I
<1>8. ToSet(o) = ToSet(list) \ D
  <2>1. ASSUME NEW x \in ToSet(o) PROVE x \in ToSet(list) \ D
    <3>1. PICK k \in 1 .. Len(o) : x = o[k]
      BY <1>6, <2>1 DEF ToSet
    <3> QED BY <1>2, <1>4, <1>6, <3>1 DEF ToSet
  <2>2. ASSUME NEW x \in ToSet(list) \ D PROVE x \in ToSet(o)
    <3>1. PICK i \in 1 .. Len(list) : x = list[i]
      BY <1>6, <2>2 DEF ToSet
    <3>2. PICK k \in 1 .. Len(o) : at[k] = i
      BY <1>5, <2>2, <3>1
    <3> QED BY <1>2, <1>6, <3>1, <3>2 DEF ToSet
  <2> QED BY <2>1, <2>2
<1>9. ASSUME IsInjective(list) PROVE IsInjective(o)
  <2>1. ASSUME NEW j \in 1 .. Len(o), NEW k \in 1 .. Len(o), o[j] = o[k] PROVE j = k
    <3>1. at[j] = at[k] /\ at[j] \in Nat
      BY <1>2, <1>4, <1>6, <1>7, <1>9, <2>1 DEF IsInjective
    <3>2. ~ j < k /\ ~ k < j
      BY <1>2, <3>1
    <3> QED BY <1>7, <3>2
  <2> QED BY <1>6, <2>1 DEF IsInjective
<1>10. ASSUME NEW s, NEW r, Before(o, s, r)
       PROVE  Before(list, s, r) /\ s \notin D /\ r \notin D
  <2>1. PICK j \in 1 .. Len(o), k \in 1 .. Len(o) : j < k /\ o[j] = s /\ o[k] = r
    BY <1>10 DEF Before
  <2>2. at[j] < at[k] /\ list[at[j]] = s /\ list[at[k]] = r
    BY <1>2, <2>1
  <2>3. at[j] \in 1 .. Len(list) /\ at[k] \in 1 .. Len(list) /\ s \notin D /\ r \notin D
    BY <1>4, <2>2
  <2> QED BY <2>2, <2>3 DEF Before
<1>11. ASSUME NEW s, NEW r, Before(list, s, r), s \notin D, r \notin D PROVE Before(o, s, r)
  <2>1. PICK i \in 1 .. Len(list), j \in 1 .. Len(list) : i < j /\ list[i] = s /\ list[j] = r
    BY <1>11 DEF Before
  <2>2. PICK k \in 1 .. Len(o), l \in 1 .. Len(o) : at[k] = i /\ at[l] = j
    BY <1>5, <1>11, <2>1
  <2>3. ~ l < k /\ l # k
    BY <1>2, <1>7, <2>1, <2>2
  <2>4. k < l
    BY <1>7, <2>3
  <2> QED BY <1>2, <2>1, <2>2, <2>4 DEF Before
<1> QED BY <1>1, <1>3, <1>8, <1>9, <1>10, <1>11

LEMMA AppendFacts ==
  ASSUME NEW S, NEW list \in Seq(S), NEW x \in S
  PROVE  LET o == Append(list, x) IN
         /\ o \in Seq(S)
         /\ ToSet(o) = ToSet(list) \cup {x}
         /\ IsInjective(list) /\ x \notin ToSet(list) => IsInjective(o)
         /\ \A s, r : Before(o, s, r) <=> Before(list, s, r) \/ (s \in ToSet(list) /\ r = x)
<1> DEFINE o == Append(list, x)
           n == Len(list)
<1>1. n \in Nat /\ DOMAIN list = 1 .. n /\ o \in Seq(S)
  OBVIOUS
<1>2. /\ Len(o) = n + 1 /\ DOMAIN o = 1 .. n + 1
      /\ o[n + 1] = x
      /\ \A i \in 1 .. n : o[i] = list[i]
  OBVIOUS
<1>3. Len(list) = n /\ \A i \in 1 .. n : list[i] \in ToSet(list)
  BY <1>1 DEF ToSet
<1>4. \A s \in ToSet(list) : \E i \in 1 .. n : list[i] = s
  BY <1>1 DEF ToSet
<1> HIDE DEF o, n
<1>5. \A i : i \in 1 .. n + 1 <=> i \in 1 .. n \/ i = n + 1
  BY <1>1
<1>6. ToSet(o) = ToSet(list) \cup {x}
  BY <1>1, <1>2, <1>5 DEF ToSet
<1>7. ASSUME IsInjective(list), x \notin ToSet(list) PROVE IsInjective(o)
  BY <1>1, <1>2, <1>3, <1>5, <1>7 DEF IsInjective
<1>8. ASSUME NEW s, NEW r, Before(o, s, r)
      PROVE  Before(list, s, r) \/ (s \in ToSet(list) /\ r = x)
  <2>1. PICK i \in 1 .. n + 1, j \in 1 .. n + 1 : i < j /\ o[i] = s /\ o[j] = r
    BY <1>2, <1>8 DEF Before
  <2>2. i \in 1 .. n
    BY <1>1, <2>1
  <2> QED BY <1>2, <1>3, <1>5, <2>1, <2>2 DEF Before
<1>9. ASSUME NEW s, NEW r, Before(list, s, r) PROVE Before(o, s, r)
  BY <1>2, <1>3, <1>5, <1>9 DEF Before
<1>10. ASSUME NEW s \in ToSet(list) PROVE Before(o, s, x)
  <2>1. PICK i \in 1 .. n : list[i] = s
    BY <1>4
  <2>2. i < n + 1
    BY <1>1
  <2> QED BY <1>2, <1>5, <2>1, <2>2 DEF Before
<1> QED BY <1>1, <1>6, <1>7, <1>8, <1>9, <1>10 DEF o

LEMMA InsertFacts ==
  ASSUME NEW S, NEW list \in Seq(S), NEW x \in S, NEW k \in 1 .. Len(list) + 1
  PROVE  LET o == InsertAt(list, k, x) IN
         /\ o \in Seq(S)
         /\ ToSet(o) = ToSet(list) \cup {x}
         /\ IsInjective(list) /\ x \notin ToSet(list) => IsInjective(o)
         /\ \A s, r : Before(o, s, r) =>
              \/ Before(list, s, r)
              \/ r = x /\ \E i \in 1 .. k - 1 : list[i] = s
              \/ s = x /\ \E i \in k .. Len(list) : list[i] = r
<1> DEFINE o == InsertAt(list, k, x)
           n == Len(list)
<1>1. n \in Nat /\ DOMAIN list = 1 .. n /\ Len(list) = n /\ k \in 1 .. n + 1
  OBVIOUS
<1>2. /\ o \in Seq(S)
      /\ Len(o) = n + 1 /\ DOMAIN o = 1 .. n + 1
      /\ o[k] = x
      /\ \A i \in 1 .. k - 1 : o[i] = list[i]
      /\ \A i \in k + 1 .. n + 1 : o[i] = list[i - 1]
  <2> DEFINE a == SubSeq(list, 1, k - 1)
             b == SubSeq(list, k, Len(list))
             ax == a \o <<x>>
  <2>1. /\ a \in Seq(S) /\ Len(a) = k - 1
        /\ \A i \in 1 .. k - 1 : a[i] = list[i]
    BY <1>1
  <2>2. /\ b \in Seq(S) /\ Len(b) = (n + 1) - k
        /\ \A i \in 1 .. (n + 1) - k : b[i] = list[(i + k) - 1]
    BY <1>1
  <2>3. o = ax \o b
    BY DEF InsertAt
  <2> HIDE DEF a, b, o, n
  <2>4. /\ ax \in Seq(S) /\ Len(ax) = k
        /\ ax[k] = x
        /\ \A i \in 1 .. k - 1 : ax[i] = list[i]
    BY <1>1, <2>1
  <2> HIDE DEF ax
  <2>5. o \in Seq(S) /\ Len(o) = n + 1 /\ DOMAIN o = 1 .. n + 1
    <3>1. ax \o b \in Seq(S) /\ Len(ax \o b) = Len(ax) + Len(b)
      <4>1. ax \in Seq(S) /\ b \in Seq(S)
        BY <2>2, <2>4
      <4> QED BY <4>1
    <3>2. Len(ax) + Len(b) = n + 1
      BY <1>1, <2>2, <2>4
    <3>3. o \in Seq(S) /\ Len(o) = n + 1
      BY <2>3, <3>1, <3>2
    <3> QED BY <3>3
  <2>6. \A i \in 1 .. k : i \in 1 .. n + 1 /\ o[i] = ax[i]
    BY <1>1, <2>2, <2>3, <2>4
  <2>7. ASSUME NEW i \in k + 1 .. n + 1 PROVE o[i] = list[i - 1]
    <3>1. i - k \in 1 .. (n + 1) - k /\ (i - k) + k = i
      BY <1>1
    <3>2. o[i] = b[i - k]
      BY <1>1, <2>2, <2>3, <2>4
    <3> QED BY <2>2, <3>1, <3>2
  <2>8. k \in 1 .. k /\ \A i \in 1 .. k - 1 : i \in 1 .. k
    BY <1>1
  <2> QED BY <2>4, <2>5, <2>6, <2>7, <2>8
<1> HIDE DEF o, n
<1>3. /\ \A i : i \in 1 .. n + 1 <=> i \in 1 .. k - 1 \/ i = k \/ i \in k + 1 .. n + 1
      /\ \A i \in 1 .. k - 1 : i \in 1 .. n
      /\ \A i \in k + 1 .. n + 1 : i - 1 \in k .. n /\ i - 1 \in 1 .. n
      /\ \A i \in 1 .. n : i \in 1 .. k - 1 \/ (i + 1 \in k + 1 .. n + 1 /\ (i + 1) - 1 = i)
  BY <1>1
<1>4. ToSet(o) = ToSet(list) \cup {x}
  <2>1. ASSUME NEW y \in ToSet(o) PROVE y \in ToSet(list) \cup {x}
    <3>1. PICK i \in 1 .. n + 1 : o[i] = y
      BY <1>2, <2>1 DEF ToSet
    <3>2. CASE i \in 1 .. k - 1
      BY <1>1, <1>2, <1>3, <3>1, <3>2 DEF ToSet
    <3>3. CASE i = k
      BY <1>2, <3>1, <3>3
    <3>4. CASE i \in k + 1 .. n + 1
      BY <1>1, <1>2, <1>3, <3>1, <3>4 DEF ToSet
    <3> QED BY <1>3, <3>2, <3>3, <3>4
  <2>2. ASSUME NEW y \in ToSet(list) PROVE y \in ToSet(o)
    <3>1. PICK i \in 1 .. n : list[i] = y
      BY <1>1, <2>2 DEF ToSet
    <3> QED BY <1>2, <1>3, <3>1 DEF ToSet
  <2>3. x \in ToSet(o)
    BY <1>2, <1>3 DEF ToSet
  <2> QED BY <2>1, <2>2, <2>3
<1>5. ASSUME IsInjective(list), x \notin ToSet(list) PROVE IsInjective(o)
  <2>1. \A i \in 1 .. n : list[i] # x
    BY <1>1, <1>5 DEF ToSet
  <2>2. \A i, j \in 1 .. n : list[i] = list[j] => i = j
    BY <1>1, <1>5 DEF IsInjective
  <2>3. ASSUME NEW i \in 1 .. n + 1, NEW j \in 1 .. n + 1, o[i] = o[j] PROVE i = j
    <3>1. CASE i = k \/ j = k
      BY <1>2, <1>3, <2>1, <2>3, <3>1
    <3>2. CASE i \in 1 .. k - 1 /\ j \in 1 .. k - 1
      BY <1>2, <1>3, <2>2, <2>3, <3>2
    <3>3. CASE i \in 1 .. k - 1 /\ j \in k + 1 .. n + 1
      <4>1. i = j - 1
        BY <1>2, <1>3, <2>2, <2>3, <3>3
      <4> QED BY <1>1, <3>3, <4>1
    <3>4. CASE i \in k + 1 .. n + 1 /\ j \in 1 .. k - 1
      <4>1. j = i - 1
        BY <1>2, <1>3, <2>2, <2>3, <3>4
      <4> QED BY <1>1, <3>4, <4>1
    <3>5. CASE i \in k + 1 .. n + 1 /\ j \in k + 1 .. n + 1
      <4>1. i - 1 = j - 1
        BY <1>2, <1>3, <2>2, <2>3, <3>5
      <4> QED BY <1>1, <3>5, <4>1
    <3> QED BY <1>3, <3>1, <3>2, <3>3, <3>4, <3>5
  <2> QED BY <1>2, <2>3 DEF IsInjective
<1>6. ASSUME NEW s, NEW r, Before(o, s, r)
      PROVE  \/ Before(list, s, r)
             \/ r = x /\ \E i \in 1 .. k - 1 : list[i] = s
             \/ s = x /\ \E i \in k .. n : list[i] = r
  <2>1. PICK i \in 1 .. n + 1, j \in 1 .. n + 1 : i < j /\ o[i] = s /\ o[j] = r
    BY <1>2, <1>6 DEF Before
  <2>2. CASE j = k
    <3>1. i \in 1 .. k - 1
      BY <1>1, <2>1, <2>2
    <3> QED BY <1>2, <2>1, <2>2, <3>1
  <2>3. CASE i = k
    <3>1. j \in k + 1 .. n + 1
      BY <1>1, <2>1, <2>3
    <3> QED BY <1>2, <1>3, <2>1, <2>3, <3>1
  <2>4. CASE i \in 1 .. k - 1 /\ j \in 1 .. k - 1
    BY <1>1, <1>2, <1>3, <2>1, <2>4 DEF Before
  <2>5. CASE i \in 1 .. k - 1 /\ j \in k + 1 .. n + 1
    <3>1. i < j - 1 /\ i \in 1 .. n /\ j - 1 \in 1 .. n
      BY <1>1, <2>5
    <3> QED BY <1>1, <1>2, <2>1, <2>5, <3>1 DEF Before
  <2>6. CASE i \in k + 1 .. n + 1 /\ j \in k + 1 .. n + 1
    <3>1. i - 1 < j - 1 /\ i - 1 \in 1 .. n /\ j - 1 \in 1 .. n
      BY <1>1, <2>1, <2>6
    <3> QED BY <1>1, <1>2, <2>1, <2>6, <3>1 DEF Before
  <2>7. ~ (i \in k + 1 .. n + 1 /\ j \in 1 .. k - 1)
    BY <1>1, <2>1
  <2> QED BY <1>3, <2>2, <2>3, <2>4, <2>5, <2>6, <2>7
<1> QED BY <1>1, <1>2, <1>4, <1>5, <1>6 DEF o, n

LEMMA HeadFacts ==
  ASSUME NEW S, NEW list \in Seq(S), list # <<>>, IsInjective(list)
  PROVE  LET o == Tail(list) IN
         /\ Head(list) \in ToSet(list)
         /\ o \in Seq(S)
         /\ ToSet(o) = ToSet(list) \ {Head(list)}
         /\ IsInjective(o)
         /\ \A s, r : Before(o, s, r) => Before(list, s, r)
         /\ \A r \in ToSet(o) : Before(list, Head(list), r)
<1> DEFINE o == Tail(list)
           n == Len(list)
<1>1. /\ n \in Nat \ {0} /\ DOMAIN list = 1 .. n /\ Len(list) = n
      /\ o \in Seq(S) /\ Len(o) = n - 1 /\ DOMAIN o = 1 .. n - 1
      /\ Head(list) = list[1]
      /\ \A i \in 1 .. n - 1 : o[i] = list[i + 1]
  OBVIOUS
<1> HIDE DEF o, n
<1>2. /\ 1 \in 1 .. n
      /\ \A i \in 1 .. n - 1 : i + 1 \in 1 .. n /\ 1 < i + 1
      /\ \A i \in 1 .. n : i = 1 \/ (i - 1 \in 1 .. n - 1 /\ (i - 1) + 1 = i)
      /\ \A i, j \in 1 .. n - 1 : i < j => i + 1 < j + 1
      /\ \A i, j \in 1 .. n - 1 : i + 1 = j + 1 => i = j
  BY <1>1
<1>3. \A i, j \in 1 .. n : list[i] = list[j] => i = j
  BY <1>1 DEF IsInjective
<1>4. ToSet(o) = ToSet(list) \ {list[1]}
  <2>1. ASSUME NEW y \in ToSet(o) PROVE y \in ToSet(list) /\ y # list[1]
    <3>1. PICK i \in 1 .. n - 1 : y = list[i + 1]
      BY <1>1, <2>1 DEF ToSet
    <3>2. i + 1 \in 1 .. n /\ i + 1 # 1
      BY <1>1
    <3> QED BY <1>1, <1>2, <1>3, <3>1, <3>2 DEF ToSet
  <2>2. ASSUME NEW y \in ToSet(list), y # list[1] PROVE y \in ToSet(o)
    <3>1. PICK i \in 1 .. n : y = list[i]
      BY <1>1, <2>2 DEF ToSet
    <3>2. i - 1 \in 1 .. n - 1 /\ o[i - 1] = y
      BY <1>1, <1>2, <2>2, <3>1
    <3> QED BY <1>1, <3>2 DEF ToSet
  <2> QED BY <2>1, <2>2
<1>5. IsInjective(o)
  BY <1>1, <1>2, <1>3 DEF IsInjective
<1>6. ASSUME NEW s, NEW r, Before(o, s, r) PROVE Before(list, s, r)
  <2>1. PICK i \in 1 .. n - 1, j \in 1 .. n - 1 : i < j /\ o[i] = s /\ o[j] = r
    BY <1>1, <1>6 DEF Before
  <2> QED BY <1>1, <1>2, <2>1 DEF Before
<1>7. ASSUME NEW r \in ToSet(o) PROVE Before(list, list[1], r)
  <2>1. PICK i \in 1 .. n - 1 : r = list[i + 1]
    BY <1>1, <1>7 DEF ToSet
  <2> QED BY <1>1, <1>2, <2>1 DEF Before
<1>8. list[1] \in ToSet(list)
  BY <1>1, <1>2 DEF ToSet
<1> QED BY <1>1, <1>4, <1>5, <1>6, <1>7, <1>8 DEF o

-----------------------------------------------------------------------------
(* The clock. *)

LEMMA WrapOnce ==
  ASSUME NEW r \in Nat \ {0}, NEW n \in Nat, n < 2 * r
  PROVE  n % r = IF n < r THEN n ELSE n - r
<1> DEFINE m == n % r
           q == n \div r
<1>1. m \in Nat /\ m < r
  OBVIOUS
<1>2. n = r * q + m /\ q \in Nat
  OBVIOUS
<1>3. CASE q = 0
  <2>1. n = m
    BY <1>1, <1>2, <1>3
  <2> HIDE DEF m, q
  <2>2. n < r /\ m = n
    BY <1>1, <2>1
  <2> QED BY <2>2 DEF m
<1>4. CASE q = 1
  <2>1. n = r + m
    BY <1>1, <1>2, <1>4
  <2> HIDE DEF m, q
  <2>2. ~ n < r /\ m = n - r
    BY <1>1, <2>1
  <2> QED BY <2>2 DEF m
<1>5. CASE q # 0 /\ q # 1
  <2>1. r * 2 <= r * q /\ r * q \in Nat
    <3>1. 2 <= q /\ q \in Nat /\ r \in Nat
      BY <1>2, <1>5
    <3> HIDE DEF q
    <3> QED BY <3>1
  <2> DEFINE t == r * q
  <2>2. n = t + m /\ r * 2 <= t /\ t \in Nat
    BY <1>2, <2>1
  <2> HIDE DEF m, q, t
  <2> QED BY <1>1, <2>2
<1> QED BY <1>2, <1>3, <1>4, <1>5

Clock == 0 .. TickRange - 1

LEMMA RemainFacts ==
  ASSUME NEW t \in Timer, NEW now \in Clock
  PROVE  /\ RemainTime(t, now) = IF t.match >= now THEN t.match - now
                                 ELSE (t.match + TickRange) - now
         /\ RemainTime(t, now) \in Clock
         /\ RemainTime(t, now) = 0 <=> t.match = now
<1> DEFINE m == t.match
<1>1. m \in Clock /\ TickRange \in Nat \ {0}
  BY TimerAssumption DEF Timer, Clock
<1> HIDE DEF m
<1> DEFINE n == (m + TickRange) - now
<1>2. n \in Nat /\ n < 2 * TickRange /\ (n < TickRange <=> ~ m >= now)
  BY <1>1 DEF Clock
<1>3. n - TickRange = m - now
  BY <1>1 DEF Clock
<1> HIDE DEF n
<1>4. n % TickRange = IF m >= now THEN m - now ELSE n
  BY <1>1, <1>2, <1>3, WrapOnce
<1>5. RemainTime(t, now) = n % TickRange
  <2>1. m + TickRange - now = n
    BY <1>1 DEF n, Clock
  <2> QED BY <2>1 DEF RemainTime, m
<1>6. n % TickRange \in Clock /\ (n % TickRange = 0 <=> m = now)
  BY <1>1, <1>4 DEF n, Clock
<1> QED BY <1>4, <1>5, <1>6 DEF m, n

(* The ticks that remain of a timer that is not due: one less. *)
LEMMA TickFacts ==
  ASSUME NEW t \in Timer, NEW now \in Clock
  PROVE  LET then == (now + 1) % TickRange IN
         /\ then \in Clock
         /\ RemainTime(t, now) > 0 => RemainTime(t, then) = RemainTime(t, now) - 1
<1> DEFINE m == t.match
           then == (now + 1) % TickRange
<1>1. m \in Clock /\ TickRange \in Nat \ {0} /\ now \in Nat /\ now < TickRange
  BY TimerAssumption DEF Timer, Clock
<1>2. then = IF now + 1 < TickRange THEN now + 1 ELSE (now + 1) - TickRange
  <2>1. now + 1 \in Nat /\ now + 1 < 2 * TickRange
    BY <1>1
  <2> QED BY <1>1, <2>1, WrapOnce
<1> HIDE DEF m, then
<1>3. then \in Clock
  BY <1>1, <1>2 DEF Clock
<1>4. /\ RemainTime(t, now) = IF m >= now THEN m - now ELSE (m + TickRange) - now
      /\ RemainTime(t, then) = IF m >= then THEN m - then ELSE (m + TickRange) - then
  BY <1>3, RemainFacts DEF m
<1> DEFINE a == RemainTime(t, now)
           b == RemainTime(t, then)
<1> HIDE DEF a, b
<1>5. a > 0 => b = a - 1
  <2>1. /\ a = IF m >= now THEN m - now ELSE (m + TickRange) - now
        /\ b = IF m >= then THEN m - then ELSE (m + TickRange) - then
    BY <1>4 DEF a, b
  <2> QED BY <1>1, <1>2, <1>3, <2>1 DEF Clock
<1> QED BY <1>3, <1>5 DEF a, b, then

(* A timer set to come after some ticks has them left. *)
LEMMA SetFacts ==
  ASSUME NEW t \in Timer, NEW now \in Clock, NEW delay \in Clock,
         t.match = (now + delay) % TickRange
  PROVE  RemainTime(t, now) = delay
<1>1. /\ TickRange \in Nat \ {0} /\ now \in Nat /\ now < TickRange
      /\ delay \in Nat /\ delay < TickRange
  BY TimerAssumption DEF Clock
<1> DEFINE m == t.match
<1>2. m = IF now + delay < TickRange THEN now + delay ELSE (now + delay) - TickRange
  <2>1. now + delay \in Nat /\ now + delay < 2 * TickRange
    BY <1>1
  <2> QED BY <1>1, <2>1, WrapOnce
<1>3. RemainTime(t, now) = IF m >= now THEN m - now ELSE (m + TickRange) - now
  BY RemainFacts
<1> HIDE DEF m
<1> QED BY <1>1, <1>2, <1>3

LEMMA IndexFacts ==
  ASSUME NEW m \in Clock
  PROVE  IndexOf(m) \in Index
<1>1. m \in Nat /\ MSG_TIMER_TABLE_SIZE \in Nat \ {0}
  BY TimerAssumption DEF Clock
<1>2. m % MSG_TIMER_TABLE_SIZE \in 0 .. MSG_TIMER_TABLE_SIZE - 1
  BY <1>1
<1> QED BY <1>2 DEF IndexOf, Index

-----------------------------------------------------------------------------
(* The timers of a pool in the table, in the lists of the processes and in *)
(* the order in which they were set.                                       *)

Pool == [Slot -> Timer \cup {NoTimer}]

ArmedIn(pl) == {s \in Slot : pl[s] # NoTimer}

(* Each in the table once, at the index of its TimeMatch. *)
InTable(pl, tb) ==
  \A i \in Index :
    /\ IsInjective(tb[i])
    /\ ToSet(tb[i]) = {s \in ArmedIn(pl) : IndexOf(pl[s].match) = i}

(* Each once among those that were set. *)
InOrder(pl, st) == IsInjective(st) /\ ToSet(st) = ArmedIn(pl)

(* A list of the table has the timers with the fewest ticks left first, of *)
(* those with as many the one that was set first.                          *)
Sorted(pl, tb, st, now) ==
  \A i \in Index, s, r \in Slot :
    Before(tb[i], s, r) =>
      /\ RemainTime(pl[s], now) <= RemainTime(pl[r], now)
      /\ RemainTime(pl[s], now) = RemainTime(pl[r], now) => Before(st, s, r)

Hashed(pl, tb, st, now) ==
  /\ pl \in Pool
  /\ tb \in [Index -> Seq(Slot)]
  /\ st \in Seq(Slot)
  /\ InTable(pl, tb)
  /\ InOrder(pl, st)
  /\ Sorted(pl, tb, st, now)

(* Each once in the list of its process. *)
Listing(pl, ls) ==
  /\ ls \in [Process -> Seq(Slot)]
  /\ \A p \in Process :
       /\ IsInjective(ls[p])
       /\ ToSet(ls[p]) = {s \in ArmedIn(pl) : pl[s].p = p}

LEMMA ArmedFacts ==
  ASSUME NEW pl \in Pool
  PROVE  \A s \in ArmedIn(pl) : s \in Slot /\ pl[s] \in Timer
BY DEF Pool, ArmedIn

LEMMA NotArmed ==
  ASSUME NEW pl \in Pool, NEW s \in Slot
  PROVE  ArmedIn([pl EXCEPT ![s] = NoTimer]) = ArmedIn(pl) \ {s}
BY DEF Pool, ArmedIn

LEMMA NowArmed ==
  ASSUME NEW pl \in Pool, NEW s \in Slot, NEW t \in Timer
  PROVE  /\ [pl EXCEPT ![s] = t] \in Pool
         /\ ArmedIn([pl EXCEPT ![s] = t]) = ArmedIn(pl) \cup {s}
BY NullAssumption DEF Pool, ArmedIn

(* The place that InsertToTimerTable finds. *)
LEMMA PlaceFacts ==
  ASSUME NEW list \in Seq(Slot), NEW pl \in Pool, NEW s \in Slot, NEW now \in Clock,
         ToSet(list) \subseteq ArmedIn(pl), s \in ArmedIn(pl)
  PROVE  LET k == Place(list, pl, s, now)
             rest(i) == RemainTime(pl[list[i]], now) IN
         /\ k \in 1 .. Len(list) + 1
         /\ \A i \in 1 .. k - 1 : rest(i) <= RemainTime(pl[s], now)
         /\ k <= Len(list) => rest(k) > RemainTime(pl[s], now)
<1> DEFINE longer == {i \in 1 .. Len(list) :
                        RemainTime(pl[list[i]], now) > RemainTime(pl[s], now)}
           k == Place(list, pl, s, now)
           n == Len(list)
<1>1. n \in Nat /\ longer \subseteq 1 .. n
  OBVIOUS
<1>2. \A i \in 1 .. n : RemainTime(pl[list[i]], now) \in Clock
  <2>1. \A i \in 1 .. n : list[i] \in ArmedIn(pl)
    BY BeforeFacts
  <2> QED BY <2>1, ArmedFacts, RemainFacts
<1>3. RemainTime(pl[s], now) \in Clock
  BY ArmedFacts, RemainFacts
<1>4. \A i \in 1 .. n : i \notin longer => RemainTime(pl[list[i]], now) <= RemainTime(pl[s], now)
  BY <1>2, <1>3 DEF Clock
<1>5. \A i \in longer : RemainTime(pl[list[i]], now) > RemainTime(pl[s], now)
  OBVIOUS
<1>6. k = IF longer = {} THEN n + 1 ELSE CHOOSE i \in longer : \A j \in longer : i <= j
  BY DEF Place
<1> HIDE DEF longer, k, n
<1>7. CASE longer = {}
  BY <1>1, <1>4, <1>6, <1>7 DEF k, n
<1>8. CASE longer # {}
  <2>1. \E i \in longer : \A j \in longer : i <= j
    <3>1. longer \in SUBSET (1 .. n)
      BY <1>1
    <3> QED BY <1>1, <1>8, <3>1, LeastPlace
  <2>2. k \in longer /\ \A j \in longer : k <= j
    BY <1>6, <1>8, <2>1
  <2>3. k \in 1 .. n /\ \A i \in 1 .. k - 1 : i \in 1 .. n /\ i \notin longer
    BY <1>1, <2>2
  <2> QED BY <1>1, <1>4, <1>5, <2>2, <2>3 DEF k, n
<1> QED BY <1>7, <1>8

-----------------------------------------------------------------------------
(* Setting a timer. *)
LEMMA InsertHashed ==
  ASSUME NEW pl, NEW tb, NEW st, NEW now \in Clock, Hashed(pl, tb, st, now),
         NEW s \in Slot, s \notin ArmedIn(pl), NEW t \in Timer
  PROVE  LET pl2 == [pl EXCEPT ![s] = t] IN
         Hashed(pl2, InsertToTimerTable(tb, pl2, s, now), Append(st, s), now)
<1> DEFINE pl2 == [pl EXCEPT ![s] = t]
           i0 == IndexOf(t.match)
           k == Place(tb[i0], pl2, s, now)
           tb2 == InsertToTimerTable(tb, pl2, s, now)
           st2 == Append(st, s)
           rem(r) == RemainTime(pl2[r], now)
<1>1. /\ pl \in Pool /\ tb \in [Index -> Seq(Slot)] /\ st \in Seq(Slot)
      /\ InTable(pl, tb) /\ InOrder(pl, st) /\ Sorted(pl, tb, st, now)
  BY DEF Hashed
<1>2. /\ pl2 \in Pool
      /\ ArmedIn(pl2) = ArmedIn(pl) \cup {s}
      /\ pl2[s] = t
      /\ \A r \in ArmedIn(pl) : pl2[r] = pl[r] /\ r # s
  <2>1. \A r \in ArmedIn(pl) : pl2[r] = pl[r] /\ r # s
    BY <1>1 DEF Pool, ArmedIn
  <2>2. pl2[s] = t
    BY <1>1 DEF Pool
  <2> QED BY <1>1, <2>1, <2>2, NowArmed
<1>3. i0 \in Index
  BY IndexFacts DEF Timer, Clock
<1>4. tb2 = [tb EXCEPT ![i0] = InsertAt(tb[i0], k, s)]
  BY <1>2 DEF InsertToTimerTable
<1> HIDE DEF pl2, k, tb2, st2, i0
<1>5. /\ tb[i0] \in Seq(Slot) /\ IsInjective(tb[i0]) /\ ToSet(tb[i0]) \subseteq ArmedIn(pl)
  BY <1>1, <1>3 DEF InTable
<1>6. /\ k \in 1 .. Len(tb[i0]) + 1
      /\ \A j \in 1 .. k - 1 : rem(tb[i0][j]) <= rem(s)
      /\ k <= Len(tb[i0]) => rem(tb[i0][k]) > rem(s)
  BY <1>2, <1>5, PlaceFacts DEF k
<1> DEFINE o == InsertAt(tb[i0], k, s)
<1>7. /\ o \in Seq(Slot)
      /\ ToSet(o) = ToSet(tb[i0]) \cup {s}
      /\ IsInjective(o)
      /\ \A x, y : Before(o, x, y) =>
           \/ Before(tb[i0], x, y)
           \/ y = s /\ \E j \in 1 .. k - 1 : tb[i0][j] = x
           \/ x = s /\ \E j \in k .. Len(tb[i0]) : tb[i0][j] = y
  <2>1. s \notin ToSet(tb[i0])
    BY <1>2, <1>5
  <2> DEFINE list == tb[i0]
  <2>2. list \in Seq(Slot) /\ IsInjective(list) /\ k \in 1 .. Len(list) + 1 /\ s \notin ToSet(list)
    BY <1>5, <1>6, <2>1
  <2>3. o = InsertAt(list, k, s)
    OBVIOUS
  <2> HIDE DEF list, o
  <2>4. /\ o \in Seq(Slot)
        /\ ToSet(o) = ToSet(list) \cup {s}
        /\ IsInjective(o)
        /\ \A x, y : Before(o, x, y) =>
             \/ Before(list, x, y)
             \/ y = s /\ \E j \in 1 .. k - 1 : list[j] = x
             \/ x = s /\ \E j \in k .. Len(list) : list[j] = y
    BY <2>2, <2>3, InsertFacts
  <2> QED BY <2>4 DEF list
<1> HIDE DEF o
<1>8. tb2 \in [Index -> Seq(Slot)] /\ tb2[i0] = o /\ \A i \in Index \ {i0} : tb2[i] = tb[i]
  BY <1>1, <1>3, <1>4, <1>7 DEF o
<1>9. /\ st2 \in Seq(Slot)
      /\ ToSet(st2) = ToSet(st) \cup {s}
      /\ IsInjective(st2)
      /\ \A x, y : Before(st, x, y) => Before(st2, x, y)
      /\ \A x \in ToSet(st) : Before(st2, x, s)
  BY <1>1, AppendFacts DEF InOrder, st2
<1>10. InOrder(pl2, st2)
  BY <1>1, <1>2, <1>9 DEF InOrder
<1>11. InTable(pl2, tb2)
  <2> SUFFICES ASSUME NEW i \in Index
               PROVE  /\ IsInjective(tb2[i])
                      /\ ToSet(tb2[i]) = {r \in ArmedIn(pl2) : IndexOf(pl2[r].match) = i}
    BY DEF InTable
  <2>1. IsInjective(tb[i]) /\ ToSet(tb[i]) = {r \in ArmedIn(pl) : IndexOf(pl[r].match) = i}
    BY <1>1 DEF InTable
  <2>2. CASE i = i0
    BY <1>2, <1>7, <1>8, <2>1, <2>2 DEF i0
  <2>3. CASE i # i0
    BY <1>2, <1>8, <2>1, <2>3 DEF i0
  <2> QED BY <2>2, <2>3
<1>12. Sorted(pl2, tb2, st2, now)
  <2> SUFFICES ASSUME NEW i \in Index, NEW x \in Slot, NEW y \in Slot, Before(tb2[i], x, y)
               PROVE  rem(x) <= rem(y) /\ (rem(x) = rem(y) => Before(st2, x, y))
    BY DEF Sorted
  <2> HIDE DEF rem
  <2>1. ASSUME Before(tb[i], x, y)
        PROVE  rem(x) <= rem(y) /\ (rem(x) = rem(y) => Before(st2, x, y))
    <3>1. x \in ArmedIn(pl) /\ y \in ArmedIn(pl)
      BY <1>1, <2>1, BeforeFacts DEF InTable
    <3>2. rem(x) = RemainTime(pl[x], now) /\ rem(y) = RemainTime(pl[y], now)
      BY <1>2, <3>1 DEF rem
    <3> QED BY <1>1, <1>9, <2>1, <3>2 DEF Sorted
  <2>2. CASE Before(tb[i], x, y)
    BY <2>1, <2>2
  <2>3. CASE i = i0 /\ y = s /\ \E j \in 1 .. k - 1 : tb[i0][j] = x
    <3>1. PICK j \in 1 .. k - 1 : tb[i0][j] = x
      BY <2>3
    <3>2. j \in 1 .. Len(tb[i0])
      BY <1>5, <1>6
    <3>3. x \in ToSet(st)
      BY <1>1, <1>5, <3>1, <3>2, BeforeFacts DEF InOrder
    <3> QED BY <1>6, <1>9, <2>3, <3>1, <3>3
  <2>4. CASE i = i0 /\ x = s /\ \E j \in k .. Len(tb[i0]) : tb[i0][j] = y
    <3>1. PICK j \in k .. Len(tb[i0]) : tb[i0][j] = y
      BY <2>4
    <3>2. k \in 1 .. Len(tb[i0]) /\ j \in 1 .. Len(tb[i0]) /\ k <= Len(tb[i0])
      BY <1>5, <1>6
    <3> DEFINE z == tb[i0][k]
    <3>3. rem(z) > rem(x)
      BY <1>6, <2>4, <3>2
    <3>4. z \in ArmedIn(pl) /\ y \in ArmedIn(pl)
      BY <1>5, <3>1, <3>2, BeforeFacts
    <3>5. rem(z) <= rem(y)
      <4>1. CASE j = k
        <5>1. z = y /\ pl[y] \in Timer /\ rem(y) = RemainTime(pl[y], now)
          BY <1>1, <1>2, <3>1, <3>4, <4>1, ArmedFacts DEF rem
        <5>2. rem(y) \in Clock
          BY <5>1, RemainFacts
        <5> QED BY <5>1, <5>2 DEF Clock
      <4>2. CASE j # k
        <5>1. k < j
          BY <3>2, <4>2
        <5>2. Before(tb[i0], z, y)
          BY <3>1, <3>2, <5>1 DEF Before
        <5>3. RemainTime(pl[z], now) <= RemainTime(pl[y], now)
          BY <1>1, <1>3, <3>4, <5>2, ArmedFacts DEF Sorted
        <5> QED BY <1>2, <3>4, <5>3 DEF rem
      <4> QED BY <4>1, <4>2
    <3>6. rem(x) \in Nat /\ rem(y) \in Nat /\ rem(z) \in Nat
      <4>1. \A r \in ArmedIn(pl2) : rem(r) \in Nat
        BY <1>2, ArmedFacts, RemainFacts DEF rem, Clock
      <4> QED BY <1>2, <2>4, <3>4, <4>1
    <3> HIDE DEF z
    <3> QED BY <3>3, <3>5, <3>6
  <2> QED BY <1>7, <1>8, <2>2, <2>3, <2>4
<1> QED BY <1>2, <1>8, <1>9, <1>10, <1>11, <1>12 DEF Hashed, pl2, tb2, st2

-----------------------------------------------------------------------------
(* Cancelling the timers of D. *)
LEMMA CancelHashed ==
  ASSUME NEW pl, NEW tb, NEW st, NEW now \in Clock, Hashed(pl, tb, st, now), NEW D,
         NEW pl2, pl2 = [s \in Slot |-> IF s \in D THEN NoTimer ELSE pl[s]],
         NEW tb2, tb2 = [i \in Index |-> Removed(tb[i], D)]
  PROVE  /\ ArmedIn(pl2) = ArmedIn(pl) \ D
         /\ \A s \in ArmedIn(pl2) : pl2[s] = pl[s]
         /\ Hashed(pl2, tb2, Removed(st, D), now)
<1> DEFINE st2 == Removed(st, D)
<1>1. /\ pl \in Pool /\ tb \in [Index -> Seq(Slot)] /\ st \in Seq(Slot)
      /\ InTable(pl, tb) /\ InOrder(pl, st) /\ Sorted(pl, tb, st, now)
  BY DEF Hashed
<1>2. /\ pl2 \in Pool
      /\ ArmedIn(pl2) = ArmedIn(pl) \ D
      /\ \A r \in ArmedIn(pl2) : pl2[r] = pl[r]
  BY <1>1 DEF Pool, ArmedIn
<1>3. /\ st2 \in Seq(Slot)
      /\ ToSet(st2) = ToSet(st) \ D
      /\ IsInjective(st) => IsInjective(st2)
      /\ \A x, y : Before(st2, x, y) <=> Before(st, x, y) /\ x \notin D /\ y \notin D
  BY <1>1, RemovedFacts
<1>4. \A i \in Index :
        /\ tb2[i] \in Seq(Slot)
        /\ ToSet(tb2[i]) = ToSet(tb[i]) \ D
        /\ IsInjective(tb[i]) => IsInjective(tb2[i])
        /\ \A x, y : Before(tb2[i], x, y) <=> Before(tb[i], x, y) /\ x \notin D /\ y \notin D
  <2> SUFFICES ASSUME NEW i \in Index
               PROVE  /\ tb2[i] \in Seq(Slot)
                      /\ ToSet(tb2[i]) = ToSet(tb[i]) \ D
                      /\ IsInjective(tb[i]) => IsInjective(tb2[i])
                      /\ \A x, y : Before(tb2[i], x, y)
                                     <=> Before(tb[i], x, y) /\ x \notin D /\ y \notin D
    OBVIOUS
  <2>1. tb[i] \in Seq(Slot) /\ tb2[i] = Removed(tb[i], D)
    BY <1>1
  <2> QED BY <2>1, RemovedFacts
<1> HIDE DEF st2
<1>5. tb2 \in [Index -> Seq(Slot)]
  BY <1>4
<1>6. InOrder(pl2, st2)
  BY <1>1, <1>2, <1>3 DEF InOrder
<1>7. InTable(pl2, tb2)
  BY <1>1, <1>2, <1>4 DEF InTable
<1>8. Sorted(pl2, tb2, st2, now)
  <2> SUFFICES ASSUME NEW i \in Index, NEW x \in Slot, NEW y \in Slot, Before(tb2[i], x, y)
               PROVE  /\ RemainTime(pl2[x], now) <= RemainTime(pl2[y], now)
                      /\ RemainTime(pl2[x], now) = RemainTime(pl2[y], now) => Before(st2, x, y)
    BY DEF Sorted
  <2>1. x \in ArmedIn(pl2) /\ y \in ArmedIn(pl2)
    BY <1>4, <1>7, BeforeFacts DEF InTable
  <2> QED BY <1>1, <1>2, <1>3, <1>4, <2>1 DEF Sorted
<1> QED BY <1>2, <1>3, <1>5, <1>6, <1>7, <1>8 DEF Hashed, st2

(* A tick of which no timer is due changes no order. *)
LEMMA TickHashed ==
  ASSUME NEW pl, NEW tb, NEW st, NEW now \in Clock, Hashed(pl, tb, st, now),
         \A s \in ArmedIn(pl) : RemainTime(pl[s], now) > 0
  PROVE  Hashed(pl, tb, st, (now + 1) % TickRange)
<1> DEFINE then == (now + 1) % TickRange
<1>1. /\ pl \in Pool /\ tb \in [Index -> Seq(Slot)] /\ st \in Seq(Slot)
      /\ InTable(pl, tb) /\ InOrder(pl, st) /\ Sorted(pl, tb, st, now)
  BY DEF Hashed
<1>2. \A s \in ArmedIn(pl) : /\ RemainTime(pl[s], now) \in Nat
                             /\ RemainTime(pl[s], then) = RemainTime(pl[s], now) - 1
  BY <1>1, ArmedFacts, RemainFacts, TickFacts DEF Clock
<1> HIDE DEF then
<1>3. Sorted(pl, tb, st, then)
  <2> SUFFICES ASSUME NEW i \in Index, NEW x \in Slot, NEW y \in Slot, Before(tb[i], x, y)
               PROVE  /\ RemainTime(pl[x], then) <= RemainTime(pl[y], then)
                      /\ RemainTime(pl[x], then) = RemainTime(pl[y], then) => Before(st, x, y)
    BY DEF Sorted
  <2>1. x \in ArmedIn(pl) /\ y \in ArmedIn(pl)
    BY <1>1, BeforeFacts DEF InTable
  <2>2. /\ RemainTime(pl[x], now) <= RemainTime(pl[y], now)
        /\ RemainTime(pl[x], now) = RemainTime(pl[y], now) => Before(st, x, y)
    BY <1>1 DEF Sorted
  <2> QED BY <1>2, <2>1, <2>2
<1> QED BY <1>1, <1>3 DEF Hashed, then

-----------------------------------------------------------------------------
(* The lists of the processes. *)
LEMMA CancelListing ==
  ASSUME NEW pl \in Pool, NEW ls, Listing(pl, ls), NEW D,
         NEW pl2, pl2 = [s \in Slot |-> IF s \in D THEN NoTimer ELSE pl[s]],
         NEW ls2, ls2 = [p \in Process |-> Removed(ls[p], D)]
  PROVE  Listing(pl2, ls2)
<1>1. ArmedIn(pl2) = ArmedIn(pl) \ D /\ \A r \in ArmedIn(pl2) : pl2[r] = pl[r]
  BY DEF Pool, ArmedIn
<1>2. ASSUME NEW p \in Process
      PROVE  /\ ls2[p] \in Seq(Slot) /\ IsInjective(ls2[p])
             /\ ToSet(ls2[p]) = {s \in ArmedIn(pl2) : pl2[s].p = p}
  <2>1. /\ ls[p] \in Seq(Slot) /\ IsInjective(ls[p])
        /\ ToSet(ls[p]) = {s \in ArmedIn(pl) : pl[s].p = p}
    BY DEF Listing
  <2>2. ls2[p] = Removed(ls[p], D)
    OBVIOUS
  <2>3. /\ ls2[p] \in Seq(Slot) /\ IsInjective(ls2[p])
        /\ ToSet(ls2[p]) = ToSet(ls[p]) \ D
    BY <2>1, <2>2, RemovedFacts
  <2> QED BY <1>1, <2>1, <2>3
<1> QED BY <1>2 DEF Listing

LEMMA SetListing ==
  ASSUME NEW pl \in Pool, NEW ls, Listing(pl, ls),
         NEW s \in Slot, s \notin ArmedIn(pl), NEW t \in Timer
  PROVE  Listing([pl EXCEPT ![s] = t], [ls EXCEPT ![t.p] = Append(@, s)])
<1> DEFINE pl2 == [pl EXCEPT ![s] = t]
           ls2 == [ls EXCEPT ![t.p] = Append(@, s)]
<1>1. /\ ArmedIn(pl2) = ArmedIn(pl) \cup {s} /\ pl2[s] = t
      /\ \A r \in ArmedIn(pl) : r # s /\ pl2[r] = pl[r]
  <2>1. pl2[s] = t /\ \A r \in ArmedIn(pl) : r # s /\ pl2[r] = pl[r]
    BY DEF Pool, ArmedIn
  <2> QED BY <2>1, NowArmed
<1>2. t.p \in Process /\ ls \in [Process -> Seq(Slot)]
  BY DEF Timer, Listing
<1> HIDE DEF pl2
<1>3. ASSUME NEW p \in Process
      PROVE  /\ ls2[p] \in Seq(Slot) /\ IsInjective(ls2[p])
             /\ ToSet(ls2[p]) = {r \in ArmedIn(pl2) : pl2[r].p = p}
  <2>1. /\ ls[p] \in Seq(Slot) /\ IsInjective(ls[p])
        /\ ToSet(ls[p]) = {r \in ArmedIn(pl) : pl[r].p = p}
    BY DEF Listing
  <2>2. CASE p = t.p
    <3>1. ls2[p] = Append(ls[p], s)
      BY <1>2, <2>2
    <3>2. s \notin ToSet(ls[p])
      BY <2>1
    <3>3. /\ ls2[p] \in Seq(Slot) /\ IsInjective(ls2[p])
          /\ ToSet(ls2[p]) = ToSet(ls[p]) \cup {s}
      BY <2>1, <3>1, <3>2, AppendFacts
    <3> QED BY <1>1, <2>1, <2>2, <3>3
  <2>3. CASE p # t.p
    <3>1. ls2[p] = ls[p]
      BY <1>2, <2>3
    <3> QED BY <1>1, <2>1, <2>3, <3>1
  <2> QED BY <2>2, <2>3
<1>4. ls2 \in [Process -> Seq(Slot)]
  BY <1>2, <1>3
<1> QED BY <1>3, <1>4 DEF Listing, pl2

LEMMA FireListing ==
  ASSUME NEW pl \in Pool, NEW ls, Listing(pl, ls), NEW s \in ArmedIn(pl)
  PROVE  Listing([pl EXCEPT ![s] = NoTimer], [ls EXCEPT ![pl[s].p] = Removed(@, {s})])
<1> DEFINE pl2 == [pl EXCEPT ![s] = NoTimer]
           ls2 == [ls EXCEPT ![pl[s].p] = Removed(@, {s})]
<1>1. /\ s \in Slot /\ pl[s].p \in Process /\ ls \in [Process -> Seq(Slot)]
  BY ArmedFacts DEF Timer, Listing
<1>2. ArmedIn(pl2) = ArmedIn(pl) \ {s} /\ \A r \in ArmedIn(pl2) : pl2[r] = pl[r]
  <2>1. \A r \in Slot : r # s => pl2[r] = pl[r]
    BY <1>1 DEF Pool
  <2>2. ArmedIn(pl2) = ArmedIn(pl) \ {s}
    BY <1>1, NotArmed
  <2> QED BY <2>1, <2>2, ArmedFacts
<1> HIDE DEF pl2
<1>3. ASSUME NEW p \in Process
      PROVE  /\ ls2[p] \in Seq(Slot) /\ IsInjective(ls2[p])
             /\ ToSet(ls2[p]) = {r \in ArmedIn(pl2) : pl2[r].p = p}
  <2>1. /\ ls[p] \in Seq(Slot) /\ IsInjective(ls[p])
        /\ ToSet(ls[p]) = {r \in ArmedIn(pl) : pl[r].p = p}
    BY DEF Listing
  <2>2. CASE p = pl[s].p
    <3>1. ls2[p] = Removed(ls[p], {s})
      BY <1>1, <2>2
    <3>2. /\ ls2[p] \in Seq(Slot) /\ IsInjective(ls2[p])
          /\ ToSet(ls2[p]) = ToSet(ls[p]) \ {s}
      BY <2>1, <3>1, RemovedFacts
    <3> QED BY <1>2, <2>1, <2>2, <3>2
  <2>3. CASE p # pl[s].p
    <3>1. ls2[p] = ls[p]
      BY <1>1, <2>3
    <3> QED BY <1>2, <2>1, <2>3, <3>1
  <2> QED BY <2>2, <2>3
<1>4. ls2 \in [Process -> Seq(Slot)]
  BY <1>1, <1>3
<1> QED BY <1>3, <1>4 DEF Listing, pl2

-----------------------------------------------------------------------------
(***************************************************************************)
(* The invariant.  Nothing is due unless Msg_Run1ms is in its loop, and    *)
(* then no handler runs.                                                   *)
(***************************************************************************)
NoneDue == \A s \in ArmedIn(pool) : RemainTime(pool[s], TimerTick) > 0

Inv ==
  /\ TypeOK
  /\ firing => item = NoItem
  /\ ~ firing => NoneDue
  /\ Hashed(pool, MsgTimerTable, set, TimerTick)
  /\ Listing(pool, TimerList)
  /\ \A s \in ArmedIn(pool) : pool[s].p \in running

LEMMA InvListsAgree == Inv => ListsAgree
<1> SUFFICES ASSUME Inv PROVE ListsAgree
  OBVIOUS
<1>1. Armed = ArmedIn(pool)
  BY DEF Armed, ArmedIn
<1>2. ASSUME NEW p \in Process
      PROVE  /\ IsInjective(TimerList[p])
             /\ ToSet(TimerList[p]) = {s \in Armed : pool[s].p = p}
             /\ p \notin running => TimerList[p] = <<>>
  <2>1. /\ TimerList[p] \in Seq(Slot) /\ IsInjective(TimerList[p])
        /\ ToSet(TimerList[p]) = {s \in ArmedIn(pool) : pool[s].p = p}
    BY DEF Inv, Listing
  <2>2. ASSUME p \notin running, TimerList[p] # <<>> PROVE FALSE
    <3>1. Head(TimerList[p]) \in ToSet(TimerList[p])
      BY <2>1, <2>2, HeadFacts
    <3> QED BY <2>1, <2>2, <3>1 DEF Inv
  <2> QED BY <1>1, <2>1, <2>2
<1> QED BY <1>1, <1>2 DEF ListsAgree, Inv, Hashed, InTable

LEMMA InvInit == Init => Inv
<1> SUFFICES ASSUME Init PROVE Inv
  OBVIOUS
<1>1. /\ TickRange \in Nat \ {0} /\ TASK_ITEM_NUM \in Nat \ {0} /\ <<>> \in Seq(Slot)
      /\ <<>> \in Seq(Item) /\ Len(<<>>) = 0
  BY TimerAssumption
<1>2. TypeOK
  <2>1. TimerTick \in 0 .. TickRange - 1
    BY <1>1 DEF Init
  <2>4. firing \in BOOLEAN /\ lost \in BOOLEAN
    BY DEF Init
  <2>2. /\ pool \in [Slot -> Timer \cup {NoTimer}]
        /\ MsgTimerTable \in [Index -> Seq(Slot)]
        /\ TimerList \in [Process -> Seq(Slot)]
        /\ running \in SUBSET Process /\ heap \in SUBSET Arg
    BY <1>1 DEF Init
  <2>3. /\ TaskList \in Seq(Item) /\ item \in Item \cup {NoItem} /\ set \in Seq(Slot)
        /\ Len(TaskList) + (IF item = NoItem THEN 0 ELSE 1) <= TASK_ITEM_NUM
    BY <1>1 DEF Init
  <2> QED BY <2>1, <2>2, <2>3, <2>4 DEF TypeOK
<1>3. pool \in Pool /\ ArmedIn(pool) = {}
  BY DEF Init, Pool, ArmedIn
<1>4. Hashed(pool, MsgTimerTable, set, TimerTick)
  <2>1. MsgTimerTable \in [Index -> Seq(Slot)] /\ set \in Seq(Slot)
    BY <1>2 DEF TypeOK
  <2>2. \A i \in Index : MsgTimerTable[i] = <<>>
    BY DEF Init
  <2>3. InTable(pool, MsgTimerTable)
    BY <1>3, <2>2, EmptyFacts DEF InTable
  <2>4. InOrder(pool, set)
    BY <1>3, EmptyFacts DEF InOrder, Init
  <2>5. Sorted(pool, MsgTimerTable, set, TimerTick)
    BY <2>2, EmptyFacts DEF Sorted
  <2> QED BY <1>3, <2>1, <2>3, <2>4, <2>5 DEF Hashed
<1>5. Listing(pool, TimerList)
  <2>1. TimerList \in [Process -> Seq(Slot)]
    BY <1>2 DEF TypeOK
  <2>2. \A p \in Process : TimerList[p] = <<>>
    BY DEF Init
  <2> QED BY <1>3, <2>1, <2>2, EmptyFacts DEF Listing
<1> QED BY <1>2, <1>3, <1>4, <1>5 DEF Inv, Init, NoneDue

-----------------------------------------------------------------------------
(* What cancelling leaves. *)
LEMMA CancelledFacts ==
  ASSUME Inv, NEW D
  PROVE  LET k == Cancelled(D) IN
         /\ k.pool \in Pool
         /\ ArmedIn(k.pool) = ArmedIn(pool) \ D
         /\ \A s \in ArmedIn(k.pool) : k.pool[s] = pool[s]
         /\ Hashed(k.pool, k.table, k.set, TimerTick)
         /\ Listing(k.pool, k.lists)
         /\ k.heap = heap \ Arguments(D)
<1> DEFINE k == Cancelled(D)
<1>1. /\ k.pool = [s \in Slot |-> IF s \in D THEN NoTimer ELSE pool[s]]
      /\ k.table = [i \in Index |-> Removed(MsgTimerTable[i], D)]
      /\ k.lists = [p \in Process |-> Removed(TimerList[p], D)]
      /\ k.set = Removed(set, D)
      /\ k.heap = heap \ Arguments(D)
  BY DEF Cancelled
<1> HIDE DEF k
<1>2. /\ TimerTick \in Clock /\ pool \in Pool
      /\ Hashed(pool, MsgTimerTable, set, TimerTick)
      /\ Listing(pool, TimerList)
  BY DEF Inv, TypeOK, Clock, Pool
<1>3. /\ ArmedIn(k.pool) = ArmedIn(pool) \ D
      /\ \A s \in ArmedIn(k.pool) : k.pool[s] = pool[s]
      /\ Hashed(k.pool, k.table, k.set, TimerTick)
  BY <1>1, <1>2, CancelHashed
<1>4. Listing(k.pool, k.lists)
  BY <1>1, <1>2, CancelListing
<1> QED BY <1>1, <1>3, <1>4 DEF k, Hashed

LEMMA BlankFacts ==
  ASSUME TaskList \in Seq(Item), NEW p, NEW ids
  PROVE  LET q == DTask_Blank(p, ids) IN
         /\ q \in Seq(Item)
         /\ Len(q) = Len(TaskList)
         /\ \A i \in 1 .. Len(TaskList) : q[i].arg = TaskList[i].arg
<1> DEFINE q == DTask_Blank(p, ids)
           n == Len(TaskList)
<1>1. n \in Nat /\ \A i \in 1 .. n : TaskList[i] \in Item
  OBVIOUS
<1>2. ASSUME NEW e \in Item
      PROVE  [e EXCEPT !.id = SYS_MSG_NONE] \in Item /\ [e EXCEPT !.id = SYS_MSG_NONE].arg = e.arg
  BY DEF Item
<1>3. ASSUME NEW i \in 1 .. n
      PROVE  q[i] \in Item /\ q[i].arg = TaskList[i].arg
  BY <1>1, <1>2 DEF DTask_Blank
<1>4. q = [i \in 1 .. n |-> q[i]]
  BY DEF DTask_Blank
<1> HIDE DEF q, n
<1>5. q \in Seq(Item) /\ Len(q) = n
  BY <1>1, <1>3, <1>4
<1> QED BY <1>3, <1>5 DEF q, n

LEMMA AllocateFacts ==
  ASSUME NEW pl \in Pool, FreeSlots(pl) # {}
  PROVE  AllocateTimer(pl) \in Slot /\ AllocateTimer(pl) \notin ArmedIn(pl)
<1> DEFINE F == FreeSlots(pl)
<1>1. MSG_TIMER_NUM \in Nat /\ F \in SUBSET (1 .. MSG_TIMER_NUM)
  BY TimerAssumption DEF FreeSlots, Slot
<1>2. \E s \in F : \A r \in F : s <= r
  <2> HIDE DEF F
  <2>1. F # {}
    BY DEF F
  <2> QED BY <1>1, <2>1, LeastPlace
<1>3. AllocateTimer(pl) \in F
  BY <1>2 DEF AllocateTimer
<1> QED BY <1>3 DEF FreeSlots, ArmedIn

-----------------------------------------------------------------------------
(* The calls. *)

(* What a call that sets no timer leaves: the timers are some of those in  *)
(* use before, and the queue has room for the item in hand.                *)
LEMMA CallInv ==
  ASSUME Inv, ~ firing,
         NEW D, LET k == Cancelled(D) IN
                  pool' = k.pool /\ MsgTimerTable' = k.table /\ TimerList' = k.lists /\ set' = k.set,
         heap' \in SUBSET Arg,
         TaskList' \in Seq(Item),
         Len(TaskList') + (IF item = NoItem THEN 0 ELSE 1) <= TASK_ITEM_NUM,
         running' \in SUBSET Process,
         \A s \in ArmedIn(pool) \ D : pool[s].p \in running',
         UNCHANGED <<TimerTick, firing, item, lost>>
  PROVE  Inv'
<1>1. /\ pool' \in Pool
      /\ ArmedIn(pool') = ArmedIn(pool) \ D
      /\ \A s \in ArmedIn(pool') : pool'[s] = pool[s]
      /\ Hashed(pool', MsgTimerTable', set', TimerTick)
      /\ Listing(pool', TimerList')
  BY CancelledFacts
<1>2. TypeOK'
  BY <1>1 DEF Inv, TypeOK, Hashed, Listing, Pool
<1>3. NoneDue'
  BY <1>1 DEF Inv, NoneDue
<1>4. \A s \in ArmedIn(pool') : pool'[s].p \in running'
  BY <1>1
<1> QED BY <1>1, <1>2, <1>3, <1>4 DEF Inv

(* Room for one item more. *)
LEMMA RoomFacts ==
  ASSUME NEW q \in Seq(Item), NEW e \in Item, ~ TaskPoolFull(q), TypeOK
  PROVE  /\ Append(q, e) \in Seq(Item)
         /\ Len(Append(q, e)) + (IF item = NoItem THEN 0 ELSE 1) <= TASK_ITEM_NUM
<1> DEFINE n == Len(q)
           m == Len(Append(q, e))
<1>1. n \in Nat /\ m = n + 1 /\ Append(q, e) \in Seq(Item) /\ TASK_ITEM_NUM \in Nat
  BY TimerAssumption
<1>2. ~ n + (IF item = NoItem THEN 0 ELSE 1) >= TASK_ITEM_NUM
  BY DEF TaskPoolFull
<1> HIDE DEF n, m
<1>3. m + (IF item = NoItem THEN 0 ELSE 1) <= TASK_ITEM_NUM
  BY <1>1, <1>2
<1> QED BY <1>1, <1>3 DEF m

LEMMA SendInv ==
  ASSUME Inv, ~ firing, NEW p \in running, NEW id \in MsgId, NEW arg \in Arg \cup {NoArg},
         NEW delay \in Clock, NEW period \in Period, NEW D,
         NEW q \in Seq(Item), Len(q) = Len(TaskList),
         Send(p, id, arg, delay, period, Cancelled(D), q)
  PROVE  Inv'
<1> DEFINE k == Cancelled(D)
<1>1. /\ k.pool \in Pool
      /\ ArmedIn(k.pool) = ArmedIn(pool) \ D
      /\ \A s \in ArmedIn(k.pool) : k.pool[s] = pool[s]
      /\ Hashed(k.pool, k.table, k.set, TimerTick)
      /\ Listing(k.pool, k.lists)
      /\ k.heap = heap \ Arguments(D)
  BY CancelledFacts
<1>2. UNCHANGED <<TimerTick, firing, running, item, lost>>
  BY DEF Send
<1>3. /\ p \in Process /\ running \in SUBSET Process
      /\ k.heap \in SUBSET Arg /\ k.heap \cup ({arg} \ {NoArg}) \in SUBSET Arg
      /\ Len(q) + (IF item = NoItem THEN 0 ELSE 1) <= TASK_ITEM_NUM
      /\ TimerTick \in Clock
  BY <1>1 DEF Inv, TypeOK, Clock
<1>4. \A s \in ArmedIn(pool) \ D : pool[s].p \in running'
  BY <1>2 DEF Inv
<1>5. CASE delay = 0
  <2>1. /\ pool' = k.pool /\ MsgTimerTable' = k.table /\ TimerList' = k.lists /\ set' = k.set
        /\ heap' \in SUBSET Arg
    BY <1>3, <1>5 DEF Send
  <2>2. /\ TaskList' \in Seq(Item)
        /\ Len(TaskList') + (IF item = NoItem THEN 0 ELSE 1) <= TASK_ITEM_NUM
    <3>1. CASE TaskPoolFull(q)
      BY <1>3, <1>5, <3>1 DEF Send
    <3>2. CASE ~ TaskPoolFull(q)
      <4> DEFINE e == [p |-> p, id |-> id, arg |-> arg]
      <4>1. e \in Item
        BY <1>3 DEF Item
      <4>2. TaskList' = Append(q, e)
        BY <1>5, <3>2 DEF Send
      <4> HIDE DEF e
      <4> QED BY <3>2, <4>1, <4>2, RoomFacts DEF Inv
    <3> QED BY <3>1, <3>2
  <2> QED BY <1>2, <1>3, <1>4, <2>1, <2>2, CallInv
<1>6. CASE delay # 0 /\ FreeSlots(k.pool) = {}
  <2>1. /\ pool' = k.pool /\ MsgTimerTable' = k.table /\ TimerList' = k.lists /\ set' = k.set
        /\ heap' \in SUBSET Arg /\ TaskList' = q
    BY <1>3, <1>6 DEF Send
  <2> QED BY <1>2, <1>3, <1>4, <2>1, CallInv
<1>7. CASE delay # 0 /\ FreeSlots(k.pool) # {}
  <2> DEFINE s == AllocateTimer(k.pool)
             t == [p |-> p, id |-> id, arg |-> arg, period |-> period,
                   match |-> (TimerTick + delay) % TickRange]
  <2>1. s \in Slot /\ s \notin ArmedIn(k.pool)
    BY <1>1, <1>7, AllocateFacts
  <2>2. t \in Timer /\ t.match = (TimerTick + delay) % TickRange /\ t.p = p
    <3>1. (TimerTick + delay) % TickRange \in 0 .. TickRange - 1
      BY <1>3, TimerAssumption DEF Clock
    <3> QED BY <1>3, <3>1 DEF Timer
  <2>3. /\ TaskList' = q
        /\ heap' = k.heap \cup ({arg} \ {NoArg})
        /\ pool' = [k.pool EXCEPT ![s] = t]
        /\ MsgTimerTable' = InsertToTimerTable(k.table, pool', s, TimerTick)
        /\ TimerList' = [k.lists EXCEPT ![p] = Append(@, s)]
        /\ set' = Append(k.set, s)
    BY <1>7 DEF Send
  <2> HIDE DEF s, t, k
  <2>4. Hashed(pool', MsgTimerTable', set', TimerTick)
    BY <1>1, <1>3, <2>1, <2>2, <2>3, InsertHashed
  <2>5. Listing(pool', TimerList')
    BY <1>1, <2>1, <2>2, <2>3, SetListing
  <2>6. RemainTime(t, TimerTick) > 0
    <3>1. RemainTime(t, TimerTick) = delay
      BY <1>3, <2>2, SetFacts
    <3> QED BY <1>7, <3>1 DEF Clock
  <2>7. /\ ArmedIn(pool') = ArmedIn(k.pool) \cup {s} /\ pool'[s] = t
        /\ \A r \in ArmedIn(k.pool) : pool'[r] = pool[r]
    <3>1. pool'[s] = t /\ \A r \in ArmedIn(k.pool) : pool'[r] = k.pool[r]
      BY <1>1, <2>1, <2>3 DEF Pool, ArmedIn
    <3> QED BY <1>1, <2>1, <2>2, <2>3, <3>1, NowArmed
  <2>8. TypeOK'
    BY <1>2, <1>3, <2>3, <2>4, <2>5 DEF Inv, TypeOK, Hashed, Listing, Pool
  <2>9. NoneDue'
    BY <1>1, <1>2, <2>6, <2>7 DEF Inv, NoneDue
  <2>10. \A r \in ArmedIn(pool') : pool'[r].p \in running'
    BY <1>1, <1>2, <2>2, <2>7 DEF Inv
  <2> QED BY <1>2, <2>4, <2>5, <2>8, <2>9, <2>10 DEF Inv
<1> QED BY <1>5, <1>6, <1>7

LEMMA CallsInv == Inv /\ Calls => Inv'
<1>0. Delay \subseteq Clock /\ Period \subseteq Clock /\ 0 \in Period
  BY TimerAssumption DEF Clock
<1>q. ASSUME Inv, NEW p, NEW ids
      PROVE  /\ DTask_Blank(p, ids) \in Seq(Item)
             /\ Len(DTask_Blank(p, ids)) = Len(TaskList)
             /\ TaskList \in Seq(Item)
             /\ Len(TaskList) + (IF item = NoItem THEN 0 ELSE 1) <= TASK_ITEM_NUM
             /\ running \in SUBSET Process /\ heap \in SUBSET Arg
  BY <1>q, BlankFacts DEF Inv, TypeOK
<1>1. ASSUME Inv, NEW p \in Process, NEW id \in MsgId, NEW arg \in Arg \cup {NoArg},
             NEW delay \in Clock, NEW period \in Period,
             Msg_Send(p, id, arg, delay, period)
      PROVE  Inv'
  <2>1. /\ ~ firing /\ p \in running
        /\ Send(p, id, arg, delay, period, Cancelled({}), TaskList)
    BY <1>1 DEF Msg_Send, Callable
  <2> QED BY <1>1, <1>q, <2>1, SendInv
<1>2. ASSUME Inv, NEW p \in Process, NEW id \in MsgId, NEW arg \in Arg \cup {NoArg},
             NEW delay \in Clock, NEW period \in Period,
             Msg_ReSend(p, id, arg, delay, period)
      PROVE  Inv'
  <2>1. /\ ~ firing /\ p \in running
        /\ Send(p, id, arg, delay, period, Cancelled(Listed(p, {id})), DTask_Blank(p, {id}))
    BY <1>2 DEF Msg_ReSend, Callable
  <2> QED BY <1>2, <1>q, <2>1, SendInv
<1>3. ASSUME Inv, NEW p \in Process, NEW id \in MsgId, Msg_CancelAll(p, id) PROVE Inv'
  <2> DEFINE D == Listed(p, {id})
             k == Cancelled(D)
  <2>1. /\ pool' = k.pool /\ MsgTimerTable' = k.table /\ TimerList' = k.lists /\ set' = k.set
        /\ heap' = k.heap /\ k.heap = heap \ Arguments(D)
        /\ TaskList' = DTask_Blank(p, {id}) /\ ~ firing
        /\ UNCHANGED <<TimerTick, firing, running, item, lost>>
    BY <1>3 DEF Msg_CancelAll, Cancel, Cancelled, Callable
  <2>2. \A s \in ArmedIn(pool) \ D : pool[s].p \in running'
    BY <1>3, <2>1 DEF Inv
  <2> QED BY <1>3, <1>q, <2>1, <2>2, CallInv
<1>4. ASSUME Inv, NEW p \in Process, NEW id \in MsgId, Msg_CancelFirst(p, id) PROVE Inv'
  <2>1. PICK i \in 1 .. Len(TimerList[p]) : Cancel({TimerList[p][i]})
    BY <1>4 DEF Msg_CancelFirst
  <2> DEFINE D == {TimerList[p][i]}
             k == Cancelled(D)
  <2>2. /\ pool' = k.pool /\ MsgTimerTable' = k.table /\ TimerList' = k.lists /\ set' = k.set
        /\ heap' = k.heap /\ k.heap = heap \ Arguments(D)
    BY <2>1 DEF Cancel, Cancelled
  <2>3. ~ firing /\ UNCHANGED <<TimerTick, firing, running, TaskList, item, lost>>
    BY <1>4 DEF Msg_CancelFirst, Callable
  <2>4. \A s \in ArmedIn(pool) \ D : pool[s].p \in running'
    BY <1>4, <2>3 DEF Inv
  <2> HIDE DEF D
  <2> QED BY <1>4, <1>q, <2>2, <2>3, <2>4, CallInv
<1>5. ASSUME Inv, NEW p \in Process, Process_Start(p) PROVE Inv'
  <2>1. /\ UNCHANGED <<TimerTick, firing, pool, MsgTimerTable, TaskList, item, heap, set, lost>>
        /\ running' = running \cup {p} /\ p \notin running
        /\ TimerList' = [TimerList EXCEPT ![p] = <<>>]
    BY <1>5 DEF Process_Start
  <2>2. TimerList[p] = <<>> /\ TimerList \in [Process -> Seq(Slot)]
    BY <1>5, <2>1, InvListsAgree DEF ListsAgree, TypeOK
  <2>3. TimerList' = TimerList
    BY <2>1, <2>2
  <2> QED BY <1>5, <2>1, <2>3 DEF Inv, TypeOK, NoneDue
<1>6. ASSUME Inv, NEW p \in Process, Process_Exit(p) PROVE Inv'
  <2> DEFINE D == Listed(p, MsgId)
             k == Cancelled(D)
  <2>1. /\ pool' = k.pool /\ MsgTimerTable' = k.table /\ TimerList' = k.lists /\ set' = k.set
        /\ heap' = k.heap /\ k.heap = heap \ Arguments(D)
        /\ TaskList' = DTask_Blank(p, MsgId) /\ ~ firing
        /\ running' = running \ {p}
        /\ UNCHANGED <<TimerTick, firing, item, lost>>
    BY <1>6 DEF Process_Exit, Cancel, Cancelled, Callable
  <2>2. \A s \in ArmedIn(pool) \ D : pool[s].p \in running'
    <3> SUFFICES ASSUME NEW s \in ArmedIn(pool), s \notin D PROVE pool[s].p \in running \ {p}
      BY <2>1
    <3>1. pool[s].p \in running
      BY <1>6 DEF Inv
    <3>2. pool[s].id \in MsgId
      BY <1>6, ArmedFacts DEF Inv, Hashed, Timer
    <3>3. pool[s].p = p => s \in ToSet(TimerList[p])
      BY <1>6 DEF Inv, Listing
    <3> QED BY <3>1, <3>2, <3>3 DEF Listed
  <2>3. running' \in SUBSET Process
    BY <1>6, <1>q, <2>1
  <2> QED BY <1>6, <1>q, <2>1, <2>2, <2>3, CallInv
<1>7. ASSUME Inv, NEW p \in Process, NEW id \in MsgId, NEW arg \in Arg \cup {NoArg},
             \/ \E delay \in Delay :
                  Msg_Send(p, id, arg, delay, 0) \/ Msg_ReSend(p, id, arg, delay, 0)
             \/ \E period \in Period \ {0} :
                  Msg_Send(p, id, arg, period, period) \/ Msg_ReSend(p, id, arg, period, period)
      PROVE  Inv'
  BY <1>0, <1>1, <1>2, <1>7
<1> QED BY <1>3, <1>4, <1>5, <1>6, <1>7 DEF Calls

-----------------------------------------------------------------------------
(* The queue. *)

LEMMA RunInv == Inv /\ DTask_Run => Inv'
<1>1. ASSUME Inv, TaskList # <<>>, TaskList' = Tail(TaskList),
             item' = item \/ (item = NoItem /\ item' = Head(TaskList)), heap' \in SUBSET Arg,
             ~ firing,
             UNCHANGED <<TimerTick, firing, pool, MsgTimerTable, TimerList, running, set, lost>>
      PROVE  Inv'
  <2> DEFINE n == Len(TaskList)
             m == Len(Tail(TaskList))
  <2>1. /\ TaskList \in Seq(Item) /\ n \in Nat
        /\ n + (IF item = NoItem THEN 0 ELSE 1) <= TASK_ITEM_NUM
        /\ item \in Item \cup {NoItem}
    BY <1>1 DEF Inv, TypeOK
  <2>2. m = n - 1 /\ Tail(TaskList) \in Seq(Item) /\ Head(TaskList) \in Item /\ m \in Nat
    BY <1>1, <2>1
  <2> HIDE DEF n, m
  <2>3. m + (IF item' = NoItem THEN 0 ELSE 1) <= TASK_ITEM_NUM
    BY <1>1, <2>1, <2>2, TimerAssumption
  <2>4. TypeOK'
    BY <1>1, <2>1, <2>2, <2>3 DEF Inv, TypeOK, m
  <2> QED BY <1>1, <2>4 DEF Inv, NoneDue
<1>2. ASSUME Inv, DropItem PROVE Inv'
  <2>1. heap' \in SUBSET Arg
    BY <1>2 DEF DropItem, Freed, Inv, TypeOK
  <2> QED BY <1>1, <1>2, <2>1 DEF DropItem
<1>3. ASSUME Inv, CallHandler PROVE Inv'
  <2>1. heap' \in SUBSET Arg
    BY <1>3 DEF CallHandler, Inv, TypeOK
  <2> QED BY <1>1, <1>3, <2>1 DEF CallHandler
<1>4. ASSUME Inv, HandlerReturns PROVE Inv'
  <2>1. /\ item' = NoItem
        /\ heap' = heap \ {item.arg}
        /\ UNCHANGED <<TimerTick, firing, pool, MsgTimerTable, TimerList, running, TaskList,
                       set, lost>>
    BY <1>4 DEF HandlerReturns, Freed
  <2>2. Len(TaskList) + 0 <= TASK_ITEM_NUM
    <3> DEFINE n == Len(TaskList)
    <3>1. n \in Nat /\ n + (IF item = NoItem THEN 0 ELSE 1) <= TASK_ITEM_NUM /\ TASK_ITEM_NUM \in Nat
      BY <1>4, TimerAssumption DEF Inv, TypeOK
    <3> HIDE DEF n
    <3>2. n + 0 <= TASK_ITEM_NUM
      BY <3>1
    <3> QED BY <3>2 DEF n
  <2>3. TypeOK'
    BY <1>4, <2>1, <2>2 DEF Inv, TypeOK
  <2> QED BY <1>4, <2>1, <2>3 DEF Inv, NoneDue
<1> QED BY <1>2, <1>3, <1>4 DEF DTask_Run

-----------------------------------------------------------------------------
(* The clock and the loop of Msg_Run1ms. *)

LEMMA TickInv == Inv /\ Msg_Run1ms => Inv'
<1> SUFFICES ASSUME Inv, Msg_Run1ms PROVE Inv'
  OBVIOUS
<1>1. /\ ~ firing /\ item = NoItem /\ firing' = TRUE
      /\ TimerTick' = (TimerTick + 1) % TickRange
      /\ UNCHANGED <<pool, MsgTimerTable, TimerList, running, TaskList, item, heap, set, lost>>
  BY DEF Msg_Run1ms
<1>2. TimerTick \in Clock /\ Hashed(pool, MsgTimerTable, set, TimerTick) /\ NoneDue
  BY <1>1 DEF Inv, TypeOK, Clock
<1>3. Hashed(pool, MsgTimerTable, set, TimerTick')
  BY <1>1, <1>2, TickHashed DEF NoneDue
<1>4. TimerTick' \in 0 .. TickRange - 1
  <2>1. TickRange \in Nat \ {0} /\ TimerTick \in Nat
    BY <1>2, TimerAssumption DEF Clock
  <2>2. (TimerTick + 1) % TickRange \in 0 .. TickRange - 1
    BY <2>1
  <2> QED BY <1>1, <2>2
<1>5. TypeOK'
  BY <1>1, <1>4 DEF Inv, TypeOK
<1> QED BY <1>1, <1>3, <1>5 DEF Inv

(* The head of the list is due, or nothing is. *)
LEMMA HeadFirst ==
  ASSUME Inv, ~ HeadIsDue
  PROVE  NoneDue
<1> SUFFICES ASSUME NEW s \in ArmedIn(pool), ~ RemainTime(pool[s], TimerTick) > 0
             PROVE  FALSE
  BY DEF NoneDue
<1>1. /\ TimerTick \in Clock /\ pool \in Pool /\ MsgTimerTable \in [Index -> Seq(Slot)]
      /\ InTable(pool, MsgTimerTable) /\ Sorted(pool, MsgTimerTable, set, TimerTick)
  BY DEF Inv, TypeOK, Clock, Hashed
<1>2. \A r \in ArmedIn(pool) : /\ r \in Slot
                               /\ RemainTime(pool[r], TimerTick) \in Nat
                               /\ RemainTime(pool[r], TimerTick) = 0 <=> pool[r].match = TimerTick
  BY <1>1, ArmedFacts, RemainFacts DEF Clock
<1>3. pool[s].match = TimerTick /\ RemainTime(pool[s], TimerTick) = 0
  BY <1>2
<1> DEFINE i == IndexOf(TimerTick)
           h == Head(Bucket)
<1>4. i \in Index
  BY <1>1, IndexFacts
<1>5. /\ Bucket \in Seq(Slot) /\ IsInjective(Bucket)
      /\ ToSet(Bucket) = {r \in ArmedIn(pool) : IndexOf(pool[r].match) = i}
  BY <1>1, <1>4 DEF Bucket, InTable
<1>6. s \in ToSet(Bucket) /\ Bucket # <<>>
  BY <1>3, <1>5, EmptyFacts
<1>7. /\ h \in ArmedIn(pool)
      /\ \A r \in ToSet(Bucket) \ {h} : Before(Bucket, h, r)
  BY <1>5, <1>6, HeadFacts
<1>8. pool[h].match # TimerTick /\ h # s
  BY <1>3, <1>6 DEF HeadIsDue
<1>9. Before(MsgTimerTable[i], h, s)
  BY <1>6, <1>7, <1>8 DEF Bucket
<1>10. RemainTime(pool[h], TimerTick) <= RemainTime(pool[s], TimerTick)
  BY <1>1, <1>2, <1>4, <1>7, <1>9 DEF Sorted
<1> DEFINE a == RemainTime(pool[h], TimerTick)
<1>11. a \in Nat /\ a # 0 /\ a <= 0
  BY <1>2, <1>3, <1>7, <1>8, <1>10
<1> HIDE DEF a
<1> QED BY <1>11

LEMMA EndInv == Inv /\ LoopEnds => Inv'
<1> SUFFICES ASSUME Inv, LoopEnds PROVE Inv'
  OBVIOUS
<1>1. /\ ~ HeadIsDue /\ firing' = FALSE
      /\ UNCHANGED <<TimerTick, pool, MsgTimerTable, TimerList, running, TaskList, item, heap,
                     set, lost>>
  BY DEF LoopEnds
<1>2. NoneDue
  BY <1>1, HeadFirst
<1>3. TypeOK'
  BY <1>1 DEF Inv, TypeOK
<1> QED BY <1>1, <1>2, <1>3 DEF Inv, NoneDue

(* Delivering a message needs room in the pool of the queue only. *)
LEMMA DeliverFacts ==
  ASSUME Inv, firing, NEW t \in Timer, Deliver(t)
  PROVE  /\ item = NoItem
         /\ TaskList' \in Seq(Item)
         /\ Len(TaskList') + (IF item = NoItem THEN 0 ELSE 1) <= TASK_ITEM_NUM
         /\ lost' \in BOOLEAN
<1>1. TypeOK /\ item = NoItem /\ TaskList \in Seq(Item)
      /\ Len(TaskList) + (IF item = NoItem THEN 0 ELSE 1) <= TASK_ITEM_NUM
  BY DEF Inv, TypeOK
<1>2. CASE TaskPoolFull(TaskList)
  <2>1. TaskList' = TaskList /\ lost' = (lost \/ t.arg # NoArg)
    BY <1>2 DEF Deliver
  <2> QED BY <1>1, <2>1
<1>3. CASE ~ TaskPoolFull(TaskList)
  <2> DEFINE e == [p |-> t.p, id |-> t.id, arg |-> t.arg]
  <2>1. TaskList' = Append(TaskList, e) /\ lost' = lost
    BY <1>3 DEF Deliver
  <2>2. e \in Item
    BY DEF Timer, Item
  <2>3. lost' \in BOOLEAN
    BY <1>1, <2>1 DEF TypeOK
  <2> HIDE DEF e
  <2>4. /\ Append(TaskList, e) \in Seq(Item)
        /\ Len(Append(TaskList, e)) + (IF item = NoItem THEN 0 ELSE 1) <= TASK_ITEM_NUM
    BY <1>1, <1>3, <2>2, RoomFacts
  <2> QED BY <1>1, <2>1, <2>3, <2>4
<1> QED BY <1>2, <1>3

(* The timer that fires. *)
LEMMA DueFacts ==
  ASSUME Inv, HeadIsDue
  PROVE  LET s == Head(Bucket)
             i == IndexOf(TimerTick)
             pl == [pool EXCEPT ![s] = NoTimer] IN
         /\ s \in ArmedIn(pool) /\ s \in Slot /\ pool[s] \in Timer
         /\ pool[s].match = TimerTick
         /\ ArmedIn(pl) = ArmedIn(pool) \ {s}
         /\ Hashed(pl, [MsgTimerTable EXCEPT ![i] = Tail(@)], Removed(set, {s}), TimerTick)
<1> DEFINE i0 == IndexOf(TimerTick)
           s == Head(MsgTimerTable[i0])
           pl2 == [pool EXCEPT ![s] = NoTimer]
           tb2 == [MsgTimerTable EXCEPT ![i0] = Tail(@)]
           st2 == Removed(set, {s})
<1>1. /\ pool \in Pool /\ MsgTimerTable \in [Index -> Seq(Slot)] /\ set \in Seq(Slot)
      /\ InTable(pool, MsgTimerTable) /\ InOrder(pool, set)
      /\ Sorted(pool, MsgTimerTable, set, TimerTick)
  BY DEF Inv, Hashed
<1>0. /\ TimerTick \in Clock /\ i0 \in Index
      /\ MsgTimerTable[i0] # <<>> /\ pool[s].match = TimerTick
  <2>1. TimerTick \in Clock
    BY DEF Inv, TypeOK, Clock
  <2> QED BY <2>1, IndexFacts DEF HeadIsDue, Bucket
<1> HIDE DEF i0
<1> DEFINE list == MsgTimerTable[i0]
           o == Tail(list)
<1>2. /\ list \in Seq(Slot) /\ list # <<>> /\ IsInjective(list)
      /\ ToSet(list) = {r \in ArmedIn(pool) : IndexOf(pool[r].match) = i0}
  BY <1>0, <1>1 DEF InTable
<1>3. /\ Head(list) \in ToSet(list)
      /\ o \in Seq(Slot)
      /\ ToSet(o) = ToSet(list) \ {Head(list)}
      /\ IsInjective(o)
      /\ \A x, y : Before(o, x, y) => Before(list, x, y)
  <2> HIDE DEF list
  <2> QED BY <1>2, HeadFacts
<1>4. s \in ArmedIn(pool) /\ s \in Slot /\ IndexOf(pool[s].match) = i0
  BY <1>1, <1>2, <1>3, ArmedFacts
<1>5. tb2 \in [Index -> Seq(Slot)] /\ tb2[i0] = o /\ \A i \in Index \ {i0} : tb2[i] = MsgTimerTable[i]
  BY <1>0, <1>1, <1>3
<1>6. /\ pl2 \in Pool
      /\ ArmedIn(pl2) = ArmedIn(pool) \ {s}
      /\ \A r \in ArmedIn(pl2) : pl2[r] = pool[r]
  <2>1. \A r \in Slot : r # s => pl2[r] = pool[r]
    BY <1>1, <1>4 DEF Pool
  <2>2. pl2 \in Pool /\ ArmedIn(pl2) = ArmedIn(pool) \ {s}
    BY <1>1, <1>4, NotArmed DEF Pool
  <2> QED BY <1>1, <2>1, <2>2, ArmedFacts
<1> HIDE DEF s, pl2, tb2, st2, o
<1>7. /\ st2 \in Seq(Slot)
      /\ ToSet(st2) = ToSet(set) \ {s}
      /\ IsInjective(set) => IsInjective(st2)
      /\ \A x, y : Before(st2, x, y) <=> Before(set, x, y) /\ x \notin {s} /\ y \notin {s}
  BY <1>1, RemovedFacts DEF st2
<1>8. InOrder(pl2, st2)
  BY <1>1, <1>6, <1>7 DEF InOrder
<1>9. InTable(pl2, tb2)
  <2> SUFFICES ASSUME NEW i \in Index
               PROVE  /\ IsInjective(tb2[i])
                      /\ ToSet(tb2[i]) = {r \in ArmedIn(pl2) : IndexOf(pl2[r].match) = i}
    BY DEF InTable
  <2>1. /\ IsInjective(MsgTimerTable[i])
        /\ ToSet(MsgTimerTable[i]) = {r \in ArmedIn(pool) : IndexOf(pool[r].match) = i}
    BY <1>1 DEF InTable
  <2>2. CASE i = i0
    BY <1>2, <1>3, <1>5, <1>6, <2>2 DEF s
  <2>3. CASE i # i0
    BY <1>4, <1>5, <1>6, <2>1, <2>3
  <2> QED BY <2>2, <2>3
<1>10. Sorted(pl2, tb2, st2, TimerTick)
  <2> SUFFICES ASSUME NEW i \in Index, NEW x \in Slot, NEW y \in Slot, Before(tb2[i], x, y)
               PROVE  /\ RemainTime(pl2[x], TimerTick) <= RemainTime(pl2[y], TimerTick)
                      /\ RemainTime(pl2[x], TimerTick) = RemainTime(pl2[y], TimerTick) => Before(st2, x, y)
    BY DEF Sorted
  <2>1. x \in ToSet(tb2[i]) /\ y \in ToSet(tb2[i])
    BY <1>5, BeforeFacts
  <2>2. x \in ArmedIn(pl2) /\ y \in ArmedIn(pl2)
    BY <1>9, <2>1 DEF InTable
  <2>3. pl2[x] = pool[x] /\ pl2[y] = pool[y] /\ x # s /\ y # s
    BY <1>6, <2>2
  <2>4. Before(MsgTimerTable[i], x, y)
    BY <1>3, <1>5
  <2> QED BY <1>1, <1>7, <2>3, <2>4 DEF Sorted
<1>11. pool[s] \in Timer
  BY <1>1, <1>4, ArmedFacts
<1>12. Hashed(pl2, tb2, st2, TimerTick)
  BY <1>5, <1>6, <1>7, <1>8, <1>9, <1>10 DEF Hashed
<1> QED BY <1>0, <1>4, <1>6, <1>11, <1>12 DEF s, pl2, tb2, st2, i0, Bucket

LEMMA FireOnceInv == Inv /\ FireOnce => Inv'
<1> SUFFICES ASSUME Inv, FireOnce PROVE Inv'
  OBVIOUS
<1> DEFINE s == Head(Bucket)
<1>1. /\ firing /\ HeadIsDue /\ Deliver(pool[s])
      /\ pool' = [pool EXCEPT ![s] = NoTimer]
      /\ MsgTimerTable' = [MsgTimerTable EXCEPT ![IndexOf(TimerTick)] = Tail(@)]
      /\ TimerList' = [TimerList EXCEPT ![pool[s].p] = Removed(@, {s})]
      /\ set' = Removed(set, {s})
      /\ UNCHANGED <<TimerTick, firing, running, item, heap>>
  BY DEF FireOnce
<1> HIDE DEF s
<1>2. /\ s \in ArmedIn(pool) /\ s \in Slot /\ pool[s] \in Timer
      /\ ArmedIn(pool') = ArmedIn(pool) \ {s}
      /\ Hashed(pool', MsgTimerTable', set', TimerTick')
  BY <1>1, DueFacts DEF s
<1>3. pool \in Pool /\ Listing(pool, TimerList)
  BY DEF Inv, Hashed
<1>4. Listing(pool', TimerList')
  BY <1>1, <1>2, <1>3, FireListing
<1>5. \A r \in ArmedIn(pool') : pool'[r] = pool[r]
  <2>1. \A r \in Slot : r # s => pool'[r] = pool[r]
    BY <1>1, <1>3 DEF Pool
  <2> QED BY <1>2, <1>3, <2>1, ArmedFacts
<1>6. /\ item = NoItem /\ TaskList' \in Seq(Item) /\ lost' \in BOOLEAN
      /\ Len(TaskList') + (IF item = NoItem THEN 0 ELSE 1) <= TASK_ITEM_NUM
  BY <1>1, <1>2, DeliverFacts
<1>7. TypeOK'
  BY <1>1, <1>2, <1>4, <1>6 DEF Inv, TypeOK, Hashed, Listing, Pool
<1>8. \A r \in ArmedIn(pool') : pool'[r].p \in running'
  BY <1>1, <1>2, <1>5 DEF Inv
<1>9. firing' /\ item' = NoItem
  BY <1>1, <1>6
<1> QED BY <1>2, <1>4, <1>7, <1>8, <1>9 DEF Inv

LEMMA FireCyclicFacts ==
  ASSUME Inv, FireCyclic
  PROVE  LET s == Head(Bucket) IN
         /\ pool' \in Pool
         /\ ArmedIn(pool') = ArmedIn(pool) /\ s \in ArmedIn(pool)
         /\ pool'[s] \in Timer
         /\ pool'[s] = [pool[s] EXCEPT !.match = (TimerTick + pool[s].period) % TickRange]
         /\ RemainTime(pool'[s], TimerTick) = pool[s].period
         /\ \A r \in ArmedIn(pool) \ {s} : pool'[r] = pool[r]
         /\ Hashed(pool', MsgTimerTable', set', TimerTick)
<1> DEFINE s == Head(Bucket)
           m == (TimerTick + pool[s].period) % TickRange
           t == [pool[s] EXCEPT !.match = m]
           pl == [pool EXCEPT ![s] = NoTimer]
           tb == [MsgTimerTable EXCEPT ![IndexOf(TimerTick)] = Tail(@)]
           st == Removed(set, {s})
<1>1. /\ firing /\ HeadIsDue
      /\ pool' = [pool EXCEPT ![s].match = m]
      /\ MsgTimerTable' = InsertToTimerTable(tb, pool', s, TimerTick)
      /\ set' = Append(st, s)
  BY DEF FireCyclic
<1>2. /\ s \in ArmedIn(pool) /\ s \in Slot /\ pool[s] \in Timer
      /\ ArmedIn(pl) = ArmedIn(pool) \ {s}
      /\ Hashed(pl, tb, st, TimerTick)
  BY <1>1, DueFacts
<1>3. pool \in Pool /\ TimerTick \in Clock
  BY DEF Inv, Hashed, TypeOK, Clock
<1>4. pool[s].period \in Clock
  BY <1>2, TimerAssumption DEF Timer, Clock
<1>5. m \in Clock
  <2>1. TickRange \in Nat \ {0} /\ TimerTick + pool[s].period \in Nat
    BY <1>3, <1>4, TimerAssumption DEF Clock
  <2> QED BY <2>1 DEF Clock
<1> HIDE DEF m
<1>6. t \in Timer /\ t.match = m
  BY <1>2, <1>5 DEF Timer, Clock
<1>7. pool' = [pl EXCEPT ![s] = t]
  BY <1>1, <1>2, <1>3 DEF Pool
<1>8. pool' \in Pool /\ ArmedIn(pool') = ArmedIn(pool)
  <2>1. pl \in Pool
    BY <1>2 DEF Hashed
  <2> HIDE DEF pl, t, s
  <2>2. pool' \in Pool /\ ArmedIn(pool') = ArmedIn(pl) \cup {s}
    BY <1>2, <1>6, <1>7, <2>1, NowArmed
  <2> QED BY <1>2, <2>2
<1>9. pool'[s] = t /\ \A r \in ArmedIn(pool) \ {s} : pool'[r] = pool[r]
  <2>1. \A r \in Slot : pool'[r] = IF r = s THEN t ELSE pool[r]
    BY <1>1, <1>2, <1>3 DEF Pool
  <2> QED BY <1>2, <1>3, <2>1, ArmedFacts
<1> HIDE DEF t, pl, tb, st, s
<1>10. RemainTime(t, TimerTick) = pool[s].period
  BY <1>3, <1>4, <1>6, SetFacts DEF m
<1>11. Hashed(pool', MsgTimerTable', set', TimerTick)
  <2>1. s \notin ArmedIn(pl)
    BY <1>2
  <2>2. Hashed([pl EXCEPT ![s] = t],
               InsertToTimerTable(tb, [pl EXCEPT ![s] = t], s, TimerTick),
               Append(st, s), TimerTick)
    BY <1>2, <1>3, <1>6, <2>1, InsertHashed
  <2> QED BY <1>1, <1>7, <2>2
<1> QED BY <1>2, <1>6, <1>8, <1>9, <1>10, <1>11 DEF s, t, m

LEMMA FireCyclicInv == Inv /\ FireCyclic => Inv'
<1> SUFFICES ASSUME Inv, FireCyclic PROVE Inv'
  OBVIOUS
<1> DEFINE s == Head(Bucket)
<1>1. /\ firing /\ Deliver(pool[s])
      /\ UNCHANGED <<TimerTick, firing, TimerList, running, item, heap>>
  BY DEF FireCyclic
<1>2. /\ pool' \in Pool
      /\ ArmedIn(pool') = ArmedIn(pool) /\ s \in ArmedIn(pool)
      /\ pool'[s] = [pool[s] EXCEPT !.match = (TimerTick + pool[s].period) % TickRange]
      /\ \A r \in ArmedIn(pool) \ {s} : pool'[r] = pool[r]
      /\ Hashed(pool', MsgTimerTable', set', TimerTick)
  BY FireCyclicFacts
<1> HIDE DEF s
<1>3. pool[s] \in Timer
  BY <1>2, ArmedFacts DEF Inv, Hashed
<1>4. \A r \in ArmedIn(pool) : pool'[r].p = pool[r].p
  BY <1>2, <1>3 DEF Timer
<1>5. Listing(pool', TimerList')
  <2> SUFFICES ASSUME NEW p \in Process
               PROVE  {r \in ArmedIn(pool') : pool'[r].p = p} = {r \in ArmedIn(pool) : pool[r].p = p}
    BY <1>1 DEF Inv, Listing
  <2> QED BY <1>2, <1>4
<1>6. /\ item = NoItem /\ TaskList' \in Seq(Item) /\ lost' \in BOOLEAN
      /\ Len(TaskList') + (IF item = NoItem THEN 0 ELSE 1) <= TASK_ITEM_NUM
  BY <1>1, <1>3, DeliverFacts
<1>7. TypeOK'
  BY <1>1, <1>2, <1>6 DEF Inv, TypeOK, Hashed, Pool
<1> QED BY <1>1, <1>2, <1>4, <1>5, <1>6, <1>7 DEF Inv

LEMMA NextInv == Inv /\ [Next]_vars => Inv'
<1>1. ASSUME Inv, UNCHANGED vars PROVE Inv'
  BY <1>1 DEF vars, Inv, TypeOK, NoneDue
<1> QED BY <1>1, CallsInv, RunInv, TickInv, FireOnceInv, FireCyclicInv, EndInv DEF Next

THEOREM Invariance == Spec => []Inv
BY InvInit, NextInv, PTL DEF Spec

(***************************************************************************)
(* A timer is in use if and only if it is in the list of its process and   *)
(* in the list of the table at the index of its TimeMatch, once in each,   *)
(* and its process runs: for every number of processes, timers and lists   *)
(* and every width of TimerTick.                                           *)
(***************************************************************************)
THEOREM TimerListsAgree == Spec => []ListsAgree
BY Invariance, InvListsAgree, PTL

-----------------------------------------------------------------------------
(***************************************************************************)
(* The arguments: no two of the timers pl, the items of the queue q and    *)
(* the item it whose handler runs hold the same, they hold none but those  *)
(* of hp, and cyclic timers hold none.                                     *)
(***************************************************************************)
HeldOnce(pl, q, it, hp) ==
  /\ \A s, r \in ArmedIn(pl) : pl[s].arg = pl[r].arg /\ pl[s].arg # NoArg => s = r
  /\ \A i, j \in 1 .. Len(q) : q[i].arg = q[j].arg /\ q[i].arg # NoArg => i = j
  /\ \A s \in ArmedIn(pl), i \in 1 .. Len(q) : pl[s].arg = q[i].arg => pl[s].arg = NoArg
  /\ it # NoItem =>
       /\ \A s \in ArmedIn(pl) : pl[s].arg = it.arg => it.arg = NoArg
       /\ \A i \in 1 .. Len(q) : q[i].arg = it.arg => it.arg = NoArg
       /\ it.arg \in hp \cup {NoArg}
  /\ \A s \in ArmedIn(pl) : pl[s].arg \in hp \cup {NoArg}
  /\ \A i \in 1 .. Len(q) : q[i].arg \in hp \cup {NoArg}
  /\ \A s \in ArmedIn(pl) : pl[s].period # 0 => pl[s].arg = NoArg

(* Each argument is held. *)
Kept(pl, q, it, hp) ==
  \A a \in hp : \/ \E s \in ArmedIn(pl) : pl[s].arg = a
                \/ \E i \in 1 .. Len(q) : q[i].arg = a
                \/ it # NoItem /\ it.arg = a

ArgInv ==
  /\ Inv
  /\ HeldOnce(pool, TaskList, item, heap)
  /\ lost \/ Kept(pool, TaskList, item, heap)

LEMMA ArgInvHeldOnce == ArgInv => ArgHeldOnce
<1> SUFFICES ASSUME ArgInv PROVE ArgHeldOnce
  OBVIOUS
<1>1. Armed = ArmedIn(pool) /\ NoArg \notin Arg /\ heap \subseteq Arg
  BY TimerAssumption DEF Armed, ArmedIn, ArgInv, Inv, TypeOK
<1>2. ASSUME NEW a, NEW h
      PROVE  h \in Holders(a) <=>
               \/ \E s \in ArmedIn(pool) : pool[s].arg = a /\ h = <<"timer", s>>
               \/ \E i \in 1 .. Len(TaskList) : TaskList[i].arg = a /\ h = <<"item", i>>
               \/ item # NoItem /\ item.arg = a /\ h = <<"handler", 0>>
  <2> DEFINE T == {<<"timer", s>> : s \in {r \in ArmedIn(pool) : pool[r].arg = a}}
             I == {<<"item", i>> : i \in {j \in 1 .. Len(TaskList) : TaskList[j].arg = a}}
             H == IF item # NoItem /\ item.arg = a THEN {<<"handler", 0>>} ELSE {}
  <2>1. h \in T <=> \E s \in ArmedIn(pool) : pool[s].arg = a /\ h = <<"timer", s>>
    OBVIOUS
  <2>2. h \in I <=> \E i \in 1 .. Len(TaskList) : TaskList[i].arg = a /\ h = <<"item", i>>
    OBVIOUS
  <2>3. h \in H <=> item # NoItem /\ item.arg = a /\ h = <<"handler", 0>>
    OBVIOUS
  <2>4. Holders(a) = T \cup I \cup H
    BY <1>1 DEF Holders
  <2> HIDE DEF T, I, H
  <2> QED BY <2>1, <2>2, <2>3, <2>4
<1>3. ASSUME NEW a \in Arg, NEW h \in Holders(a), NEW g \in Holders(a)
      PROVE  h = g /\ a \in heap
  <2>1. a # NoArg
    BY <1>1
  <2>2. CASE \E s \in ArmedIn(pool) : pool[s].arg = a /\ h = <<"timer", s>>
    BY <1>2, <2>1, <2>2 DEF ArgInv, HeldOnce
  <2>3. CASE \E i \in 1 .. Len(TaskList) : TaskList[i].arg = a /\ h = <<"item", i>>
    BY <1>2, <2>1, <2>3 DEF ArgInv, HeldOnce
  <2>4. CASE item # NoItem /\ item.arg = a /\ h = <<"handler", 0>>
    BY <1>2, <2>1, <2>4 DEF ArgInv, HeldOnce
  <2> QED BY <1>2, <2>2, <2>3, <2>4
<1>4. ASSUME ~ lost, NEW a \in heap PROVE Holders(a) # {}
  BY <1>2, <1>4 DEF ArgInv, Kept
<1> QED BY <1>3, <1>4 DEF ArgHeldOnce

-----------------------------------------------------------------------------
(* An argument more, with a message or a timer: a fresh one, or none. *)
LEMMA ItemHeldOnce ==
  ASSUME NEW pl, NEW q \in Seq(Item), NEW it, NEW hp, HeldOnce(pl, q, it, hp),
         NEW e \in Item, e.arg \notin hp
  PROVE  LET hp2 == hp \cup ({e.arg} \ {NoArg}) IN
         /\ HeldOnce(pl, Append(q, e), it, hp2)
         /\ Kept(pl, q, it, hp) => Kept(pl, Append(q, e), it, hp2)
<1> DEFINE q2 == Append(q, e)
           hp2 == hp \cup ({e.arg} \ {NoArg})
           n == Len(q)
<1>1. /\ n \in Nat /\ Len(q2) = n + 1 /\ q2[n + 1] = e
      /\ \A i \in 1 .. n : q2[i] = q[i]
  OBVIOUS
<1> HIDE DEF q2, n
<1>2. /\ n + 1 \in 1 .. n + 1
      /\ \A i \in 1 .. n : i \in 1 .. n + 1
      /\ \A i \in 1 .. n + 1 : i \in 1 .. n \/ i = n + 1
  BY <1>1
<1>3. HeldOnce(pl, q2, it, hp2)
  BY <1>1, <1>2 DEF HeldOnce, n
<1>4. ASSUME Kept(pl, q, it, hp) PROVE Kept(pl, q2, it, hp2)
  BY <1>1, <1>2, <1>4 DEF Kept, n
<1> QED BY <1>3, <1>4 DEF q2

LEMMA TimerHeldOnce ==
  ASSUME NEW pl \in Pool, NEW q, NEW it, NEW hp, HeldOnce(pl, q, it, hp),
         NEW s \in Slot, s \notin ArmedIn(pl), NEW t \in Timer, t.arg \notin hp,
         t.period # 0 => t.arg = NoArg
  PROVE  LET hp2 == hp \cup ({t.arg} \ {NoArg})
             pl2 == [pl EXCEPT ![s] = t] IN
         /\ HeldOnce(pl2, q, it, hp2)
         /\ Kept(pl, q, it, hp) => Kept(pl2, q, it, hp2)
<1> DEFINE hp2 == hp \cup ({t.arg} \ {NoArg})
           pl2 == [pl EXCEPT ![s] = t]
<1>1. /\ ArmedIn(pl2) = ArmedIn(pl) \cup {s} /\ pl2[s] = t
      /\ \A r \in ArmedIn(pl) : r # s /\ pl2[r] = pl[r]
  <2>1. pl2[s] = t /\ \A r \in ArmedIn(pl) : r # s /\ pl2[r] = pl[r]
    BY DEF Pool, ArmedIn
  <2> QED BY <2>1, NowArmed
<1> HIDE DEF pl2
<1>2. HeldOnce(pl2, q, it, hp2)
  BY <1>1 DEF HeldOnce
<1>3. ASSUME Kept(pl, q, it, hp) PROVE Kept(pl2, q, it, hp2)
  BY <1>1, <1>3 DEF Kept
<1> QED BY <1>2, <1>3 DEF pl2

(* Cancelling frees the arguments of the timers it takes out; the messages *)
(* in the queue keep theirs.                                               *)
LEMMA CancelHeldOnce ==
  ASSUME ArgInv, NEW D \in SUBSET ArmedIn(pool),
         NEW q, Len(q) = Len(TaskList), \A i \in 1 .. Len(TaskList) : q[i].arg = TaskList[i].arg
  PROVE  LET k == Cancelled(D) IN
         /\ HeldOnce(k.pool, q, item, k.heap)
         /\ lost \/ Kept(k.pool, q, item, k.heap)
<1> DEFINE k == Cancelled(D)
<1>1. /\ ArmedIn(k.pool) = ArmedIn(pool) \ D
      /\ \A s \in ArmedIn(k.pool) : k.pool[s] = pool[s]
      /\ k.heap = heap \ Arguments(D)
  BY CancelledFacts DEF ArgInv
<1> HIDE DEF k
<1>2. \A a : a \in Arguments(D) <=> a # NoArg /\ \E s \in D : pool[s].arg = a
  BY DEF Arguments
<1> HIDE DEF Arguments
<1>3. HeldOnce(pool, TaskList, item, heap)
  BY DEF ArgInv
<1>4. \A s \in ArmedIn(k.pool) : k.pool[s].arg \in k.heap \cup {NoArg}
  <2> SUFFICES ASSUME NEW s \in ArmedIn(k.pool), pool[s].arg # NoArg
               PROVE  pool[s].arg \in heap /\ pool[s].arg \notin Arguments(D)
    BY <1>1
  <2>1. s \in ArmedIn(pool) /\ s \notin D
    BY <1>1
  <2> QED BY <1>2, <1>3, <2>1 DEF HeldOnce
<1>5. \A i \in 1 .. Len(q) : q[i].arg \in k.heap \cup {NoArg}
  <2> SUFFICES ASSUME NEW i \in 1 .. Len(TaskList), TaskList[i].arg # NoArg
               PROVE  TaskList[i].arg \in heap /\ TaskList[i].arg \notin Arguments(D)
    BY <1>1
  <2> QED BY <1>2, <1>3 DEF HeldOnce
<1>6. item # NoItem => item.arg \in k.heap \cup {NoArg}
  BY <1>1, <1>2, <1>3 DEF HeldOnce
<1>7. HeldOnce(k.pool, q, item, k.heap)
  BY <1>1, <1>3, <1>4, <1>5, <1>6 DEF HeldOnce
<1>8. ASSUME Kept(pool, TaskList, item, heap) PROVE Kept(k.pool, q, item, k.heap)
  <2> SUFFICES ASSUME NEW a \in heap, a \notin Arguments(D)
               PROVE  \/ \E s \in ArmedIn(k.pool) : k.pool[s].arg = a
                      \/ \E i \in 1 .. Len(q) : q[i].arg = a
                      \/ item # NoItem /\ item.arg = a
    BY <1>1 DEF Kept
  <2>1. a # NoArg
    BY TimerAssumption DEF ArgInv, Inv, TypeOK
  <2>2. CASE \E s \in ArmedIn(pool) : pool[s].arg = a
    BY <1>1, <1>2, <2>1, <2>2
  <2>3. CASE \E i \in 1 .. Len(TaskList) : TaskList[i].arg = a
    BY <2>3
  <2> QED BY <1>8, <2>2, <2>3 DEF Kept
<1> QED BY <1>7, <1>8 DEF ArgInv, k

LEMMA SendArgs ==
  ASSUME ArgInv, ~ CyclicArg, ~ firing,
         NEW p \in running, NEW id \in MsgId, NEW arg \in Fresh,
         NEW delay \in Clock, NEW period \in Period, MayCarry(arg, period),
         NEW D \in SUBSET ArmedIn(pool),
         NEW q \in Seq(Item), Len(q) = Len(TaskList),
         \A i \in 1 .. Len(TaskList) : q[i].arg = TaskList[i].arg,
         Send(p, id, arg, delay, period, Cancelled(D), q)
  PROVE  ArgInv'
<1> DEFINE k == Cancelled(D)
<1>1. /\ k.pool \in Pool /\ k.heap = heap \ Arguments(D)
      /\ HeldOnce(k.pool, q, item, k.heap)
      /\ lost \/ Kept(k.pool, q, item, k.heap)
  BY CancelHeldOnce, CancelledFacts DEF ArgInv
<1>2. arg \in Arg \cup {NoArg} /\ arg \notin k.heap
  <2>1. heap \subseteq Arg
    BY DEF ArgInv, Inv, TypeOK
  <2> QED BY <1>1, <2>1, TimerAssumption DEF Fresh
<1>3. Inv'
  BY <1>2, SendInv DEF ArgInv
<1>4. item' = item /\ lost' = lost /\ TimerTick \in Clock /\ p \in Process
  BY DEF Send, ArgInv, Inv, TypeOK, Clock
<1> HIDE DEF k
<1>5. CASE pool' = k.pool /\ TaskList' = q /\ heap' = k.heap
  BY <1>1, <1>3, <1>4, <1>5 DEF ArgInv
<1>6. CASE delay = 0 /\ ~ TaskPoolFull(q)
  <2> DEFINE e == [p |-> p, id |-> id, arg |-> arg]
  <2>1. TaskList' = Append(q, e) /\ pool' = k.pool /\ heap' = k.heap \cup ({arg} \ {NoArg})
    BY <1>6 DEF Send, k
  <2>2. e \in Item /\ e.arg = arg
    BY <1>2, <1>4 DEF Item
  <2> HIDE DEF e
  <2>3. /\ HeldOnce(k.pool, Append(q, e), item, k.heap \cup ({e.arg} \ {NoArg}))
        /\ Kept(k.pool, q, item, k.heap)
             => Kept(k.pool, Append(q, e), item, k.heap \cup ({e.arg} \ {NoArg}))
    BY <1>1, <1>2, <2>2, ItemHeldOnce
  <2> QED BY <1>1, <1>3, <1>4, <2>1, <2>2, <2>3 DEF ArgInv
<1>7. CASE delay # 0 /\ FreeSlots(k.pool) # {}
  <2> DEFINE s == AllocateTimer(k.pool)
             t == [p |-> p, id |-> id, arg |-> arg, period |-> period,
                   match |-> (TimerTick + delay) % TickRange]
  <2>1. s \in Slot /\ s \notin ArmedIn(k.pool)
    BY <1>1, <1>7, AllocateFacts
  <2>2. t \in Timer /\ t.arg = arg /\ t.period = period
    <3>1. (TimerTick + delay) % TickRange \in 0 .. TickRange - 1
      BY <1>4, TimerAssumption DEF Clock
    <3> QED BY <1>2, <1>4, <3>1 DEF Timer
  <2>3. TaskList' = q /\ pool' = [k.pool EXCEPT ![s] = t] /\ heap' = k.heap \cup ({arg} \ {NoArg})
    BY <1>7 DEF Send, k
  <2> HIDE DEF s, t
  <2>4. /\ HeldOnce([k.pool EXCEPT ![s] = t], q, item, k.heap \cup ({t.arg} \ {NoArg}))
        /\ Kept(k.pool, q, item, k.heap)
             => Kept([k.pool EXCEPT ![s] = t], q, item, k.heap \cup ({t.arg} \ {NoArg}))
    BY <1>1, <1>2, <2>1, <2>2, TimerHeldOnce DEF MayCarry
  <2> QED BY <1>1, <1>3, <1>4, <2>2, <2>3, <2>4 DEF ArgInv
<1>8. \/ pool' = k.pool /\ TaskList' = q /\ heap' = k.heap
      \/ delay = 0 /\ ~ TaskPoolFull(q)
      \/ delay # 0 /\ FreeSlots(k.pool) # {}
  BY DEF Send, k
<1> QED BY <1>5, <1>6, <1>7, <1>8

(* The timers that a call names are in use. *)
LEMMA ListedFacts ==
  ASSUME Inv, NEW p \in Process, NEW ids
  PROVE  /\ Listed(p, ids) = {s \in ArmedIn(pool) : pool[s].p = p /\ pool[s].id \in ids}
         /\ \A i \in 1 .. Len(TimerList[p]) : TimerList[p][i] \in ArmedIn(pool)
<1>1. TimerList[p] \in Seq(Slot) /\ ToSet(TimerList[p]) = {s \in ArmedIn(pool) : pool[s].p = p}
  BY DEF Inv, Listing
<1> QED BY <1>1, BeforeFacts DEF Listed

LEMMA CallsArgs ==
  ASSUME ArgInv, ~ CyclicArg, Calls
  PROVE  ArgInv'
<1>0. Delay \subseteq Clock /\ Period \subseteq Clock /\ 0 \in Period
  BY TimerAssumption DEF Clock
<1>i. Inv /\ Inv'
  BY CallsInv DEF ArgInv
<1>q. ASSUME NEW p, NEW ids
      PROVE  /\ DTask_Blank(p, ids) \in Seq(Item)
             /\ Len(DTask_Blank(p, ids)) = Len(TaskList)
             /\ \A i \in 1 .. Len(TaskList) : DTask_Blank(p, ids)[i].arg = TaskList[i].arg
             /\ TaskList \in Seq(Item)
  BY <1>i, BlankFacts DEF Inv, TypeOK
<1>1. ASSUME NEW p \in Process, NEW id \in MsgId, NEW arg \in Arg \cup {NoArg},
             NEW delay \in Clock, NEW period \in Period,
             Msg_Send(p, id, arg, delay, period)
      PROVE  ArgInv'
  <2>1. /\ ~ firing /\ p \in running /\ arg \in Fresh /\ MayCarry(arg, period)
        /\ Send(p, id, arg, delay, period, Cancelled({}), TaskList)
    BY <1>1 DEF Msg_Send, Callable
  <2> QED BY <1>q, <2>1, SendArgs
<1>2. ASSUME NEW p \in Process, NEW id \in MsgId, NEW arg \in Arg \cup {NoArg},
             NEW delay \in Clock, NEW period \in Period,
             Msg_ReSend(p, id, arg, delay, period)
      PROVE  ArgInv'
  <2> DEFINE D == Listed(p, {id})
             q == DTask_Blank(p, {id})
  <2>1. /\ ~ firing /\ p \in running /\ arg \in Fresh /\ MayCarry(arg, period)
        /\ Send(p, id, arg, delay, period, Cancelled(D), q)
    BY <1>2 DEF Msg_ReSend, Callable
  <2>2. D \in SUBSET ArmedIn(pool)
    BY <1>i, ListedFacts
  <2>3. /\ q \in Seq(Item) /\ Len(q) = Len(TaskList)
        /\ \A i \in 1 .. Len(TaskList) : q[i].arg = TaskList[i].arg
    BY <1>q
  <2> HIDE DEF D, q
  <2> QED BY <2>1, <2>2, <2>3, SendArgs
<1>3. ASSUME NEW D \in SUBSET ArmedIn(pool), NEW q, Len(q) = Len(TaskList),
             \A i \in 1 .. Len(TaskList) : q[i].arg = TaskList[i].arg,
             Cancel(D), TaskList' = q, UNCHANGED <<item, lost>>
      PROVE  ArgInv'
  <2> DEFINE k == Cancelled(D)
  <2>1. pool' = k.pool /\ heap' = k.heap /\ TaskList' = q /\ item' = item /\ lost' = lost
    BY <1>3 DEF Cancel
  <2>2. HeldOnce(k.pool, q, item, k.heap) /\ (lost \/ Kept(k.pool, q, item, k.heap))
    BY <1>3, CancelHeldOnce
  <2> HIDE DEF k
  <2> QED BY <1>i, <2>1, <2>2 DEF ArgInv
<1>4. ASSUME NEW p \in Process, NEW id \in MsgId, Msg_CancelAll(p, id) PROVE ArgInv'
  <2>1. /\ Cancel(Listed(p, {id})) /\ TaskList' = DTask_Blank(p, {id})
        /\ UNCHANGED <<item, lost>>
    BY <1>4 DEF Msg_CancelAll
  <2>2. Listed(p, {id}) \in SUBSET ArmedIn(pool)
    BY <1>i, ListedFacts
  <2> QED BY <1>3, <1>q, <2>1, <2>2
<1>5. ASSUME NEW p \in Process, NEW id \in MsgId, Msg_CancelFirst(p, id) PROVE ArgInv'
  <2>1. PICK i \in 1 .. Len(TimerList[p]) : Cancel({TimerList[p][i]})
    BY <1>5 DEF Msg_CancelFirst
  <2>2. TaskList' = TaskList /\ UNCHANGED <<item, lost>>
    BY <1>5 DEF Msg_CancelFirst
  <2>3. {TimerList[p][i]} \in SUBSET ArmedIn(pool)
    BY <1>i, ListedFacts
  <2> QED BY <1>3, <2>1, <2>2, <2>3
<1>6. ASSUME NEW p \in Process, Process_Exit(p) PROVE ArgInv'
  <2>1. /\ Cancel(Listed(p, MsgId)) /\ TaskList' = DTask_Blank(p, MsgId)
        /\ UNCHANGED <<item, lost>>
    BY <1>6 DEF Process_Exit
  <2>2. Listed(p, MsgId) \in SUBSET ArmedIn(pool)
    BY <1>i, ListedFacts
  <2> QED BY <1>3, <1>q, <2>1, <2>2
<1>7. ASSUME NEW p \in Process, Process_Start(p) PROVE ArgInv'
  BY <1>i, <1>7 DEF Process_Start, ArgInv
<1>8. ASSUME NEW p \in Process, NEW id \in MsgId, NEW arg \in Arg \cup {NoArg},
             \/ \E delay \in Delay :
                  Msg_Send(p, id, arg, delay, 0) \/ Msg_ReSend(p, id, arg, delay, 0)
             \/ \E period \in Period \ {0} :
                  Msg_Send(p, id, arg, period, period) \/ Msg_ReSend(p, id, arg, period, period)
      PROVE  ArgInv'
  BY <1>0, <1>1, <1>2, <1>8
<1> QED BY <1>4, <1>5, <1>6, <1>7, <1>8 DEF Calls

-----------------------------------------------------------------------------
(* DTask_Run: the argument goes with the item, and is freed with it. *)
LEMMA RunArgs ==
  ASSUME ArgInv, DTask_Run
  PROVE  ArgInv'
<1>i. Inv /\ Inv'
  BY RunInv DEF ArgInv
<1>1. ASSUME TaskList # <<>>
      PROVE  /\ Head(TaskList) \in Item /\ Head(TaskList) = TaskList[1] /\ 1 \in 1 .. Len(TaskList)
             /\ \A i \in 1 .. Len(Tail(TaskList)) :
                  /\ Tail(TaskList)[i] = TaskList[i + 1]
                  /\ i + 1 \in 1 .. Len(TaskList) /\ i + 1 # 1
             /\ \A i \in 1 .. Len(TaskList) :
                  i = 1 \/ (i - 1 \in 1 .. Len(Tail(TaskList)) /\ (i - 1) + 1 = i)
             /\ \A i, j \in 1 .. Len(Tail(TaskList)) : i + 1 = j + 1 => i = j
  <2> DEFINE n == Len(TaskList)
             o == Tail(TaskList)
  <2>1. /\ TaskList \in Seq(Item) /\ n \in Nat \ {0} /\ Len(o) = n - 1
        /\ Head(TaskList) = TaskList[1] /\ Head(TaskList) \in Item
        /\ \A i \in 1 .. n - 1 : o[i] = TaskList[i + 1]
    BY <1>1, <1>i DEF Inv, TypeOK
  <2> HIDE DEF n, o
  <2>2. /\ 1 \in 1 .. n
        /\ \A i \in 1 .. n - 1 : i + 1 \in 1 .. n /\ i + 1 # 1
        /\ \A i \in 1 .. n : i = 1 \/ (i - 1 \in 1 .. n - 1 /\ (i - 1) + 1 = i)
        /\ \A i, j \in 1 .. n - 1 : i + 1 = j + 1 => i = j
    BY <2>1
  <2> QED BY <2>1, <2>2 DEF n, o
<1>2. HeldOnce(pool, TaskList, item, heap) /\ (lost \/ Kept(pool, TaskList, item, heap))
  BY DEF ArgInv
<1>3. ASSUME DropItem PROVE ArgInv'
  <2> DEFINE e == Head(TaskList)
             q == Tail(TaskList)
             hp == heap \ {e.arg}
  <2>1. /\ item = NoItem /\ TaskList # <<>> /\ TaskList' = q /\ heap' = hp
        /\ UNCHANGED <<pool, item, lost>>
    BY <1>3 DEF DropItem, Freed
  <2>2. e = TaskList[1] /\ 1 \in 1 .. Len(TaskList)
    BY <1>1, <2>1
  <2> HIDE DEF e
  <2>3. HeldOnce(pool, q, item, hp)
    BY <1>1, <1>2, <2>1, <2>2 DEF HeldOnce
  <2>4. ASSUME Kept(pool, TaskList, item, heap) PROVE Kept(pool, q, item, hp)
    BY <1>1, <2>1, <2>2, <2>4 DEF Kept
  <2> QED BY <1>2, <1>i, <2>1, <2>3, <2>4 DEF ArgInv
<1>4. ASSUME CallHandler PROVE ArgInv'
  <2> DEFINE e == Head(TaskList)
             q == Tail(TaskList)
  <2>1. /\ item = NoItem /\ TaskList # <<>> /\ TaskList' = q /\ item' = e
        /\ UNCHANGED <<pool, heap, lost>>
    BY <1>4 DEF CallHandler
  <2>2. e = TaskList[1] /\ 1 \in 1 .. Len(TaskList) /\ e # NoItem
    BY <1>1, <2>1, NullAssumption
  <2> HIDE DEF e
  <2>3. HeldOnce(pool, q, e, heap)
    BY <1>1, <1>2, <2>1, <2>2 DEF HeldOnce
  <2>4. ASSUME Kept(pool, TaskList, item, heap) PROVE Kept(pool, q, e, heap)
    <3> SUFFICES ASSUME NEW a \in heap
                 PROVE  \/ \E s \in ArmedIn(pool) : pool[s].arg = a
                        \/ \E i \in 1 .. Len(q) : q[i].arg = a
                        \/ e.arg = a
      BY <2>2 DEF Kept
    <3>1. CASE \E s \in ArmedIn(pool) : pool[s].arg = a
      BY <3>1
    <3>2. CASE \E i \in 1 .. Len(TaskList) : TaskList[i].arg = a
      <4>1. PICK i \in 1 .. Len(TaskList) : TaskList[i].arg = a
        BY <3>2
      <4>2. i = 1 \/ (i - 1 \in 1 .. Len(q) /\ q[i - 1].arg = a)
        BY <1>1, <2>1, <4>1
      <4> QED BY <2>2, <4>1, <4>2
    <3> QED BY <2>1, <2>4, <3>1, <3>2 DEF Kept
  <2> QED BY <1>2, <1>i, <2>1, <2>3, <2>4 DEF ArgInv
<1>5. ASSUME HandlerReturns PROVE ArgInv'
  <2> DEFINE hp == heap \ {item.arg}
  <2>1. /\ item # NoItem /\ item' = NoItem /\ heap' = hp
        /\ UNCHANGED <<pool, TaskList, lost>>
    BY <1>5 DEF HandlerReturns, Freed
  <2>2. HeldOnce(pool, TaskList, NoItem, hp)
    BY <1>2, <2>1 DEF HeldOnce
  <2>3. ASSUME Kept(pool, TaskList, item, heap) PROVE Kept(pool, TaskList, NoItem, hp)
    BY <2>1, <2>3 DEF Kept
  <2> QED BY <1>2, <1>i, <2>1, <2>2, <2>3 DEF ArgInv
<1> QED BY <1>3, <1>4, <1>5 DEF DTask_Run

-----------------------------------------------------------------------------
(* Msg_Run1ms: the argument goes from the timer to the item, or is lost. *)
LEMMA FireOnceArgs ==
  ASSUME ArgInv, FireOnce
  PROVE  ArgInv'
<1> DEFINE s == Head(Bucket)
           e == [p |-> pool[s].p, id |-> pool[s].id, arg |-> pool[s].arg]
<1>1. Inv /\ Inv'
  BY FireOnceInv DEF ArgInv
<1>2. /\ firing /\ HeadIsDue /\ Deliver(pool[s])
      /\ pool' = [pool EXCEPT ![s] = NoTimer]
      /\ UNCHANGED <<item, heap>>
  BY DEF FireOnce
<1>3. /\ TaskPoolFull(TaskList) => TaskList' = TaskList /\ lost' = (lost \/ pool[s].arg # NoArg)
      /\ ~ TaskPoolFull(TaskList) => TaskList' = Append(TaskList, e) /\ lost' = lost
  BY <1>2 DEF Deliver
<1>4. s \in ArmedIn(pool) /\ s \in Slot /\ pool[s] \in Timer /\ ArmedIn(pool') = ArmedIn(pool) \ {s}
  BY <1>1, <1>2, DueFacts
<1>5. item = NoItem /\ TaskList \in Seq(Item) /\ e \in Item /\ e.arg = pool[s].arg
  BY <1>1, <1>2, <1>4 DEF Inv, TypeOK, Timer, Item
<1> HIDE DEF e, s
<1>6. \A r \in ArmedIn(pool') : r \in ArmedIn(pool) /\ r # s /\ pool'[r] = pool[r]
  <2>1. \A r \in Slot : r # s => pool'[r] = pool[r]
    BY <1>1, <1>2, <1>4 DEF Inv, Hashed, Pool
  <2> QED BY <1>4, <2>1 DEF ArmedIn
<1>7. HeldOnce(pool, TaskList, item, heap) /\ (lost \/ Kept(pool, TaskList, item, heap))
  BY DEF ArgInv
<1>8. CASE TaskPoolFull(TaskList)
  <2>1. HeldOnce(pool', TaskList, item, heap)
    BY <1>5, <1>6, <1>7 DEF HeldOnce
  <2>2. ASSUME pool[s].arg = NoArg, Kept(pool, TaskList, item, heap)
        PROVE  Kept(pool', TaskList, item, heap)
    <3> SUFFICES ASSUME NEW a \in heap, NEW r \in ArmedIn(pool), pool[r].arg = a
                 PROVE  \E x \in ArmedIn(pool') : pool'[x].arg = a
      BY <2>2 DEF Kept
    <3>1. a # NoArg
      BY <1>1, TimerAssumption DEF Inv, TypeOK
    <3>2. r # s
      BY <2>2, <3>1
    <3> QED BY <1>4, <1>6, <3>2
  <2>3. lost' \/ Kept(pool', TaskList, item, heap)
    BY <1>3, <1>7, <1>8, <2>2
  <2> QED BY <1>1, <1>2, <1>3, <1>8, <2>1, <2>3 DEF ArgInv
<1>9. CASE ~ TaskPoolFull(TaskList)
  <2> DEFINE n == Len(TaskList)
             q == Append(TaskList, e)
  <2>1. /\ n \in Nat /\ Len(q) = n + 1 /\ q[n + 1] = e
        /\ \A i \in 1 .. n : q[i] = TaskList[i]
    BY <1>5
  <2> HIDE DEF q, n
  <2>2. /\ n + 1 \in 1 .. n + 1
        /\ \A i \in 1 .. n : i \in 1 .. n + 1
        /\ \A i \in 1 .. n + 1 : i \in 1 .. n \/ i = n + 1
    BY <2>1
  <2>3. HeldOnce(pool', q, item, heap)
    <3>1. /\ \A r, x \in ArmedIn(pool') : pool'[r].arg = pool'[x].arg /\ pool'[r].arg # NoArg => r = x
          /\ \A r \in ArmedIn(pool') : pool'[r].arg \in heap \cup {NoArg}
          /\ \A r \in ArmedIn(pool') : pool'[r].period # 0 => pool'[r].arg = NoArg
      BY <1>6, <1>7 DEF HeldOnce
    <3>2. \A i, j \in 1 .. Len(q) : q[i].arg = q[j].arg /\ q[i].arg # NoArg => i = j
      BY <1>4, <1>5, <1>7, <2>1, <2>2 DEF HeldOnce, n
    <3>3. \A r \in ArmedIn(pool'), i \in 1 .. Len(q) : pool'[r].arg = q[i].arg => pool'[r].arg = NoArg
      BY <1>4, <1>5, <1>6, <1>7, <2>1, <2>2 DEF HeldOnce, n
    <3>4. \A i \in 1 .. Len(q) : q[i].arg \in heap \cup {NoArg}
      BY <1>4, <1>5, <1>7, <2>1, <2>2 DEF HeldOnce, n
    <3> QED BY <1>5, <3>1, <3>2, <3>3, <3>4 DEF HeldOnce
  <2>4. ASSUME Kept(pool, TaskList, item, heap) PROVE Kept(pool', q, item, heap)
    <3> SUFFICES ASSUME NEW a \in heap
                 PROVE  \/ \E r \in ArmedIn(pool') : pool'[r].arg = a
                        \/ \E i \in 1 .. Len(q) : q[i].arg = a
      BY DEF Kept
    <3>1. CASE \E i \in 1 .. n : TaskList[i].arg = a
      BY <2>1, <2>2, <3>1
    <3>2. ASSUME NEW r \in ArmedIn(pool), pool[r].arg = a
          PROVE  \/ \E x \in ArmedIn(pool') : pool'[x].arg = a
                 \/ \E i \in 1 .. Len(q) : q[i].arg = a
      <4>1. CASE r = s
        BY <1>5, <2>1, <2>2, <3>2, <4>1
      <4>2. CASE r # s
        BY <1>4, <1>6, <3>2, <4>2
      <4> QED BY <4>1, <4>2
    <3> QED BY <1>5, <2>4, <3>1, <3>2 DEF Kept, n
  <2>5. TaskList' = q /\ lost' = lost /\ item' = item /\ heap' = heap
    BY <1>2, <1>3, <1>9 DEF q
  <2>6. lost' \/ Kept(pool', q, item, heap)
    BY <1>7, <2>4, <2>5
  <2> QED BY <1>1, <2>3, <2>5, <2>6 DEF ArgInv
<1> QED BY <1>8, <1>9

LEMMA FireCyclicArgs ==
  ASSUME ArgInv, FireCyclic
  PROVE  ArgInv'
<1> DEFINE s == Head(Bucket)
           e == [p |-> pool[s].p, id |-> pool[s].id, arg |-> pool[s].arg]
<1>1. Inv /\ Inv'
  BY FireCyclicInv DEF ArgInv
<1>2. /\ Deliver(pool[s]) /\ pool[s].period # 0
      /\ UNCHANGED <<item, heap>>
  BY DEF FireCyclic
<1>3. /\ ArmedIn(pool') = ArmedIn(pool) /\ s \in ArmedIn(pool)
      /\ pool'[s] = [pool[s] EXCEPT !.match = (TimerTick + pool[s].period) % TickRange]
      /\ \A r \in ArmedIn(pool) \ {s} : pool'[r] = pool[r]
  BY <1>1, FireCyclicFacts
<1>4. pool[s] \in Timer
  BY <1>1, <1>3, ArmedFacts DEF Inv, Hashed
<1>5. pool[s].arg = NoArg
  BY <1>2, <1>3 DEF ArgInv, HeldOnce
<1>6. \/ TaskList' = TaskList /\ lost' = (lost \/ pool[s].arg # NoArg)
      \/ TaskList' = Append(TaskList, e) /\ lost' = lost
  BY <1>2 DEF Deliver
<1>7. e \in Item /\ e.arg = NoArg /\ TaskList \in Seq(Item)
  BY <1>1, <1>4, <1>5 DEF Inv, TypeOK, Timer, Item
<1> HIDE DEF s, e
<1>8. \A r \in ArmedIn(pool) : pool'[r].arg = pool[r].arg /\ pool'[r].period = pool[r].period
  BY <1>3, <1>4 DEF Timer
<1>9. /\ HeldOnce(pool', TaskList, item, heap)
      /\ Kept(pool, TaskList, item, heap) => Kept(pool', TaskList, item, heap)
  BY <1>3, <1>8 DEF ArgInv, HeldOnce, Kept
<1>10. CASE TaskList' = TaskList /\ lost' = (lost \/ pool[s].arg # NoArg)
  BY <1>1, <1>2, <1>5, <1>9, <1>10 DEF ArgInv
<1>11. CASE TaskList' = Append(TaskList, e) /\ lost' = lost
  <2>1. NoArg \notin heap /\ heap \cup ({e.arg} \ {NoArg}) = heap
    BY <1>1, <1>7, TimerAssumption DEF Inv, TypeOK
  <2>2. /\ HeldOnce(pool', Append(TaskList, e), item, heap)
        /\ Kept(pool', TaskList, item, heap) => Kept(pool', Append(TaskList, e), item, heap)
    BY <1>7, <1>9, <2>1, ItemHeldOnce
  <2> QED BY <1>1, <1>2, <1>9, <1>11, <2>2 DEF ArgInv
<1> QED BY <1>6, <1>10, <1>11

LEMMA NextArgs ==
  ASSUME ArgInv, ~ CyclicArg, [Next]_vars
  PROVE  ArgInv'
<1>1. CASE UNCHANGED vars
  <2>1. Inv'
    BY NextInv DEF ArgInv
  <2> QED BY <1>1, <2>1 DEF vars, ArgInv
<1>2. CASE Msg_Run1ms \/ LoopEnds
  <2>1. Inv'
    BY NextInv DEF ArgInv
  <2>2. UNCHANGED <<pool, TaskList, item, heap, lost>>
    BY <1>2 DEF Msg_Run1ms, LoopEnds
  <2> QED BY <2>1, <2>2 DEF ArgInv
<1> QED BY <1>1, <1>2, CallsArgs, RunArgs, FireOnceArgs, FireCyclicArgs DEF Next

LEMMA InitArgs == Init => ArgInv
<1> SUFFICES ASSUME Init PROVE ArgInv
  OBVIOUS
<1>1. ArmedIn(pool) = {} /\ Len(TaskList) = 0 /\ item = NoItem /\ heap = {}
  BY DEF Init, ArmedIn
<1>2. 1 .. Len(TaskList) = {}
  BY <1>1
<1> QED BY <1>1, <1>2, InvInit DEF ArgInv, HeldOnce, Kept

(***************************************************************************)
(* When applications give no argument to cyclic timers, every argument     *)
(* that is allocated is held by one timer, item or handler, which frees    *)
(* it, and no message holds one that was freed; one is left without a      *)
(* holder only by a timer that found the task pool full.                   *)
(***************************************************************************)
THEOREM ArgumentsHeldOnce ==
  ASSUME ~ CyclicArg
  PROVE  Spec => []ArgHeldOnce
<1>1. ArgInv /\ [Next]_vars => ArgInv'
  BY NextArgs
<1> QED BY <1>1, InitArgs, ArgInvHeldOnce, PTL DEF Spec

-----------------------------------------------------------------------------
(***************************************************************************)
(* The service: the timers of the table in the order in which they were    *)
(* set, each with the ticks it has left, are the timers of the service.    *)
(***************************************************************************)
Timed(t, now) ==
  [p |-> t.p, id |-> t.id, arg |-> t.arg, period |-> t.period, left |-> RemainTime(t, now)]

View(pl, st, now) == [i \in 1 .. Len(st) |-> Timed(pl[st[i]], now)]

LEMMA ViewFacts ==
  /\ TimersSet = View(pool, set, TimerTick)
  /\ TimersSet' = View(pool', set', TimerTick')
<1>1. TimersSet = View(pool, set, TimerTick)
  BY DEF TimersSet, View, Timed
<1>2. TimersSet' = View(pool', set', TimerTick')
  BY DEF TimersSet, View, Timed, RemainTime
<1> QED BY <1>1, <1>2

LEMMA ViewEach ==
  ASSUME NEW pl, NEW st \in Seq(Slot), NEW now
  PROVE  /\ Len(View(pl, st, now)) = Len(st)
         /\ \A i \in 1 .. Len(st) : View(pl, st, now)[i] = Timed(pl[st[i]], now)
<1> DEFINE v == View(pl, st, now)
<1>1. Len(st) \in Nat /\ v = [i \in 1 .. Len(st) |-> Timed(pl[st[i]], now)]
  BY DEF View
<1> HIDE DEF v
<1>2. Len(v) = Len(st) /\ \A i \in 1 .. Len(st) : v[i] = Timed(pl[st[i]], now)
  BY <1>1
<1> QED BY <1>2 DEF v

(* Timers that go leave the others as they are, in their order. *)
LEMMA ViewOnly ==
  \A pl, pk, now : \A st \in Seq(Slot) : \A I \in SUBSET (1 .. Len(st)) :
    (\A i \in I : pk[st[i]] = pl[st[i]]) =>
      View(pk, Only(st, I), now) = Only(View(pl, st, now), I)
<1> SUFFICES ASSUME NEW pl, NEW pk, NEW now, NEW st \in Seq(Slot),
                    NEW I \in SUBSET (1 .. Len(st)), \A i \in I : pk[st[i]] = pl[st[i]]
             PROVE  View(pk, Only(st, I), now) = Only(View(pl, st, now), I)
  OBVIOUS
<1> DEFINE v == View(pl, st, now)
           n == Len(st)
           c == Cardinality(I)
<1>1. /\ n \in Nat /\ Len(v) = n
      /\ \A i \in 1 .. n : v[i] = Timed(pl[st[i]], now)
  BY ViewEach
<1>2. CASE I = 1 .. n
  <2>1. Only(st, I) = st /\ Only(v, I) = v
    BY <1>1, <1>2 DEF Only
  <2>2. View(pk, st, now) = View(pl, st, now)
    BY <1>2 DEF View
  <2> QED BY <2>1, <2>2
<1>3. CASE I # 1 .. n
  <2>1. c \in Nat /\ \A k \in 1 .. c : Nth(I, k) \in I
    BY <1>1, NthFacts
  <2> DEFINE o == Only(st, I)
  <2>2. /\ o = [k \in 1 .. c |-> st[Nth(I, k)]]
        /\ Only(v, I) = [k \in 1 .. c |-> v[Nth(I, k)]]
    BY <1>1, <1>3 DEF Only
  <2> HIDE DEF o, c, v
  <2>3. Len(o) = c /\ \A k \in 1 .. c : o[k] = st[Nth(I, k)]
    BY <2>1, <2>2
  <2>4. View(pk, o, now) = [k \in 1 .. c |-> Timed(pk[o[k]], now)]
    BY <2>3 DEF View
  <2>5. \A k \in 1 .. c : Timed(pk[o[k]], now) = v[Nth(I, k)]
    <3> SUFFICES ASSUME NEW k \in 1 .. c PROVE Timed(pk[o[k]], now) = v[Nth(I, k)]
      OBVIOUS
    <3> DEFINE i == Nth(I, k)
    <3>1. i \in I /\ i \in 1 .. n /\ o[k] = st[i]
      BY <2>1, <2>3
    <3> HIDE DEF i
    <3>2. pk[o[k]] = pl[st[i]]
      BY <3>1
    <3>3. v[i] = Timed(pl[st[i]], now)
      BY <1>1, <3>1
    <3>4. Timed(pk[o[k]], now) = v[i]
      BY <3>2, <3>3
    <3> QED BY <3>4 DEF i
  <2>6. View(pk, o, now) = Only(v, I)
    BY <2>2, <2>4, <2>5
  <2> QED BY <2>6 DEF o, v
<1> QED BY <1>2, <1>3

(* A timer that comes stands last. *)
LEMMA ViewAppend ==
  \A pl, pk, now : \A st \in Seq(Slot) : \A s \in Slot :
    (\A i \in 1 .. Len(st) : pk[st[i]] = pl[st[i]]) =>
      View(pk, Append(st, s), now) = Append(View(pl, st, now), Timed(pk[s], now))
<1> SUFFICES ASSUME NEW pl, NEW pk, NEW now, NEW st \in Seq(Slot), NEW s \in Slot,
                    \A i \in 1 .. Len(st) : pk[st[i]] = pl[st[i]]
             PROVE  View(pk, Append(st, s), now) = Append(View(pl, st, now), Timed(pk[s], now))
  OBVIOUS
<1> DEFINE v == View(pl, st, now)
           n == Len(st)
           o == Append(st, s)
           w == View(pk, o, now)
<1>1. /\ n \in Nat /\ o \in Seq(Slot) /\ Len(o) = n + 1 /\ o[n + 1] = s
      /\ \A i \in 1 .. n : o[i] = st[i]
  OBVIOUS
<1>2. v = [i \in 1 .. n |-> Timed(pl[st[i]], now)]
  BY DEF View
<1>3. w = [i \in 1 .. n + 1 |-> Timed(pk[o[i]], now)]
  BY <1>1 DEF View
<1>4. \A i \in 1 .. n : Timed(pk[o[i]], now) = Timed(pl[st[i]], now)
  BY <1>1
<1> DEFINE e == Timed(pk[s], now)
<1> HIDE DEF v, w, o, n, e
<1>5. Len(v) = n /\ \A i \in 1 .. n : v[i] = Timed(pl[st[i]], now)
  BY <1>1, <1>2
<1>6. Append(v, e) = [i \in 1 .. n + 1 |-> IF i = n + 1 THEN e ELSE v[i]]
  BY <1>1, <1>2, <1>5
<1>7. \A i \in 1 .. n + 1 : Timed(pk[o[i]], now) = IF i = n + 1 THEN e ELSE v[i]
  <2> SUFFICES ASSUME NEW i \in 1 .. n + 1
               PROVE  Timed(pk[o[i]], now) = IF i = n + 1 THEN e ELSE v[i]
    OBVIOUS
  <2>1. CASE i = n + 1
    BY <1>1, <2>1 DEF e
  <2>2. CASE i # n + 1
    <3>1. i \in 1 .. n
      BY <1>1, <2>2
    <3> QED BY <1>4, <1>5, <2>2, <3>1
  <2> QED BY <2>1, <2>2
<1>8. w = Append(v, e)
  BY <1>3, <1>6, <1>7
<1> QED BY <1>8 DEF w, v, o, e

(* Both modules take the lists from DList. *)
LEMMA SameOnly ==
  ASSUME NEW list, NEW I
  PROVE  Service!Only(list, I) = Only(list, I)
<1>0. \A S : Service!Cardinality(S) = Cardinality(S)
  BY DEF Cardinality, Service!Cardinality
<1>1. \A k : Service!Nth(I, k) = Nth(I, k)
  <2> SUFFICES ASSUME NEW k PROVE Service!Nth(I, k) = Nth(I, k)
    OBVIOUS
  <2> QED BY <1>0, Zenon DEF Nth, Service!Nth
<1>2. [k \in 1 .. Cardinality(I) |-> list[Service!Nth(I, k)]] =
        [k \in 1 .. Cardinality(I) |-> list[Nth(I, k)]]
  BY <1>1
<1> QED BY <1>0, <1>2, Zenon DEF Only, Service!Only

(* The timers that are left when those of D go. *)
LEMMA CancelledView ==
  ASSUME Inv, NEW D
  PROVE  LET k == Cancelled(D) IN
         View(k.pool, k.set, TimerTick) =
           Only(TimersSet, {i \in 1 .. Len(set) : set[i] \notin D})
<1> DEFINE k == Cancelled(D)
           I == {i \in 1 .. Len(set) : set[i] \notin D}
<1>1. k.set = Only(set, I) /\ k.pool = [s \in Slot |-> IF s \in D THEN NoTimer ELSE pool[s]]
  BY DEF Cancelled, Removed
<1>2. set \in Seq(Slot) /\ I \in SUBSET (1 .. Len(set))
  BY DEF Inv, TypeOK
<1>3. \A i \in I : k.pool[set[i]] = pool[set[i]]
  <2> SUFFICES ASSUME NEW i \in I PROVE k.pool[set[i]] = pool[set[i]]
    OBVIOUS
  <2>1. set[i] \in Slot /\ set[i] \notin D
    BY <1>2
  <2> QED BY <1>1, <2>1
<1> HIDE DEF k, I
<1>4. View(k.pool, Only(set, I), TimerTick) = Only(View(pool, set, TimerTick), I)
  <2> DEFINE pk == k.pool
  <2>1. /\ set \in Seq(Slot) /\ I \in SUBSET (1 .. Len(set))
        /\ \A i \in I : pk[set[i]] = pool[set[i]]
    BY <1>2, <1>3
  <2> HIDE DEF pk
  <2>2. View(pk, Only(set, I), TimerTick) = Only(View(pool, set, TimerTick), I)
    BY <2>1, ViewOnly
  <2> QED BY <2>2 DEF pk
<1> QED BY <1>1, <1>4, ViewFacts DEF k, I

LEMMA SetInOrder ==
  ASSUME Inv
  PROVE  /\ set \in Seq(Slot) /\ Len(TimersSet) = Len(set) /\ Len(set) \in Nat
         /\ IsInjective(set)
         /\ \A i \in 1 .. Len(set) :
              /\ set[i] \in ArmedIn(pool) /\ set[i] \in Slot /\ pool[set[i]] \in Timer
              /\ TimersSet[i] = Timed(pool[set[i]], TimerTick)
         /\ \A s \in ArmedIn(pool) : \E i \in 1 .. Len(set) : set[i] = s
         /\ \A i, j \in 1 .. Len(set) : set[i] = set[j] => i = j
         /\ \A i, j \in 1 .. Len(set) : Before(set, set[i], set[j]) => i < j
<1>1. set \in Seq(Slot) /\ IsInjective(set) /\ ToSet(set) = ArmedIn(pool) /\ pool \in Pool
  BY DEF Inv, Hashed, InOrder
<1>0. set \in Seq(Slot)
  BY <1>1
<1>2. /\ Len(TimersSet) = Len(set)
      /\ \A i \in 1 .. Len(set) : TimersSet[i] = Timed(pool[set[i]], TimerTick)
  <2>1. /\ Len(View(pool, set, TimerTick)) = Len(set)
        /\ \A i \in 1 .. Len(set) :
             View(pool, set, TimerTick)[i] = Timed(pool[set[i]], TimerTick)
    BY <1>0, ViewEach
  <2>2. TimersSet = View(pool, set, TimerTick)
    BY ViewFacts
  <2> QED BY <2>1, <2>2, Zenon
<1>3. /\ \A i \in 1 .. Len(set) : set[i] \in ArmedIn(pool)
      /\ \A s \in ArmedIn(pool) : \E i \in 1 .. Len(set) : set[i] = s
      /\ \A i, j \in 1 .. Len(set) : set[i] = set[j] => i = j
      /\ \A i, j \in 1 .. Len(set) : Before(set, set[i], set[j]) => i < j
  BY <1>1, BeforeFacts
<1>4. \A i \in 1 .. Len(set) : set[i] \in Slot /\ pool[set[i]] \in Timer
  BY <1>1, <1>3, ArmedFacts
<1>5. Len(set) \in Nat
  BY <1>1
<1> QED BY <1>1, <1>2, <1>3, <1>4, <1>5

(* What cancelling the messages of a process leaves is what it leaves of   *)
(* the timers and the queue of the service.                                *)
LEMMA WithoutListed ==
  ASSUME Inv, NEW p \in Process, NEW ids
  PROVE  LET k == Cancelled(Listed(p, ids)) IN
         View(k.pool, k.set, TimerTick) = Service!TimersWithout(p, ids)
<1> DEFINE D == Listed(p, ids)
           k == Cancelled(D)
           I == {i \in 1 .. Len(set) : set[i] \notin D}
           J == {i \in 1 .. Len(TimersSet) : ~ (TimersSet[i].p = p /\ TimersSet[i].id \in ids)}
<1>1. View(k.pool, k.set, TimerTick) = Only(TimersSet, I)
  BY CancelledView
<1>2. D = {s \in ArmedIn(pool) : pool[s].p = p /\ pool[s].id \in ids}
  BY ListedFacts
<1>3. I = J
  <2>1. ASSUME NEW i \in 1 .. Len(set)
        PROVE  set[i] \in D <=> TimersSet[i].p = p /\ TimersSet[i].id \in ids
    <3>1. set[i] \in ArmedIn(pool) /\ TimersSet[i] = Timed(pool[set[i]], TimerTick)
      BY SetInOrder
    <3>2. TimersSet[i].p = pool[set[i]].p /\ TimersSet[i].id = pool[set[i]].id
      BY <3>1 DEF Timed
    <3> QED BY <1>2, <3>1, <3>2
  <2>2. Len(TimersSet) = Len(set)
    BY SetInOrder
  <2> HIDE DEF D
  <2> QED BY <2>1, <2>2
<1>4. Service!TimersWithout(p, ids) = Service!Only(TimersSet, J)
  BY DEF Service!TimersWithout
<1> HIDE DEF I, J, k
<1> QED BY <1>1, <1>3, <1>4, SameOnly DEF k

LEMMA BlankedQueue ==
  ASSUME NEW p, NEW ids
  PROVE  DTask_Blank(p, ids) = Service!QueueWithout(p, ids)
BY DEF DTask_Blank, Service!QueueWithout, Service!Blanked

(* Nothing is due outside the loop of Msg_Run1ms. *)
LEMMA ServiceNoneDue ==
  ASSUME Inv, NoneDue
  PROVE  Service!NoneDue
<1> SUFFICES ASSUME NEW i \in 1 .. Len(TimersSet) PROVE TimersSet[i].left > 0
  BY DEF Service!NoneDue
<1>1. i \in 1 .. Len(set)
  BY SetInOrder
<1>2. set[i] \in ArmedIn(pool) /\ TimersSet[i] = Timed(pool[set[i]], TimerTick)
  BY <1>1, SetInOrder
<1>3. RemainTime(pool[set[i]], TimerTick) > 0
  BY <1>2 DEF NoneDue
<1>4. TimersSet[i].left = RemainTime(pool[set[i]], TimerTick)
  BY <1>2 DEF Timed
<1> QED BY <1>3, <1>4

LEMMA NothingListed ==
  ASSUME Inv, NEW p \in Process
  PROVE  /\ Listed(p, {}) = {}
         /\ Service!TimersWithout(p, {}) = TimersSet
         /\ Service!QueueWithout(p, {}) = TaskList
<1>1. Listed(p, {}) = {}
  BY DEF Listed
<1>2. Service!TimersWithout(p, {}) = TimersSet
  <2> DEFINE J == {i \in 1 .. Len(TimersSet) :
                     ~ (TimersSet[i].p = p /\ TimersSet[i].id \in {})}
  <2>1. J = 1 .. Len(TimersSet)
    OBVIOUS
  <2>2. Service!TimersWithout(p, {}) = Service!Only(TimersSet, J)
    BY DEF Service!TimersWithout
  <2> HIDE DEF J
  <2> QED BY <2>1, <2>2, SameOnly DEF Only
<1>3. Service!QueueWithout(p, {}) = TaskList
  <2>1. Service!QueueWithout(p, {}) = [i \in 1 .. Len(TaskList) |-> TaskList[i]]
    BY DEF Service!QueueWithout
  <2>2. TaskList \in Seq(Item)
    BY DEF Inv, TypeOK
  <2>3. TaskList = [i \in 1 .. Len(TaskList) |-> TaskList[i]]
    BY <2>2
  <2> QED BY <2>1, <2>3
<1> QED BY <1>1, <1>2, <1>3

-----------------------------------------------------------------------------
(* The steps of the service.  A call that sets a message. *)
LEMMA SetImplemented ==
  ASSUME Inv, ~ firing, NEW p \in Process, NEW id \in MsgId, NEW arg \in Arg \cup {NoArg},
         NEW delay \in Delay \cup Period, NEW period \in Period, period # 0 => delay = period,
         NEW again \in BOOLEAN,
         LET ids == IF again THEN {id} ELSE {}
         IN Send(p, id, arg, delay, period, Cancelled(Listed(p, ids)), DTask_Blank(p, ids))
  PROVE  [Service!Next]_(Service!vars)
<1> DEFINE ids == IF again THEN {id} ELSE {}
           k == Cancelled(Listed(p, ids))
           q == DTask_Blank(p, ids)
           W == Service!TimersWithout(p, ids)
           t == [p |-> p, id |-> id, arg |-> arg, period |-> period, left |-> delay]
<1>1. /\ Send(p, id, arg, delay, period, k, q)
      /\ TimerTick' = TimerTick
  BY DEF Send
<1>2. /\ View(k.pool, k.set, TimerTick) = W
      /\ q = Service!QueueWithout(p, ids)
  BY WithoutListed, BlankedQueue
<1>3. Service!NoneDue
  BY ServiceNoneDue DEF Inv
<1>4. delay \in Clock /\ delay \in Nat
  BY TimerAssumption DEF Clock
<1>5. t \in Service!Timer /\ t.left = delay /\ t.p = p /\ t.id = id
  BY DEF Service!Timer
<1>6. TimersSet' = View(pool', set', TimerTick)
  BY <1>1, ViewFacts
<1> HIDE DEF ids, k, q, W, t
<1>7. ASSUME TaskList' = q, TimersSet' = W
      PROVE  [Service!Next]_(Service!vars)
  <2>1. CASE again
    <3>1. Service!Cancel(p, {id})
      BY <1>2, <1>7, <2>1 DEF Service!Cancel, Service!Refuse, ids, W
    <3> QED BY <1>3, <3>1 DEF Service!Next
  <2>2. CASE ~ again
    <3>1. W = TimersSet /\ q = TaskList
      BY <1>2, <2>2, NothingListed DEF ids, W
    <3> QED BY <1>7, <3>1 DEF Service!vars
  <2> QED BY <2>1, <2>2
<1>8. ASSUME \/ t.left > 0 /\ TaskList' = q /\ TimersSet' = Append(W, t)
             \/ t.left = 0 /\ TaskList' = Append(q, Service!Message(t)) /\ TimersSet' = W
      PROVE  [Service!Next]_(Service!vars)
  <2>1. Service!Set(t, again)
    BY <1>2, <1>5, <1>8 DEF Service!Set, ids, W
  <2> QED BY <1>3, <1>5, <2>1 DEF Service!Next
<1>9. CASE delay = 0
  <2>1. pool' = k.pool /\ set' = k.set
    BY <1>1, <1>9 DEF Send
  <2>2. TimersSet' = W
    BY <1>2, <1>6, <2>1
  <2>3. TaskList' = q \/ TaskList' = Append(q, [p |-> p, id |-> id, arg |-> arg])
    BY <1>1, <1>9 DEF Send
  <2>4. Service!Message(t) = [p |-> p, id |-> id, arg |-> arg]
    BY DEF Service!Message, t
  <2> QED BY <1>5, <1>7, <1>8, <1>9, <2>2, <2>3, <2>4
<1>10. CASE delay # 0 /\ FreeSlots(k.pool) = {}
  <2>1. pool' = k.pool /\ set' = k.set /\ TaskList' = q
    BY <1>1, <1>10 DEF Send
  <2> QED BY <1>2, <1>6, <1>7, <2>1
<1>11. CASE delay # 0 /\ FreeSlots(k.pool) # {}
  <2> DEFINE s == AllocateTimer(k.pool)
             e == [p |-> p, id |-> id, arg |-> arg, period |-> period,
                   match |-> (TimerTick + delay) % TickRange]
  <2>1. TaskList' = q /\ pool' = [k.pool EXCEPT ![s] = e] /\ set' = Append(k.set, s)
    BY <1>1, <1>11 DEF Send
  <2>2. /\ k.pool \in Pool /\ k.set \in Seq(Slot) /\ ToSet(k.set) = ArmedIn(k.pool)
        /\ TimerTick \in Clock
    BY CancelledFacts DEF k, Hashed, InOrder, Inv, TypeOK, Clock
  <2>3. s \in Slot /\ s \notin ArmedIn(k.pool)
    BY <1>11, <2>2, AllocateFacts
  <2>4. e \in Timer /\ e.match = (TimerTick + delay) % TickRange
    <3>1. (TimerTick + delay) % TickRange \in 0 .. TickRange - 1
      BY <1>4, <2>2, TimerAssumption DEF Clock
    <3> QED BY <3>1 DEF Timer
  <2>5. Timed(e, TimerTick) = t
    <3>1. RemainTime(e, TimerTick) = delay
      BY <1>4, <2>2, <2>4, SetFacts
    <3> QED BY <3>1 DEF Timed, t
  <2> HIDE DEF s, e
  <2>6. pool'[s] = e /\ \A r \in Slot \ {s} : pool'[r] = k.pool[r]
    BY <2>1, <2>2, <2>3 DEF Pool
  <2>7. \A i \in 1 .. Len(k.set) : pool'[k.set[i]] = k.pool[k.set[i]]
    <3> SUFFICES ASSUME NEW i \in 1 .. Len(k.set)
                 PROVE  pool'[k.set[i]] = k.pool[k.set[i]]
      OBVIOUS
    <3>1. k.set[i] \in ArmedIn(k.pool) /\ k.set[i] \in Slot
      BY <2>2, BeforeFacts
    <3> QED BY <2>3, <2>6, <3>1
  <2>8. TimersSet' = Append(W, t)
    <3> DEFINE st == k.set
               pl == k.pool
               pk == pool'
    <3>1. /\ st \in Seq(Slot) /\ s \in Slot
          /\ \A i \in 1 .. Len(st) : pk[st[i]] = pl[st[i]]
      BY <2>2, <2>3, <2>7
    <3> HIDE DEF st, pl, pk
    <3>2. View(pk, Append(st, s), TimerTick) = Append(View(pl, st, TimerTick), Timed(pk[s], TimerTick))
      BY <3>1, ViewAppend
    <3> QED BY <1>2, <1>6, <2>1, <2>5, <2>6, <3>2 DEF st, pl, pk
  <2>9. t.left > 0
    BY <1>4, <1>5, <1>11
  <2> QED BY <1>8, <2>1, <2>8, <2>9
<1> QED BY <1>9, <1>10, <1>11

(* A call that cancels the messages of a process with some identifiers. *)
LEMMA CancelImplemented ==
  ASSUME Inv, ~ firing, NEW p \in Process, NEW ids,
         ids = MsgId \/ \E m \in MsgId : ids = {m},
         Cancel(Listed(p, ids)), TaskList' = DTask_Blank(p, ids), TimerTick' = TimerTick
  PROVE  [Service!Next]_(Service!vars)
<1> DEFINE k == Cancelled(Listed(p, ids))
<1>1. pool' = k.pool /\ set' = k.set
  BY DEF Cancel
<1>2. View(k.pool, k.set, TimerTick) = Service!TimersWithout(p, ids)
  BY WithoutListed
<1> HIDE DEF k
<1>3. TimersSet' = Service!TimersWithout(p, ids)
  BY <1>1, <1>2, ViewFacts
<1>4. TaskList' = Service!QueueWithout(p, ids)
  BY BlankedQueue
<1>5. Service!NoneDue
  BY ServiceNoneDue DEF Inv
<1>6. Service!Cancel(p, ids)
  BY <1>3, <1>4 DEF Service!Cancel, Service!Refuse
<1> QED BY <1>5, <1>6 DEF Service!Next

(* One timer that goes. *)
LEMMA OneGone ==
  ASSUME Inv, NEW i \in 1 .. Len(set)
  PROVE  LET k == Cancelled({set[i]}) IN
         /\ i \in 1 .. Len(TimersSet)
         /\ View(k.pool, k.set, TimerTick) = Service!OthersThan(i)
<1> DEFINE k == Cancelled({set[i]})
           I == {j \in 1 .. Len(set) : set[j] \notin {set[i]}}
           J == 1 .. Len(TimersSet) \ {i}
<1>1. View(k.pool, k.set, TimerTick) = Only(TimersSet, I)
  BY CancelledView
<1>2. I = J /\ i \in 1 .. Len(TimersSet)
  <2>1. Len(TimersSet) = Len(set) /\ \A j \in 1 .. Len(set) : set[j] = set[i] => j = i
    BY SetInOrder
  <2> QED BY <2>1
<1>3. Service!OthersThan(i) = Service!Only(TimersSet, J)
  BY DEF Service!OthersThan
<1> HIDE DEF I, J, k
<1> QED BY <1>1, <1>2, <1>3, SameOnly DEF k

LEMMA CancelFirstImplemented ==
  ASSUME Inv, NEW p \in Process, NEW id \in MsgId, Msg_CancelFirst(p, id)
  PROVE  [Service!Next]_(Service!vars)
<1>1. PICK j \in 1 .. Len(TimerList[p]) : Cancel({TimerList[p][j]})
  BY DEF Msg_CancelFirst
<1>2. ~ firing /\ TimerTick' = TimerTick /\ TaskList' = TaskList
  BY DEF Msg_CancelFirst, Callable
<1>3. TimerList[p][j] \in ArmedIn(pool)
  BY ListedFacts
<1>4. PICK i \in 1 .. Len(set) : set[i] = TimerList[p][j]
  BY <1>3, SetInOrder
<1> DEFINE k == Cancelled({set[i]})
<1>5. pool' = k.pool /\ set' = k.set
  BY <1>1, <1>4 DEF Cancel
<1>6. i \in 1 .. Len(TimersSet) /\ View(k.pool, k.set, TimerTick) = Service!OthersThan(i)
  BY OneGone
<1> HIDE DEF k
<1>7. TimersSet' = Service!OthersThan(i)
  BY <1>2, <1>5, <1>6, ViewFacts
<1>8. Service!NoneDue
  BY <1>2, ServiceNoneDue DEF Inv
<1>9. Service!CancelOne(i)
  BY <1>2, <1>7 DEF Service!CancelOne
<1> QED BY <1>6, <1>8, <1>9 DEF Service!Next

LEMMA CallsImplemented ==
  ASSUME Inv, Calls
  PROVE  [Service!Next]_(Service!vars)
<1>1. ASSUME NEW p \in Process, NEW id \in MsgId, NEW arg \in Arg \cup {NoArg},
             NEW delay \in Delay \cup Period, NEW period \in Period,
             period # 0 => delay = period,
             Msg_Send(p, id, arg, delay, period)
      PROVE  [Service!Next]_(Service!vars)
  <2>1. ~ firing /\ Send(p, id, arg, delay, period, Cancelled({}), TaskList)
    BY <1>1 DEF Msg_Send, Callable
  <2>2. Listed(p, {}) = {} /\ DTask_Blank(p, {}) = TaskList
    BY NothingListed, BlankedQueue
  <2>3. Send(p, id, arg, delay, period, Cancelled(Listed(p, {})), DTask_Blank(p, {}))
    BY <2>1, <2>2
  <2>4. LET ids == IF FALSE THEN {id} ELSE {}
        IN Send(p, id, arg, delay, period, Cancelled(Listed(p, ids)), DTask_Blank(p, ids))
    BY <2>3
  <2>5. FALSE \in BOOLEAN
    OBVIOUS
  <2> QED BY <1>1, <2>1, <2>4, <2>5, SetImplemented
<1>2. ASSUME NEW p \in Process, NEW id \in MsgId, NEW arg \in Arg \cup {NoArg},
             NEW delay \in Delay \cup Period, NEW period \in Period,
             period # 0 => delay = period,
             Msg_ReSend(p, id, arg, delay, period)
      PROVE  [Service!Next]_(Service!vars)
  <2>1. ~ firing /\ Send(p, id, arg, delay, period, Cancelled(Listed(p, {id})), DTask_Blank(p, {id}))
    BY <1>2 DEF Msg_ReSend, Callable
  <2>2. LET ids == IF TRUE THEN {id} ELSE {}
        IN Send(p, id, arg, delay, period, Cancelled(Listed(p, ids)), DTask_Blank(p, ids))
    BY <2>1
  <2>3. TRUE \in BOOLEAN
    OBVIOUS
  <2> QED BY <1>2, <2>1, <2>2, <2>3, SetImplemented
<1>3. ASSUME NEW p \in Process, NEW id \in MsgId, NEW arg \in Arg \cup {NoArg},
             \/ \E delay \in Delay :
                  Msg_Send(p, id, arg, delay, 0) \/ Msg_ReSend(p, id, arg, delay, 0)
             \/ \E period \in Period \ {0} :
                  Msg_Send(p, id, arg, period, period) \/ Msg_ReSend(p, id, arg, period, period)
      PROVE  [Service!Next]_(Service!vars)
  BY <1>1, <1>2, <1>3, TimerAssumption
<1>4. ASSUME NEW p \in Process, NEW id \in MsgId, Msg_CancelAll(p, id)
      PROVE  [Service!Next]_(Service!vars)
  <2>1. /\ ~ firing /\ TimerTick' = TimerTick
        /\ Cancel(Listed(p, {id})) /\ TaskList' = DTask_Blank(p, {id})
    BY <1>4 DEF Msg_CancelAll, Callable
  <2> QED BY <2>1, CancelImplemented
<1>5. ASSUME NEW p \in Process, Process_Exit(p)
      PROVE  [Service!Next]_(Service!vars)
  <2>1. /\ ~ firing /\ TimerTick' = TimerTick
        /\ Cancel(Listed(p, MsgId)) /\ TaskList' = DTask_Blank(p, MsgId)
    BY <1>5 DEF Process_Exit, Callable
  <2> QED BY <2>1, CancelImplemented
<1>6. ASSUME NEW p \in Process, Process_Start(p)
      PROVE  [Service!Next]_(Service!vars)
  <2>1. UNCHANGED <<TimerTick, pool, set, TaskList>>
    BY <1>6 DEF Process_Start
  <2> QED BY <2>1, ViewFacts DEF Service!vars
<1> QED BY <1>3, <1>4, <1>5, <1>6, CancelFirstImplemented DEF Calls

LEMMA RunImplemented ==
  ASSUME Inv, DTask_Run
  PROVE  [Service!Next]_(Service!vars)
<1>1. UNCHANGED <<TimerTick, pool, set>>
  BY DEF DTask_Run, DropItem, CallHandler, HandlerReturns
<1>2. TimersSet' = TimersSet
  BY <1>1, ViewFacts
<1>3. CASE TaskList' = TaskList
  BY <1>2, <1>3 DEF Service!vars
<1>4. CASE TaskList # <<>> /\ TaskList' = Tail(TaskList)
  <2>1. Service!Take
    BY <1>2, <1>4 DEF Service!Take
  <2> QED BY <2>1 DEF Service!Next
<1> QED BY <1>3, <1>4 DEF DTask_Run, DropItem, CallHandler, HandlerReturns

LEMMA TickImplemented ==
  ASSUME Inv, Msg_Run1ms
  PROVE  [Service!Next]_(Service!vars)
<1>1. /\ ~ firing /\ TimerTick' = (TimerTick + 1) % TickRange
      /\ UNCHANGED <<pool, set, TaskList>>
  BY DEF Msg_Run1ms
<1>2. NoneDue /\ TimerTick \in Clock
  BY <1>1 DEF Inv, TypeOK, Clock
<1>3. Service!NoneDue
  BY <1>2, ServiceNoneDue
<1>4. TimersSet' = [i \in 1 .. Len(set) |-> Timed(pool[set[i]], TimerTick')]
  BY <1>1, ViewFacts DEF View
<1>5. ASSUME NEW i \in 1 .. Len(set)
      PROVE  Timed(pool[set[i]], TimerTick') = [TimersSet[i] EXCEPT !.left = @ - 1]
  <2> DEFINE t == pool[set[i]]
  <2>1. set[i] \in ArmedIn(pool) /\ t \in Timer /\ TimersSet[i] = Timed(t, TimerTick)
    BY SetInOrder
  <2>2. RemainTime(t, TimerTick) > 0
    BY <1>2, <2>1 DEF NoneDue
  <2> HIDE DEF t
  <2>3. RemainTime(t, TimerTick') = RemainTime(t, TimerTick) - 1
    BY <1>1, <1>2, <2>1, <2>2, TickFacts
  <2>4. Timed(t, TimerTick') = [Timed(t, TimerTick) EXCEPT !.left = @ - 1]
    BY <2>3 DEF Timed
  <2> QED BY <2>1, <2>4 DEF t
<1>6. Len(TimersSet) = Len(set)
  BY SetInOrder
<1>7. TimersSet' = [i \in 1 .. Len(TimersSet) |-> [TimersSet[i] EXCEPT !.left = @ - 1]]
  BY <1>4, <1>5, <1>6
<1>8. Service!Tick
  BY <1>1, <1>7 DEF Service!Tick
<1> QED BY <1>3, <1>8 DEF Service!Next

(* The timer that fires is, of those that are due, the one set first. *)
LEMMA FirstDue ==
  ASSUME Inv, HeadIsDue
  PROVE  \E i \in 1 .. Len(set) :
           /\ set[i] = Head(Bucket)
           /\ TimersSet[i].left = 0
           /\ \A j \in 1 .. i - 1 : TimersSet[j].left > 0
<1> DEFINE s == Head(Bucket)
           b == IndexOf(TimerTick)
<1>1. s \in ArmedIn(pool) /\ pool[s].match = TimerTick
  BY DueFacts
<1>2. /\ TimerTick \in Clock /\ b \in Index /\ Bucket = MsgTimerTable[b] /\ Bucket # <<>>
      /\ Bucket \in Seq(Slot) /\ IsInjective(Bucket)
      /\ ToSet(Bucket) = {r \in ArmedIn(pool) : IndexOf(pool[r].match) = b}
      /\ Sorted(pool, MsgTimerTable, set, TimerTick)
  <2>1. TimerTick \in Clock
    BY DEF Inv, TypeOK, Clock
  <2>2. b \in Index
    BY <2>1, IndexFacts
  <2> QED BY <2>1, <2>2 DEF Inv, Hashed, InTable, Bucket, HeadIsDue
<1>3. \A r \in ToSet(Bucket) \ {s} : Before(Bucket, s, r)
  BY <1>2, HeadFacts
<1>4. PICK i \in 1 .. Len(set) : set[i] = s
  BY <1>1, SetInOrder
<1> HIDE DEF s
<1>5. \A j \in 1 .. Len(set) :
        /\ set[j] \in ArmedIn(pool) /\ set[j] \in Slot
        /\ TimersSet[j].left = RemainTime(pool[set[j]], TimerTick)
        /\ TimersSet[j].left \in Nat
        /\ TimersSet[j].left = 0 <=> pool[set[j]].match = TimerTick
  <2> SUFFICES ASSUME NEW j \in 1 .. Len(set)
               PROVE  /\ set[j] \in ArmedIn(pool) /\ set[j] \in Slot
                      /\ TimersSet[j].left = RemainTime(pool[set[j]], TimerTick)
                      /\ TimersSet[j].left \in Nat
                      /\ TimersSet[j].left = 0 <=> pool[set[j]].match = TimerTick
    OBVIOUS
  <2>1. /\ set[j] \in ArmedIn(pool) /\ set[j] \in Slot /\ pool[set[j]] \in Timer
        /\ TimersSet[j] = Timed(pool[set[j]], TimerTick)
    BY SetInOrder
  <2>2. TimersSet[j].left = RemainTime(pool[set[j]], TimerTick)
    BY <2>1 DEF Timed
  <2> QED BY <1>2, <2>1, <2>2, RemainFacts DEF Clock
<1>6. ASSUME NEW j \in 1 .. i - 1 PROVE TimersSet[j].left > 0
  <2>1. j \in 1 .. Len(set) /\ j < i /\ ~ i < j /\ j # i
    BY SetInOrder
  <2> SUFFICES ASSUME TimersSet[j].left = 0 PROVE FALSE
    BY <1>5, <2>1
  <2> DEFINE r == set[j]
  <2>2. r \in ToSet(Bucket) /\ r # s
    BY <1>2, <1>4, <1>5, <2>1, SetInOrder
  <2>3. Before(MsgTimerTable[b], s, r)
    BY <1>2, <1>3, <2>2
  <2>4. RemainTime(pool[s], TimerTick) = RemainTime(pool[r], TimerTick)
    BY <1>1, <1>4, <1>5, <2>1
  <2>5. Before(set, s, r)
    BY <1>2, <1>4, <1>5, <2>1, <2>3, <2>4 DEF Sorted
  <2>6. i < j
    BY <1>4, <2>1, <2>5, SetInOrder
  <2> QED BY <2>1, <2>6
<1> QED BY <1>1, <1>4, <1>5, <1>6 DEF s

(* Its message goes to the queue, or finds the task pool full. *)
LEMMA DeliverImplemented ==
  ASSUME Inv, firing, NEW t \in Timer, Deliver(t)
  PROVE  LET m == Service!Message(Timed(t, TimerTick)) IN
         TaskList' = IF Len(TaskList) < TASK_ITEM_NUM THEN Append(TaskList, m) ELSE TaskList
<1> DEFINE m == Service!Message(Timed(t, TimerTick))
           n == Len(TaskList)
<1>1. item = NoItem /\ n \in Nat /\ TASK_ITEM_NUM \in Nat
  BY TimerAssumption DEF Inv, TypeOK
<1>2. TaskPoolFull(TaskList) <=> n + 0 >= TASK_ITEM_NUM
  BY <1>1 DEF TaskPoolFull
<1>3. m = [p |-> t.p, id |-> t.id, arg |-> t.arg]
  BY DEF Service!Message, Timed
<1> HIDE DEF m, n
<1>4. TaskPoolFull(TaskList) <=> ~ n < TASK_ITEM_NUM
  BY <1>1, <1>2
<1>5. TaskList' = IF n < TASK_ITEM_NUM THEN Append(TaskList, m) ELSE TaskList
  BY <1>3, <1>4 DEF Deliver
<1> QED BY <1>5 DEF m, n

LEMMA FireOnceImplemented ==
  ASSUME Inv, FireOnce
  PROVE  [Service!Next]_(Service!vars)
<1> DEFINE s == Head(Bucket)
<1>1. /\ firing /\ HeadIsDue /\ pool[s].period = 0 /\ Deliver(pool[s])
      /\ pool' = [pool EXCEPT ![s] = NoTimer] /\ set' = Removed(set, {s})
      /\ TimerTick' = TimerTick
  BY DEF FireOnce
<1>2. PICK i \in 1 .. Len(set) :
        /\ set[i] = s
        /\ TimersSet[i].left = 0
        /\ \A j \in 1 .. i - 1 : TimersSet[j].left > 0
  BY <1>1, FirstDue
<1> HIDE DEF s
<1>3. /\ s \in Slot /\ pool[s] \in Timer /\ pool \in Pool
      /\ TimersSet[i] = Timed(pool[s], TimerTick)
  BY <1>2, SetInOrder DEF Inv, Hashed
<1> DEFINE k == Cancelled({set[i]})
<1>4. pool' = k.pool /\ set' = k.set
  <2>1. k.pool = [r \in Slot |-> IF r \in {s} THEN NoTimer ELSE pool[r]] /\ k.set = Removed(set, {s})
    BY <1>2 DEF Cancelled
  <2>2. pool' = [r \in Slot |-> IF r \in {s} THEN NoTimer ELSE pool[r]]
    BY <1>1, <1>3 DEF Pool
  <2> QED BY <1>1, <2>1, <2>2
<1>5. i \in 1 .. Len(TimersSet) /\ View(k.pool, k.set, TimerTick) = Service!OthersThan(i)
  BY OneGone
<1> HIDE DEF k
<1>6. TimersSet' = Service!OthersThan(i)
  BY <1>1, <1>4, <1>5, ViewFacts
<1>7. TaskList' = IF Len(TaskList) < TASK_ITEM_NUM
                  THEN Append(TaskList, Service!Message(TimersSet[i])) ELSE TaskList
  BY <1>1, <1>3, DeliverImplemented
<1>8. TimersSet[i].period = 0
  BY <1>1, <1>3 DEF Timed
<1>9. Service!Fire(i)
  BY <1>2, <1>6, <1>7, <1>8 DEF Service!Fire
<1> QED BY <1>5, <1>9 DEF Service!Next

LEMMA FireCyclicImplemented ==
  ASSUME Inv, FireCyclic
  PROVE  [Service!Next]_(Service!vars)
<1> DEFINE s == Head(Bucket)
<1>1. /\ firing /\ HeadIsDue /\ pool[s].period # 0 /\ Deliver(pool[s])
      /\ set' = Append(Removed(set, {s}), s)
      /\ TimerTick' = TimerTick
  BY DEF FireCyclic
<1>2. PICK i \in 1 .. Len(set) :
        /\ set[i] = s
        /\ TimersSet[i].left = 0
        /\ \A j \in 1 .. i - 1 : TimersSet[j].left > 0
  BY <1>1, FirstDue
<1>a. /\ s \in ArmedIn(pool)
      /\ pool'[s] = [pool[s] EXCEPT !.match = (TimerTick + pool[s].period) % TickRange]
      /\ RemainTime(pool'[s], TimerTick) = pool[s].period
      /\ \A r \in ArmedIn(pool) \ {s} : pool'[r] = pool[r]
  BY FireCyclicFacts
<1> HIDE DEF s
<1>3. /\ s \in Slot /\ pool[s] \in Timer
      /\ TimersSet[i] = Timed(pool[s], TimerTick)
  BY <1>2, SetInOrder
<1> DEFINE k == Cancelled({set[i]})
           rest == Service!OthersThan(i)
<1>4. k.set = Removed(set, {s})
  BY <1>2 DEF Cancelled
<1>5. i \in 1 .. Len(TimersSet) /\ View(k.pool, k.set, TimerTick) = rest
  BY OneGone
<1>6. /\ k.set \in Seq(Slot) /\ ToSet(k.set) = ArmedIn(k.pool)
      /\ ArmedIn(k.pool) = ArmedIn(pool) \ {s}
      /\ \A r \in ArmedIn(k.pool) : k.pool[r] = pool[r]
  BY <1>2, CancelledFacts DEF Hashed, InOrder
<1> HIDE DEF k, rest
<1>7. TimersSet' = Append(rest, Timed(pool'[s], TimerTick))
  <2> DEFINE st == k.set
             pl == k.pool
             pk == pool'
  <2>1. \A j \in 1 .. Len(st) : pk[st[j]] = pl[st[j]]
    <3> SUFFICES ASSUME NEW j \in 1 .. Len(st) PROVE pk[st[j]] = pl[st[j]]
      OBVIOUS
    <3>1. st[j] \in ArmedIn(k.pool)
      BY <1>6, BeforeFacts
    <3> QED BY <1>a, <1>6, <3>1
  <2>2. st \in Seq(Slot)
    BY <1>6
  <2>3. TimersSet' = View(pk, Append(st, s), TimerTick)
    BY <1>1, <1>4, ViewFacts
  <2> HIDE DEF st, pl, pk
  <2>4. View(pk, Append(st, s), TimerTick) = Append(View(pl, st, TimerTick), Timed(pk[s], TimerTick))
    BY <1>3, <2>1, <2>2, ViewAppend
  <2> QED BY <1>5, <2>3, <2>4 DEF st, pl, pk
<1>8. Timed(pool'[s], TimerTick) = [TimersSet[i] EXCEPT !.left = TimersSet[i].period]
  <2> DEFINE t == pool[s]
             u == pool'[s]
  <2>1. u.p = t.p /\ u.id = t.id /\ u.arg = t.arg /\ u.period = t.period
    BY <1>a, <1>3 DEF Timer
  <2>2. RemainTime(u, TimerTick) = t.period
    BY <1>a
  <2> HIDE DEF t, u
  <2>3. Timed(u, TimerTick) = [Timed(t, TimerTick) EXCEPT !.left = Timed(t, TimerTick).period]
    BY <2>1, <2>2 DEF Timed
  <2> QED BY <1>3, <2>3 DEF t, u
<1>9. TaskList' = IF Len(TaskList) < TASK_ITEM_NUM
                  THEN Append(TaskList, Service!Message(TimersSet[i])) ELSE TaskList
  BY <1>1, <1>3, DeliverImplemented
<1>10. TimersSet[i].period # 0
  BY <1>1, <1>3 DEF Timed
<1>11. Service!Fire(i)
  BY <1>2, <1>7, <1>8, <1>9, <1>10 DEF Service!Fire, rest
<1> QED BY <1>5, <1>11 DEF Service!Next

LEMMA InitImplemented == Init => Service!Init
<1> SUFFICES ASSUME Init PROVE Service!Init
  OBVIOUS
<1>1. set = <<>> /\ TaskList = <<>>
  BY DEF Init
<1>2. TimersSet = <<>>
  BY <1>1 DEF TimersSet
<1> QED BY <1>1, <1>2 DEF Service!Init

LEMMA NextImplemented == Inv /\ [Next]_vars => [Service!Next]_(Service!vars)
<1>1. ASSUME UNCHANGED vars PROVE Service!vars' = Service!vars
  BY <1>1, ViewFacts DEF vars, Service!vars
<1>2. ASSUME Inv, LoopEnds PROVE Service!vars' = Service!vars
  <2>1. UNCHANGED <<TimerTick, pool, set, TaskList>>
    BY <1>2 DEF LoopEnds
  <2> QED BY <2>1, ViewFacts DEF Service!vars
<1> QED BY <1>1, <1>2, CallsImplemented, RunImplemented, TickImplemented, FireOnceImplemented,
           FireCyclicImplemented DEF Next

(***************************************************************************)
(* The hashed, sorted table implements the service of the timers: a        *)
(* message set to come after n ticks is queued at the n-th tick, once or   *)
(* every period, in the order of setting among those due at that tick, and *)
(* not after it was cancelled, for every size of the table and every width *)
(* of TimerTick and over its wrap.                                         *)
(***************************************************************************)
THEOREM TimersImplemented == Spec => ImplementsTimers
BY Invariance, InitImplemented, NextImplemented, PTL
   DEF Spec, ImplementsTimers, Service!Spec
=============================================================================
