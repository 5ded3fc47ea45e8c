------------------------ MODULE StorageBackends_proofs ------------------------
(***************************************************************************)
(* Both backends implement ProbeStorage, and the Redis index finds what it *)
(* is to find, for any probes, counts, times-to-live and delays; what they *)
(* keep stays ordered and bounded.                                         *)
(*                                                                         *)
(* An ordered collection is known by how many of its newest entries are    *)
(* fresh: dropping by count and dropping by age both keep a number of the  *)
(* newest, so they may be done in any order, early or late.                *)
(***************************************************************************)
EXTENDS StorageBackends, SequenceOps_proofs

-----------------------------------------------------------------------------
(* Collections.                                                            *)

Ages == {c \in Seq(Nat) : Ordered(c)}

\* The n newest entries of c are those that ttl lets stay.
Fresh(c, ttl, n) ==
    /\ n \in 0 .. Len(c)
    /\ \A i \in 1 .. Len(c) : c[i] <= ttl <=> i > Len(c) - n

Least(m, n) == IF m <= n THEN m ELSE n

LEMMA AgesAre ==
    ASSUME NEW c \in Ages
    PROVE  /\ c \in Seq(Nat) /\ Len(c) \in Nat /\ DOMAIN c = 1 .. Len(c)
           /\ \A i \in 1 .. Len(c) : c[i] \in Nat
           /\ \A i, j \in 1 .. Len(c) : i < j => c[i] >= c[j]
<1>1. c \in Seq(Nat)
  BY DEF Ages
<1>2. Len(c) \in Nat /\ DOMAIN c = 1 .. Len(c)
  BY <1>1, LenProperties
<1>3. \A i \in 1 .. Len(c) : c[i] \in Nat
  BY <1>1, ElementOfSeq
<1> QED BY <1>1, <1>2, <1>3 DEF Ages, Ordered

LEMMA EmptyIsAges == << >> \in Ages /\ Len(<< >>) = 0
BY EmptySeq DEF Ages, Ordered

\* The fresh entries of an ordered collection are its newest.
LEMMA FreshExists ==
    ASSUME NEW c \in Ages, NEW ttl \in Nat
    PROVE  \E n \in 0 .. Len(c) : Fresh(c, ttl, n)
<1> DEFINE T == {i \in 1 .. Len(c) : c[i] <= ttl}
<1>1. CASE T = {}
  <2>1. Fresh(c, ttl, 0)
    BY <1>1, AgesAre DEF Fresh
  <2> QED BY <2>1, AgesAre
<1>2. CASE T # {}
  <2>1. T \in SUBSET Nat
    BY AgesAre
  <2>2. PICK k \in T : \A y \in T : k <= y
    BY <1>2, <2>1, NatLeast
  <2>3. k \in 1 .. Len(c) /\ c[k] <= ttl
    OBVIOUS
  <2>4. ASSUME NEW i \in 1 .. Len(c) PROVE c[i] <= ttl <=> i >= k
    <3>1. CASE i < k
      BY <2>2, <2>3, <3>1, AgesAre
    <3>2. CASE i >= k
      <4>1. c[k] >= c[i]
        BY <2>3, <3>2, AgesAre
      <4> QED BY <2>3, <3>2, <4>1, AgesAre
    <3> QED BY <2>3, <3>1, <3>2, AgesAre
  <2>5. Fresh(c, ttl, Len(c) - k + 1)
    BY <2>3, <2>4, AgesAre DEF Fresh
  <2> QED BY <2>3, <2>5, AgesAre
<1> QED BY <1>1, <1>2

\* What Within keeps, when its entries expire.
LEMMA WithinIsNewest ==
    ASSUME NEW c \in Ages, NEW ttl \in Nat, ttl # 0, NEW n \in Nat, Fresh(c, ttl, n)
    PROVE  Within(c, ttl) = Newest(c, n)
<1> DEFINE L == Len(c)
<1>1. {i \in DOMAIN c : c[i] <= ttl} = (Len(c) - n + 1) .. Len(c)
  <2>1. DOMAIN c = 1 .. L /\ L \in Nat /\ n \in 0 .. L
    BY AgesAre DEF Fresh
  <2>2. \A i \in 1 .. L : c[i] <= ttl <=> i > L - n
    BY DEF Fresh
  <2> HIDE DEF L
  <2>3. {i \in DOMAIN c : c[i] <= ttl} = {i \in 1 .. L : i > L - n}
    BY <2>1, <2>2
  <2>4. {i \in 1 .. L : i > L - n} = (L - n + 1) .. L
    BY <2>1
  <2> QED BY <2>3, <2>4 DEF L
<1>2. Cardinality((Len(c) - n + 1) .. Len(c)) = n
  BY AgesAre, FS_Interval DEF Fresh
<1> QED BY <1>1, <1>2 DEF Within

\* The newest k entries, by their places.
LEMMA NewestIs ==
    ASSUME NEW c \in Ages, NEW k \in Nat
    PROVE  /\ Newest(c, k) \in Ages
           /\ Len(Newest(c, k)) = Least(Len(c), k)
           /\ \A i \in 1 .. Least(Len(c), k) :
                 Newest(c, k)[i] = c[Len(c) - Least(Len(c), k) + i]
<1> DEFINE m == Len(c) - k + 1
           r == SubSeq(c, m, Len(c))
<1>1. CASE Len(c) <= k
  BY <1>1, AgesAre DEF Newest, Least
<1>2. CASE Len(c) > k
  <2>1. m \in Int /\ Len(c) \in Int /\ m \in 1 .. Len(c) + 1
    BY <1>2, AgesAre
  <2>2. \A i \in m .. Len(c) : c[i] \in Nat
    BY <2>1, AgesAre
  <2>3. /\ r \in Seq(Nat)
        /\ Len(r) = IF m <= Len(c) THEN Len(c) - m + 1 ELSE 0
        /\ \A i \in 1 .. Len(c) - m + 1 : r[i] = c[m + i - 1]
    BY <2>1, <2>2, SubSeqProperties
  <2>4. Len(r) = k /\ \A i \in 1 .. k : r[i] = c[Len(c) - k + i]
    BY <1>2, <2>1, <2>3, AgesAre
  <2>5. DOMAIN r = 1 .. k
    BY <2>3, <2>4, LenProperties
  <2>6. Ordered(r)
    <3> DEFINE L == Len(c)
    <3>1. L \in Nat /\ L > k /\ \A i, j \in 1 .. L : i < j => c[i] >= c[j]
      BY <1>2, AgesAre
    <3>2. \A i \in 1 .. k : r[i] = c[L - k + i] /\ L - k + i \in 1 .. L
      BY <2>4, <3>1
    <3> HIDE DEF r, L
    <3>3. ASSUME NEW i \in 1 .. k, NEW j \in 1 .. k, i < j PROVE r[i] >= r[j]
      BY <3>1, <3>2, <3>3
    <3> QED BY <2>5, <3>3 DEF Ordered
  <2>7. Newest(c, k) = r /\ Least(Len(c), k) = k
    BY <1>2, AgesAre DEF Newest, Least
  <2> QED BY <2>3, <2>4, <2>6, <2>7 DEF Ages
<1> QED BY <1>1, <1>2, AgesAre

LEMMA NewestOfNewest ==
    ASSUME NEW c \in Ages, NEW k \in Nat, NEW m \in Nat
    PROVE  Newest(Newest(c, m), k) = Newest(c, Least(m, k))
<1> DEFINE d == Newest(c, m)
           l == Newest(d, k)
           r == Newest(c, Least(m, k))
<1>1. Least(m, k) \in Nat /\ Len(c) \in Nat
  BY AgesAre DEF Least
<1>2. /\ d \in Ages /\ Len(d) = Least(Len(c), m)
      /\ \A i \in 1 .. Least(Len(c), m) : d[i] = c[Len(c) - Least(Len(c), m) + i]
  BY NewestIs
<1>3. /\ r \in Ages /\ Len(r) = Least(Len(c), Least(m, k))
      /\ \A i \in 1 .. Least(Len(c), Least(m, k)) :
            r[i] = c[Len(c) - Least(Len(c), Least(m, k)) + i]
  BY <1>1, NewestIs
<1> HIDE DEF d, r
<1>4. /\ l \in Ages /\ Len(l) = Least(Len(d), k)
      /\ \A i \in 1 .. Least(Len(d), k) : l[i] = d[Len(d) - Least(Len(d), k) + i]
  BY <1>2, NewestIs
<1> HIDE DEF l
<1>5. Len(l) = Len(r)
  BY <1>1, <1>2, <1>3, <1>4 DEF Least
<1>6. ASSUME NEW i \in 1 .. Len(l) PROVE l[i] = r[i]
  <2> DEFINE L == Len(c)
  <2>1. i \in 1 .. Least(Len(d), k) /\ l[i] = d[Len(d) - Least(Len(d), k) + i]
    BY <1>4, <1>6
  <2>2. i \in 1 .. Least(L, Least(m, k)) /\ r[i] = c[L - Least(L, Least(m, k)) + i]
    BY <1>3, <1>4, <1>5, <1>6
  <2>0. L \in Nat /\ Len(d) \in Nat /\ Len(d) = Least(L, m) /\ i \in Nat
    BY <1>1, <1>2, AgesAre
  <2> HIDE DEF L
  <2>3. Len(d) - Least(Len(d), k) + i \in 1 .. Least(L, m)
    BY <2>0, <2>1 DEF Least
  <2>4. d[Len(d) - Least(Len(d), k) + i]
           = c[L - Least(L, m) + (Len(d) - Least(Len(d), k) + i)]
    BY <1>2, <2>3 DEF L
  <2>5. L - Least(L, m) + (Len(d) - Least(Len(d), k) + i) = L - Least(L, Least(m, k)) + i
    BY <2>0, <2>1 DEF Least
  <2> QED BY <2>1, <2>2, <2>4, <2>5
<1>7. l = r
  BY <1>3, <1>4, <1>5, <1>6, AgesAre, SeqEqual
<1> QED BY <1>7 DEF d, l, r

\* Dropping by count keeps the newest of the fresh.
LEMMA FreshOfNewest ==
    ASSUME NEW c \in Ages, NEW k \in Nat, NEW ttl \in Nat, NEW n \in Nat, Fresh(c, ttl, n)
    PROVE  Fresh(Newest(c, k), ttl, Least(n, k))
<1> DEFINE L == Len(c)
           d == Newest(c, k)
<1>1. L \in Nat /\ n \in 0 .. L /\ \A i \in 1 .. L : c[i] <= ttl <=> i > L - n
  BY AgesAre DEF Fresh
<1>2. /\ Len(d) = Least(L, k)
      /\ \A i \in 1 .. Least(L, k) : d[i] = c[L - Least(L, k) + i]
  BY NewestIs
<1> HIDE DEF L, d
<1>3. Least(n, k) \in 0 .. Len(d)
  BY <1>1, <1>2 DEF Least
<1>4. ASSUME NEW i \in 1 .. Len(d) PROVE d[i] <= ttl <=> i > Len(d) - Least(n, k)
  <2>1. L - Least(L, k) + i \in 1 .. L /\ d[i] = c[L - Least(L, k) + i]
    BY <1>1, <1>2 DEF Least
  <2>2. d[i] <= ttl <=> L - Least(L, k) + i > L - n
    BY <1>1, <2>1
  <2>3. L - Least(L, k) + i > L - n <=> i > Least(L, k) - Least(n, k)
    BY <1>1, <1>2 DEF Least
  <2> QED BY <1>2, <2>2, <2>3
<1> QED BY <1>3, <1>4 DEF Fresh, d

\* d is c with an entry of that age put behind the k that are as old.
Joins(d, c, age, k) ==
    /\ k \in 0 .. Len(c)
    /\ d \in Ages /\ Len(d) = Len(c) + 1
    /\ \A i \in 1 .. Len(c) : c[i] >= age <=> i <= k
    /\ \A i \in 1 .. k : d[i] = c[i]
    /\ d[k + 1] = age
    /\ \A i \in k + 1 .. Len(c) : d[i + 1] = c[i]

LEMMA OlderExist ==
    ASSUME NEW c \in Ages, NEW age \in Nat
    PROVE  \E k \in 0 .. Len(c) : \A i \in 1 .. Len(c) : c[i] >= age <=> i <= k
<1>0. Len(c) \in Nat /\ \A i \in 1 .. Len(c) : c[i] \in Nat
  BY AgesAre
<1>1. CASE age = 0
  <2>1. \A i \in 1 .. Len(c) : c[i] >= age <=> i <= Len(c)
    BY <1>0, <1>1
  <2>2. Len(c) \in 0 .. Len(c)
    BY <1>0
  <2> QED BY <2>1, <2>2
<1>2. CASE age # 0
  <2>1. age - 1 \in Nat
    BY <1>2
  <2>2. PICK n \in 0 .. Len(c) : Fresh(c, age - 1, n)
    BY <2>1, FreshExists
  <2>3. \A i \in 1 .. Len(c) : c[i] <= age - 1 <=> i > Len(c) - n
    BY <2>2 DEF Fresh
  <2> DEFINE k == Len(c) - n
  <2>4. k \in 0 .. Len(c) /\ \A i \in 1 .. Len(c) : c[i] >= age <=> i <= k
    BY <1>0, <2>2, <2>3
  <2> HIDE DEF k
  <2> QED BY <2>4
<1> QED BY <1>1, <1>2

LEMMA InsertJoins ==
    ASSUME NEW c \in Ages, NEW age \in Nat
    PROVE  \E k \in 0 .. Len(c) : Joins(Insert(c, age), c, age, k)
<1> DEFINE L == Len(c)
           d == Insert(c, age)
<1>1. /\ L \in Nat /\ c \in Seq(Nat) /\ DOMAIN c = 1 .. L
      /\ \A i \in 1 .. L : c[i] \in Nat
      /\ \A i, j \in 1 .. L : i < j => c[i] >= c[j]
  BY AgesAre
<1>2. PICK k \in 0 .. L : \A i \in 1 .. L : c[i] >= age <=> i <= k
  BY OlderExist
<1> DEFINE u == SubSeq(c, 1, k)
           v == SubSeq(c, k + 1, L)
<1>3. d = u \o <<age>> \o v
  <2> HIDE DEF L
  <2>1. {i \in 1 .. L : c[i] >= age} = 1 .. k
    BY <1>1, <1>2
  <2>2. k \in Int /\ 1 \in Int
    BY <1>1, <1>2
  <2>3. Cardinality(1 .. k) = IF 1 > k THEN 0 ELSE k - 1 + 1
    BY <2>2, FS_Interval
  <2>4. Cardinality(1 .. k) = k
    BY <1>1, <1>2, <2>3
  <2>5. Cardinality({i \in DOMAIN c : c[i] >= age}) = k
    BY <1>1, <2>1, <2>4
  <2> QED BY <2>5 DEF Insert, L
<1> HIDE DEF L
<1>4. u \in Seq(Nat) /\ Len(u) = k /\ \A i \in 1 .. k : u[i] = c[i]
  <2>1. 1 \in Int /\ k \in Int /\ \A i \in 1 .. k : c[i] \in Nat
    BY <1>1, <1>2
  <2>2. /\ u \in Seq(Nat) /\ Len(u) = IF 1 <= k THEN k - 1 + 1 ELSE 0
        /\ \A i \in 1 .. k - 1 + 1 : u[i] = c[1 + i - 1]
    BY <2>1, SubSeqProperties
  <2> HIDE DEF u
  <2> QED BY <1>1, <1>2, <2>2
<1>5. v \in Seq(Nat) /\ Len(v) = L - k /\ \A i \in 1 .. L - k : v[i] = c[k + i]
  <2>1. k + 1 \in Int /\ L \in Int /\ \A i \in k + 1 .. L : c[i] \in Nat
    BY <1>1, <1>2
  <2>2. /\ v \in Seq(Nat) /\ Len(v) = IF k + 1 <= L THEN L - (k + 1) + 1 ELSE 0
        /\ \A i \in 1 .. L - (k + 1) + 1 : v[i] = c[k + 1 + i - 1]
    BY <2>1, SubSeqProperties
  <2> HIDE DEF v
  <2> QED BY <1>1, <1>2, <2>2
<1> HIDE DEF u, v
<1>6. <<age>> \in Seq(Nat) /\ Len(<<age>>) = 1 /\ <<age>>[1] = age
  OBVIOUS
<1> DEFINE w == u \o <<age>>
<1>7. /\ w \in Seq(Nat) /\ Len(w) = k + 1 /\ w[k + 1] = age
      /\ \A i \in 1 .. k : w[i] = c[i]
  <2>1. /\ w \in Seq(Nat) /\ Len(w) = k + 1
        /\ \A i \in 1 .. k + 1 : w[i] = IF i <= k THEN u[i] ELSE <<age>>[i - k]
    BY <1>4, <1>6, ConcatProperties
  <2> HIDE DEF w
  <2> QED BY <1>2, <1>4, <1>6, <2>1
<1> HIDE DEF w
<1> HIDE DEF d
<1>8. /\ d \in Seq(Nat) /\ Len(d) = L + 1
      /\ \A i \in 1 .. L + 1 : d[i] = IF i <= k + 1 THEN w[i] ELSE v[i - (k + 1)]
  <2>1. d = w \o v
    BY <1>3 DEF w
  <2>2. /\ d \in Seq(Nat) /\ Len(d) = Len(w) + Len(v)
        /\ \A i \in 1 .. Len(w) + Len(v) : d[i] = IF i <= Len(w) THEN w[i] ELSE v[i - Len(w)]
    BY <1>5, <1>7, <2>1, ConcatProperties
  <2>3. Len(w) = k + 1 /\ Len(w) + Len(v) = L + 1
    BY <1>1, <1>2, <1>5, <1>7
  <2> QED BY <2>2, <2>3
<1>9. /\ \A i \in 1 .. k : d[i] = c[i]
      /\ d[k + 1] = age
      /\ \A i \in k + 1 .. L : d[i + 1] = c[i]
  <2>1. \A i \in 1 .. k : d[i] = c[i]
    BY <1>1, <1>2, <1>7, <1>8
  <2>2. d[k + 1] = age
    BY <1>1, <1>2, <1>7, <1>8
  <2>3. ASSUME NEW i \in k + 1 .. L PROVE d[i + 1] = c[i]
    <3>1. i + 1 \in 1 .. L + 1 /\ ~(i + 1 <= k + 1) /\ i + 1 - (k + 1) \in 1 .. L - k
      BY <1>1, <1>2
    <3>2. k + (i + 1 - (k + 1)) = i
      BY <1>1, <1>2
    <3> QED BY <1>5, <1>8, <3>1, <3>2
  <2> QED BY <2>1, <2>2, <2>3
<1>10. ASSUME NEW i \in 1 .. L + 1, NEW j \in 1 .. L + 1, i < j PROVE d[i] >= d[j]
  <2>1. CASE j <= k
    BY <1>1, <1>2, <1>9, <1>10, <2>1
  <2>2. CASE j = k + 1
    BY <1>1, <1>2, <1>9, <1>10, <2>2
  <2>3. CASE j > k + 1
    <3>1. j - 1 \in k + 1 .. L /\ j - 1 + 1 = j /\ j - 1 \in 1 .. L
      BY <1>1, <1>2, <2>3
    <3>2. d[j] = c[j - 1] /\ c[j - 1] \in Nat /\ ~(c[j - 1] >= age)
      BY <1>1, <1>2, <1>9, <3>1
    <3>3. CASE i <= k
      <4>1. d[i] = c[i] /\ i \in 1 .. L /\ i < j - 1
        BY <1>1, <1>2, <1>9, <2>3, <3>3
      <4> QED BY <1>1, <3>1, <3>2, <4>1
    <3>4. CASE i = k + 1
      BY <1>9, <3>2, <3>4
    <3>5. CASE i > k + 1
      <4>1. i - 1 \in k + 1 .. L /\ i - 1 + 1 = i /\ i - 1 \in 1 .. L /\ i - 1 < j - 1
        BY <1>1, <1>2, <1>10, <3>5
      <4>2. d[i] = c[i - 1]
        BY <1>9, <4>1
      <4> QED BY <1>1, <3>1, <3>2, <4>1, <4>2
    <3> QED BY <1>1, <1>2, <3>3, <3>4, <3>5
  <2> QED BY <1>1, <1>2, <2>1, <2>2, <2>3
<1>11. DOMAIN d = 1 .. L + 1
  BY <1>8, LenProperties
<1>12. d \in Ages
  BY <1>8, <1>10, <1>11 DEF Ages, Ordered
<1> QED BY <1>2, <1>8, <1>9, <1>12 DEF Joins, d, L

\* A fresh entry joins the fresh ones, the same whether the others are there.
LEMMA InsertFresh ==
    ASSUME NEW c \in Ages, NEW ttl \in Nat, NEW n \in Nat, Fresh(c, ttl, n),
           NEW age \in Nat, age <= ttl
    PROVE  /\ Insert(c, age) \in Ages
           /\ Fresh(Insert(c, age), ttl, n + 1)
           /\ Insert(Newest(c, n), age) = Newest(Insert(c, age), n + 1)
<1> DEFINE L == Len(c)
           d == Insert(c, age)
           b == Newest(c, n)
           l == Insert(b, age)
           r == Newest(d, n + 1)
<1>1. /\ L \in Nat /\ n \in 0 .. L
      /\ \A i \in 1 .. L : c[i] \in Nat /\ (c[i] <= ttl <=> i > L - n)
  BY AgesAre DEF Fresh
<1>2. PICK k \in 0 .. L : Joins(d, c, age, k)
  BY InsertJoins
<1>3. b \in Ages /\ Len(b) = n /\ \A i \in 1 .. n : b[i] = c[L - n + i]
  <2>1. Least(L, n) = n
    BY <1>1 DEF Least
  <2>2. /\ b \in Ages /\ Len(b) = Least(L, n)
        /\ \A i \in 1 .. Least(L, n) : b[i] = c[L - Least(L, n) + i]
    BY NewestIs
  <2> HIDE DEF b, L
  <2> QED BY <2>1, <2>2
<1> HIDE DEF b
<1>4. PICK kb \in 0 .. Len(b) : Joins(l, b, age, kb)
  BY <1>3, InsertJoins
<1> HIDE DEF L, d, l
<1>5. /\ d \in Ages /\ Len(d) = L + 1
      /\ \A i \in 1 .. L : c[i] >= age <=> i <= k
      /\ \A i \in 1 .. k : d[i] = c[i]
      /\ d[k + 1] = age
      /\ \A i \in k + 1 .. L : d[i + 1] = c[i]
  BY <1>2 DEF Joins, L
<1>6. /\ l \in Ages /\ Len(l) = n + 1
      /\ \A i \in 1 .. n : b[i] >= age <=> i <= kb
      /\ \A i \in 1 .. kb : l[i] = b[i]
      /\ l[kb + 1] = age
      /\ \A i \in kb + 1 .. n : l[i + 1] = b[i]
  BY <1>3, <1>4 DEF Joins
<1>7. k >= L - n
  <2>1. CASE L - n = 0
    BY <1>1, <1>2, <2>1
  <2>2. CASE L - n # 0
    <3>1. L - n \in 1 .. L
      BY <1>1, <2>2
    <3>2. c[L - n] >= age
      BY <1>1, <3>1
    <3> QED BY <1>1, <1>2, <1>5, <3>1, <3>2
  <2> QED BY <2>1, <2>2
<1>8. kb = k - (L - n)
  <2>0. kb \in 0 .. n /\ k - (L - n) \in 0 .. n
    BY <1>1, <1>2, <1>3, <1>4, <1>7
  <2>1. ASSUME NEW i \in 1 .. n PROVE i <= kb <=> i <= k - (L - n)
    <3>1. L - n + i \in 1 .. L /\ b[i] = c[L - n + i]
      BY <1>1, <1>3
    <3>2. b[i] >= age <=> L - n + i <= k
      BY <1>5, <3>1
    <3> QED BY <1>1, <1>2, <1>6, <3>2
  <2>2. CASE kb < k - (L - n)
    <3>1. kb + 1 \in 1 .. n /\ kb + 1 <= k - (L - n)
      BY <2>0, <2>2
    <3> QED BY <2>0, <2>1, <3>1
  <2>3. CASE kb > k - (L - n)
    <3>1. k - (L - n) + 1 \in 1 .. n /\ k - (L - n) + 1 <= kb
      BY <2>0, <2>3
    <3> QED BY <2>0, <2>1, <3>1
  <2> QED BY <2>0, <2>2, <2>3
<1>9. Fresh(d, ttl, n + 1)
  <2>1. ASSUME NEW i \in 1 .. L + 1 PROVE d[i] <= ttl <=> i > L - n
    <3>1. CASE i <= k
      <4>1. i \in 1 .. L /\ d[i] = c[i]
        BY <1>1, <1>2, <1>5, <3>1
      <4> QED BY <1>1, <4>1
    <3>2. CASE i = k + 1
      BY <1>1, <1>2, <1>5, <1>7, <3>2
    <3>3. CASE i > k + 1
      <4>1. i - 1 \in k + 1 .. L /\ i - 1 + 1 = i /\ i - 1 \in 1 .. L /\ i - 1 > L - n
        BY <1>1, <1>2, <1>7, <3>3
      <4>2. d[i] = c[i - 1]
        BY <1>5, <4>1
      <4> QED BY <1>1, <4>1, <4>2
    <3> QED BY <1>1, <1>2, <3>1, <3>2, <3>3
  <2>2. n + 1 \in 0 .. Len(d) /\ Len(d) - (n + 1) = L - n /\ 1 .. Len(d) = 1 .. L + 1
    BY <1>1, <1>5
  <2> QED BY <2>1, <2>2 DEF Fresh
<1>10. /\ r \in Ages /\ Len(r) = n + 1
       /\ \A i \in 1 .. n + 1 : r[i] = d[L - n + i]
  <2>1. n + 1 \in Nat
    OBVIOUS
  <2>2. /\ r \in Ages /\ Len(r) = Least(Len(d), n + 1)
        /\ \A i \in 1 .. Least(Len(d), n + 1) : r[i] = d[Len(d) - Least(Len(d), n + 1) + i]
    BY <1>5, <2>1, NewestIs
  <2>3. Least(Len(d), n + 1) = n + 1 /\ Len(d) - (n + 1) = L - n
    BY <1>1, <1>5 DEF Least
  <2> HIDE DEF r
  <2> QED BY <2>2, <2>3
<1> HIDE DEF r
<1>11. ASSUME NEW i \in 1 .. n + 1 PROVE l[i] = r[i]
  <2>1. r[i] = d[L - n + i]
    BY <1>10
  <2>2. CASE i <= kb
    <3>1. i \in 1 .. kb /\ i \in 1 .. n /\ L - n + i \in 1 .. k
      BY <1>1, <1>2, <1>3, <1>4, <1>7, <1>8, <2>2
    <3> QED BY <1>3, <1>5, <1>6, <2>1, <3>1
  <2>3. CASE i = kb + 1
    <3>1. L - n + i = k + 1
      BY <1>1, <1>2, <1>8, <2>3
    <3> QED BY <1>5, <1>6, <2>1, <2>3, <3>1
  <2>4. CASE i > kb + 1
    <3>1. /\ i - 1 \in kb + 1 .. n /\ i - 1 \in 1 .. n /\ i - 1 + 1 = i
          /\ L - n + (i - 1) \in k + 1 .. L /\ L - n + (i - 1) + 1 = L - n + i
      BY <1>1, <1>2, <1>3, <1>4, <1>8, <2>4
    <3>2. l[i] = b[i - 1] /\ b[i - 1] = c[L - n + (i - 1)]
      BY <1>3, <1>6, <3>1
    <3>3. d[L - n + i] = c[L - n + (i - 1)]
      BY <1>5, <3>1
    <3> QED BY <2>1, <3>2, <3>3
  <2> QED BY <1>3, <1>4, <2>2, <2>3, <2>4
<1>12. l = r
  BY <1>6, <1>10, <1>11, AgesAre, SeqEqual
<1> QED BY <1>5, <1>9, <1>12 DEF b, d, l, r

\* Nothing is newer than what is written now.
LEMMA InsertIsPush ==
    ASSUME NEW c \in Ages
    PROVE  Insert(c, 0) = Append(c, 0)
<1> DEFINE L == Len(c)
<1>1. /\ L \in Nat /\ c \in Seq(Nat) /\ DOMAIN c = 1 .. L
      /\ \A i \in 1 .. L : c[i] \in Nat
  BY AgesAre
<1>2. {i \in DOMAIN c : c[i] >= 0} = 1 .. L
  BY <1>1
<1>3. Cardinality(1 .. L) = L
  <2>1. 1 \in Int /\ L \in Int
    BY <1>1
  <2> HIDE DEF L
  <2>2. Cardinality(1 .. L) = IF 1 > L THEN 0 ELSE L - 1 + 1
    BY <2>1, FS_Interval
  <2> QED BY <1>1, <2>2 DEF L
<1>4. SubSeq(c, 1, L) = c
  BY <1>1, SubSeqFull
<1>5. SubSeq(c, L + 1, L) = << >>
  BY <1>1, SubSeqEmpty
<1>6. Append(c, 0) = c \o <<0>>
  BY <1>1, AppendIsConcat
<1>7. (c \o <<0>>) \in Seq(Nat)
  BY <1>1, <1>6, AppendProperties
<1>8. (c \o <<0>>) \o << >> = c \o <<0>>
  BY <1>7, ConcatEmptySeq
<1> QED BY <1>2, <1>3, <1>4, <1>5, <1>6, <1>8 DEF Insert

LEMMA AgedIs ==
    ASSUME NEW c \in Ages, NEW top \in Nat
    PROVE  /\ Aged(c, top) \in Ages /\ Len(Aged(c, top)) = Len(c)
           /\ \A i \in 1 .. Len(c) : Aged(c, top)[i] = IF c[i] < top THEN c[i] + 1 ELSE top
<1> DEFINE L == Len(c)
           d == Aged(c, top)
<1>1. /\ L \in Nat /\ DOMAIN c = 1 .. L
      /\ \A i \in 1 .. L : c[i] \in Nat
      /\ \A i, j \in 1 .. L : i < j => c[i] >= c[j]
  BY AgesAre
<1> HIDE DEF L
<1>2. d = [i \in 1 .. L |-> IF c[i] < top THEN c[i] + 1 ELSE top]
  BY <1>1 DEF Aged
<1>3. d \in [1 .. L -> Nat]
  BY <1>1, <1>2
<1>4. \A i \in 1 .. L : d[i] = IF c[i] < top THEN c[i] + 1 ELSE top
  BY <1>2
<1> HIDE DEF d
<1>5. d \in Seq(Nat) /\ Len(d) = L
  BY <1>1, <1>3, SeqDef
<1>6. ASSUME NEW i \in 1 .. L, NEW j \in 1 .. L, i < j PROVE d[i] >= d[j]
  <2>1. c[i] \in Nat /\ c[j] \in Nat /\ c[i] >= c[j]
    BY <1>1, <1>6
  <2>2. d[i] = (IF c[i] < top THEN c[i] + 1 ELSE top) /\ d[j] = (IF c[j] < top THEN c[j] + 1 ELSE top)
    BY <1>4
  <2> QED BY <2>1, <2>2
<1>7. Ordered(d)
  BY <1>3, <1>6 DEF Ordered
<1> QED BY <1>4, <1>5, <1>7 DEF Ages, d, L

LEMMA AgedOfNewest ==
    ASSUME NEW c \in Ages, NEW top \in Nat, NEW k \in Nat
    PROVE  Aged(Newest(c, k), top) = Newest(Aged(c, top), k)
<1> DEFINE L == Len(c)
           b == Newest(c, k)
           l == Aged(b, top)
           d == Aged(c, top)
           r == Newest(d, k)
<1>1. /\ L \in Nat /\ b \in Ages /\ Len(b) = Least(L, k)
      /\ \A i \in 1 .. Least(L, k) : b[i] = c[L - Least(L, k) + i]
  BY NewestIs, AgesAre
<1>2. /\ d \in Ages /\ Len(d) = L
      /\ \A i \in 1 .. L : d[i] = IF c[i] < top THEN c[i] + 1 ELSE top
  BY AgedIs
<1> HIDE DEF L, b, d
<1>3. /\ l \in Ages /\ Len(l) = Len(b)
      /\ \A i \in 1 .. Len(b) : l[i] = IF b[i] < top THEN b[i] + 1 ELSE top
  BY <1>1, AgedIs
<1>4. /\ r \in Ages /\ Len(r) = Least(Len(d), k)
      /\ \A i \in 1 .. Least(Len(d), k) : r[i] = d[Len(d) - Least(Len(d), k) + i]
  BY <1>2, NewestIs
<1> HIDE DEF l, r
<1>5. ASSUME NEW i \in 1 .. Len(l) PROVE l[i] = r[i]
  <2>1. L - Least(L, k) + i \in 1 .. L /\ i \in 1 .. Least(L, k)
    BY <1>1, <1>3 DEF Least
  <2> QED BY <1>1, <1>2, <1>3, <1>4, <2>1
<1>6. l = r
  <2>1. Len(l) = Len(r)
    BY <1>1, <1>2, <1>3, <1>4
  <2> QED BY <1>3, <1>4, <1>5, <2>1, AgesAre, SeqEqual
<1> QED BY <1>6 DEF b, d, l, r

\* Time makes no entry fresh again, and above ttl the ages need not be told apart.
LEMMA FreshOfAged ==
    ASSUME NEW c \in Ages, NEW ttl \in Nat, NEW n \in Nat, Fresh(c, ttl, n),
           NEW s \in Nat, NEW t \in Nat, s > ttl, t > ttl
    PROVE  \E m \in 0 .. n : /\ Fresh(Aged(c, s), ttl, m) /\ Fresh(Aged(c, t), ttl, m)
                             /\ Newest(Aged(c, s), m) = Newest(Aged(c, t), m)
<1> DEFINE L == Len(c)
           d == Aged(c, s)
           e == Aged(c, t)
<1>1. /\ d \in Ages /\ Len(d) = L
      /\ \A i \in 1 .. L : d[i] = IF c[i] < s THEN c[i] + 1 ELSE s
  BY AgedIs
<1>2. /\ e \in Ages /\ Len(e) = L
      /\ \A i \in 1 .. L : e[i] = IF c[i] < t THEN c[i] + 1 ELSE t
  BY AgedIs
<1>3. /\ L \in Nat /\ n \in 0 .. L
      /\ \A i \in 1 .. L : c[i] \in Nat /\ (c[i] <= ttl <=> i > L - n)
  BY AgesAre DEF Fresh
<1> HIDE DEF L, d, e
<1>4. PICK m \in 0 .. Len(d) : Fresh(d, ttl, m)
  BY <1>1, FreshExists
<1>5. \A i \in 1 .. L : d[i] <= ttl <=> i > L - m
  BY <1>1, <1>4 DEF Fresh
<1>6. m <= n
  <2> SUFFICES ASSUME m > n PROVE FALSE
    BY <1>1, <1>3, <1>4
  <2>1. L - m + 1 \in 1 .. L /\ L - m + 1 <= L - n /\ L - m + 1 > L - m
    BY <1>1, <1>3, <1>4
  <2>2. d[L - m + 1] <= ttl /\ ~(c[L - m + 1] <= ttl) /\ c[L - m + 1] \in Nat
    BY <1>1, <1>3, <1>4, <1>5, <2>1
  <2> QED BY <1>1, <2>1, <2>2
<1>7. ASSUME NEW i \in 1 .. L PROVE /\ e[i] <= ttl <=> d[i] <= ttl
                                    /\ d[i] <= ttl => d[i] = e[i]
  <2>1. c[i] \in Nat /\ d[i] = (IF c[i] < s THEN c[i] + 1 ELSE s)
        /\ e[i] = (IF c[i] < t THEN c[i] + 1 ELSE t)
    BY <1>1, <1>2, <1>3
  <2>2. CASE c[i] < ttl
    <3>1. d[i] = c[i] + 1 /\ e[i] = c[i] + 1
      BY <2>1, <2>2
    <3> QED BY <3>1
  <2>3. CASE ~(c[i] < ttl)
    <3> DEFINE x == c[i]
    <3>1. x \in Nat /\ x >= ttl /\ d[i] \in {x + 1, s} /\ e[i] \in {x + 1, t}
      BY <2>1, <2>3
    <3> HIDE DEF x
    <3> QED BY <3>1
  <2> QED BY <2>2, <2>3
<1>8. Fresh(e, ttl, m)
  <2>1. m \in 0 .. Len(e) /\ Len(e) = L
    BY <1>1, <1>2, <1>4
  <2> QED BY <1>5, <1>7, <2>1 DEF Fresh
<1>9. m \in Nat /\ m \in 0 .. n /\ Least(L, m) = m
  BY <1>1, <1>3, <1>4, <1>6 DEF Least
<1> DEFINE l == Newest(d, m)
           r == Newest(e, m)
<1>10. /\ l \in Ages /\ Len(l) = m /\ \A i \in 1 .. m : l[i] = d[L - m + i]
  <2>1. /\ l \in Ages /\ Len(l) = Least(Len(d), m)
        /\ \A i \in 1 .. Least(Len(d), m) : l[i] = d[Len(d) - Least(Len(d), m) + i]
    BY <1>1, <1>9, NewestIs
  <2> HIDE DEF l
  <2> QED BY <1>1, <1>9, <2>1
<1>11. /\ r \in Ages /\ Len(r) = m /\ \A i \in 1 .. m : r[i] = e[L - m + i]
  <2>1. /\ r \in Ages /\ Len(r) = Least(Len(e), m)
        /\ \A i \in 1 .. Least(Len(e), m) : r[i] = e[Len(e) - Least(Len(e), m) + i]
    BY <1>2, <1>9, NewestIs
  <2> HIDE DEF r
  <2> QED BY <1>2, <1>9, <2>1
<1> HIDE DEF l, r
<1>12. ASSUME NEW i \in 1 .. m PROVE l[i] = r[i]
  <2>1. L - m + i \in 1 .. L /\ L - m + i > L - m
    BY <1>1, <1>3, <1>4
  <2> QED BY <1>5, <1>7, <1>10, <1>11, <2>1
<1>13. l = r
  BY <1>10, <1>11, <1>12, AgesAre, SeqEqual
<1> QED BY <1>4, <1>8, <1>9, <1>13 DEF d, e, l, r

-----------------------------------------------------------------------------
(* What a read shows.                                                      *)

LEMMA WithinAges ==
    ASSUME NEW c \in Ages, NEW ttl \in Nat
    PROVE  Within(c, ttl) \in Ages
<1>1. CASE ttl = 0
  BY <1>1 DEF Within
<1>2. CASE ttl # 0
  <2>1. PICK n \in 0 .. Len(c) : Fresh(c, ttl, n)
    BY FreshExists
  <2>2. n \in Nat
    BY <2>1, AgesAre
  <2> QED BY <1>2, <2>1, <2>2, WithinIsNewest, NewestIs
<1> QED BY <1>1, <1>2

\* A read may leave expired entries or remove them.
LEMMA ShownTwice ==
    ASSUME NEW c \in Ages, NEW ttl \in Nat
    PROVE  Within(Within(c, ttl), ttl) = Within(c, ttl)
<1>1. CASE ttl = 0
  BY <1>1 DEF Within
<1>2. CASE ttl # 0
  <2>1. PICK n \in 0 .. Len(c) : Fresh(c, ttl, n)
    BY FreshExists
  <2>2. n \in Nat /\ Least(n, n) = n
    BY <2>1, AgesAre DEF Least
  <2>3. Within(c, ttl) = Newest(c, n)
    BY <1>2, <2>1, <2>2, WithinIsNewest
  <2>4. Newest(c, n) \in Ages
    BY <2>2, NewestIs
  <2>5. Fresh(Newest(c, n), ttl, n)
    BY <2>1, <2>2, FreshOfNewest
  <2>6. Within(Newest(c, n), ttl) = Newest(Newest(c, n), n)
    BY <1>2, <2>2, <2>4, <2>5, WithinIsNewest
  <2>7. Newest(Newest(c, n), n) = Newest(c, n)
    BY <2>2, NewestOfNewest
  <2> QED BY <2>3, <2>6, <2>7
<1> QED BY <1>1, <1>2

\* Dropping by count when an entry is added, or by both but by a later time, and by
\* age when it is shown comes to dropping by both at once.
LEMMA ShownInsert ==
    ASSUME NEW c \in Ages, NEW age \in Nat, NEW count \in Nat, NEW ttl \in Nat,
           ttl = 0 \/ age <= ttl, NEW late \in Nat, late >= ttl, NEW p,
           p = Insert(c, age) \/ (ttl # 0 /\ p = Within(Insert(c, age), late))
    PROVE  /\ Newest(p, count) \in Ages
           /\ Within(Newest(p, count), ttl)
                = Newest(Within(Insert(Within(c, ttl), age), ttl), count)
<1> DEFINE w == Insert(c, age)
<1>0. w \in Ages
  BY InsertJoins DEF Joins
<1>1. CASE ttl = 0
  <2>1. p = w
    BY <1>1
  <2> HIDE DEF w
  <2>2. Newest(p, count) \in Ages
    BY <1>0, <2>1, NewestIs
  <2> QED BY <1>1, <2>1, <2>2 DEF Within, w
<1>2. CASE ttl # 0
  <2>1. PICK n \in 0 .. Len(c) : Fresh(c, ttl, n)
    BY FreshExists
  <2>2. n \in Nat /\ n + 1 \in Nat /\ age <= ttl /\ late # 0
    BY <1>2, <2>1, AgesAre
  <2> DEFINE k == n + 1
             l == Least(k, count)
  <2>3. Fresh(w, ttl, k) /\ Insert(Newest(c, n), age) = Newest(w, k)
    BY <2>1, <2>2, InsertFresh
  <2>4. Insert(Within(c, ttl), age) = Newest(w, k)
    BY <1>2, <2>1, <2>2, <2>3, WithinIsNewest
  <2>5. p = w \/ p = Within(w, late)
    OBVIOUS
  <2> HIDE DEF w, k
  <2>6. k \in 0 .. Len(w) /\ Len(w) \in Nat
    BY <1>0, <2>3, AgesAre DEF Fresh
  <2>7. \E q \in 0 .. Len(w) : q >= k /\ p = Newest(w, q)
    <3>1. CASE p = w
      <4>1. Newest(w, Len(w)) = w
        BY <2>6 DEF Newest
      <4> QED BY <2>6, <3>1, <4>1
    <3>2. CASE p = Within(w, late)
      <4>1. PICK q \in 0 .. Len(w) : Fresh(w, late, q)
        BY <1>0, FreshExists
      <4>2. q \in Nat /\ p = Newest(w, q)
        BY <1>0, <2>2, <2>6, <3>2, <4>1, WithinIsNewest
      <4>3. q >= k
        <5> SUFFICES ASSUME q < k PROVE FALSE
          BY <2>6, <4>2
        <5> DEFINE i == Len(w) - k + 1
        <5>1. i \in 1 .. Len(w) /\ i > Len(w) - k /\ ~(i > Len(w) - q)
          BY <2>6, <4>2
        <5> HIDE DEF i
        <5>2. w[i] <= ttl /\ ~(w[i] <= late) /\ w[i] \in Nat
          BY <1>0, <2>3, <4>1, <5>1, AgesAre DEF Fresh
        <5> QED BY <5>2
      <4> QED BY <4>1, <4>2, <4>3
    <3> QED BY <2>5, <3>1, <3>2
  <2>8. PICK q \in 0 .. Len(w) : q >= k /\ p = Newest(w, q)
    BY <2>7
  <2> DEFINE j == Least(q, count)
  <2>9. /\ k \in Nat /\ l \in Nat /\ q \in Nat /\ j \in Nat
        /\ Least(k, j) = l /\ Least(j, l) = l /\ Least(k, k) = k
    BY <2>6, <2>8 DEF Least
  <2> HIDE DEF l, j
  <2>10. Newest(p, count) = Newest(w, j)
    BY <1>0, <2>8, <2>9, NewestOfNewest DEF j
  <2>11. Newest(w, j) \in Ages /\ Within(Newest(w, j), ttl) = Newest(w, l)
    <3>1. Newest(w, j) \in Ages /\ Fresh(Newest(w, j), ttl, Least(k, j))
      BY <1>0, <2>3, <2>9, FreshOfNewest, NewestIs
    <3>2. Within(Newest(w, j), ttl) = Newest(Newest(w, j), l)
      BY <1>2, <2>9, <3>1, WithinIsNewest
    <3>3. Newest(Newest(w, j), l) = Newest(w, Least(j, l))
      BY <1>0, <2>9, NewestOfNewest
    <3> QED BY <2>9, <3>1, <3>2, <3>3
  <2>12. Within(Newest(w, k), ttl) = Newest(w, k)
    <3>1. Newest(w, k) \in Ages /\ Fresh(Newest(w, k), ttl, Least(k, k))
      BY <1>0, <2>3, <2>9, FreshOfNewest, NewestIs
    <3>2. Within(Newest(w, k), ttl) = Newest(Newest(w, k), k)
      BY <1>2, <2>9, <3>1, WithinIsNewest
    <3>3. Newest(Newest(w, k), k) = Newest(w, Least(k, k))
      BY <1>0, <2>9, NewestOfNewest
    <3> QED BY <2>9, <3>2, <3>3
  <2>13. Newest(Newest(w, k), count) = Newest(w, l)
    BY <1>0, <2>9, NewestOfNewest DEF l
  <2> QED BY <2>4, <2>10, <2>11, <2>12, <2>13
<1> QED BY <1>1, <1>2

\* What has expired may grow older unseen.
LEMMA ShownAged ==
    ASSUME NEW c \in Ages, NEW ttl \in Nat, NEW s \in Nat, NEW t \in Nat,
           s > ttl, t > ttl, ttl = 0 => s = t
    PROVE  Within(Aged(c, s), ttl) = Within(Aged(Within(c, ttl), t), ttl)
<1>1. CASE ttl = 0
  BY <1>1 DEF Within
<1>2. CASE ttl # 0
  <2> DEFINE d == Aged(c, s)
             e == Aged(c, t)
  <2>1. PICK n \in 0 .. Len(c) : Fresh(c, ttl, n)
    BY FreshExists
  <2>2. n \in Nat
    BY <2>1, AgesAre
  <2>3. PICK m \in 0 .. n : /\ Fresh(d, ttl, m) /\ Fresh(e, ttl, m)
                            /\ Newest(d, m) = Newest(e, m)
    BY <2>1, <2>2, FreshOfAged
  <2>4. m \in Nat /\ Least(m, n) = m /\ Least(n, m) = m
    BY <2>2, <2>3 DEF Least
  <2>5. d \in Ages /\ e \in Ages
    BY AgedIs
  <2>6. Aged(Within(c, ttl), t) = Newest(e, n)
    <3>1. Within(c, ttl) = Newest(c, n)
      BY <1>2, <2>1, <2>2, WithinIsNewest
    <3> QED BY <2>2, <3>1, AgedOfNewest
  <2> HIDE DEF d, e
  <2>7. Within(d, ttl) = Newest(d, m)
    BY <1>2, <2>3, <2>4, <2>5, WithinIsNewest
  <2>8. Fresh(Newest(e, n), ttl, m) /\ Newest(e, n) \in Ages
    BY <2>2, <2>3, <2>4, <2>5, FreshOfNewest, NewestIs
  <2>9. Within(Newest(e, n), ttl) = Newest(Newest(e, n), m)
    BY <1>2, <2>4, <2>8, WithinIsNewest
  <2>10. Newest(Newest(e, n), m) = Newest(e, m)
    BY <2>2, <2>4, <2>5, NewestOfNewest
  <2> QED BY <2>3, <2>6, <2>7, <2>9, <2>10 DEF d, e
<1> QED BY <1>1, <1>2

LEMMA ShownNone ==
    ASSUME NEW ttl \in Nat
    PROVE  Within(<< >>, ttl) = << >>
<1>1. DOMAIN << >> = {} /\ Len(<< >>) = 0 /\ << >> \in Seq(Nat)
  BY EmptySeq
<1>2. {i \in DOMAIN << >> : << >>[i] <= ttl} = {}
  BY <1>1
<1> QED BY <1>1, <1>2, FS_EmptySet DEF Within, Newest

\* A collection within its count shows no more than that.
LEMMA ShownWhole ==
    ASSUME NEW c \in Ages, NEW count \in Nat, Len(c) <= count, NEW ttl \in Nat
    PROVE  Newest(Within(c, ttl), count) = Within(c, ttl)
<1>1. Len(Within(c, ttl)) <= count
  <2>1. CASE ttl = 0
    BY <2>1 DEF Within
  <2>2. CASE ttl # 0
    <3>1. PICK n \in 0 .. Len(c) : Fresh(c, ttl, n)
      BY FreshExists
    <3>2. n \in Nat /\ Len(c) \in Nat
      BY <3>1, AgesAre
    <3>3. Within(c, ttl) = Newest(c, n) /\ Len(Newest(c, n)) = Least(Len(c), n)
      BY <2>2, <3>1, <3>2, WithinIsNewest, NewestIs
    <3> QED BY <3>2, <3>3 DEF Least
  <2> QED BY <2>1, <2>2
<1> QED BY <1>1 DEF Newest

LEMMA SingleIsAges ==
    ASSUME NEW age \in Nat
    PROVE  <<age>> \in Ages /\ Len(<<age>>) = 1 /\ <<age>>[1] = age
<1>1. <<age>> \in Seq(Nat) /\ Len(<<age>>) = 1 /\ DOMAIN <<age>> = {1} /\ <<age>>[1] = age
  OBVIOUS
<1> QED BY <1>1 DEF Ages, Ordered

\* When all has expired nothing is shown.
LEMMA ShownExpired ==
    ASSUME NEW c \in Ages, NEW ttl \in Nat, ttl # 0, \A i \in 1 .. Len(c) : c[i] > ttl
    PROVE  Within(c, ttl) = << >>
<1>1. Fresh(c, ttl, 0)
  BY AgesAre DEF Fresh
<1>2. Within(c, ttl) = Newest(c, 0) /\ Newest(c, 0) \in Ages /\ Len(Newest(c, 0)) = Least(Len(c), 0)
  BY <1>1, WithinIsNewest, NewestIs
<1>3. Len(Newest(c, 0)) = 0
  BY <1>2, AgesAre DEF Least
<1> QED BY <1>2, <1>3, AgesAre, EmptySeq

-----------------------------------------------------------------------------
(* The in-memory backend.                                                  *)

\* The instances have these operators of Retention under their own names.
LEMMA SameRetention ==
    /\ \A c, k : Memory!Newest(c, k) = Newest(c, k)
    /\ \A c, ttl : Memory!Within(c, ttl) = Within(c, ttl)
    /\ \A c, top : Memory!Aged(c, top) = Aged(c, top)
    /\ \A c, k : MemoryPromise!Newest(c, k) = Newest(c, k)
    /\ \A c, ttl : MemoryPromise!Within(c, ttl) = Within(c, ttl)
    /\ \A c, top : MemoryPromise!Aged(c, top) = Aged(c, top)
    /\ \A c, age : MemoryPromise!Insert(c, age) = Insert(c, age)
<1>1. \A S : Memory!Cardinality(S) = Cardinality(S) /\ MemoryPromise!Cardinality(S) = Cardinality(S)
  BY DEF Memory!Cardinality, MemoryPromise!Cardinality, Cardinality,
         Memory!IsFiniteSet, MemoryPromise!IsFiniteSet, IsFiniteSet
<1>2. \A c, k : Memory!Newest(c, k) = Newest(c, k) /\ MemoryPromise!Newest(c, k) = Newest(c, k)
  BY DEF Memory!Newest, MemoryPromise!Newest, Newest
<1>3. \A c, ttl : Memory!Within(c, ttl) = Within(c, ttl) /\ MemoryPromise!Within(c, ttl) = Within(c, ttl)
  BY <1>1, <1>2 DEF Memory!Within, MemoryPromise!Within, Within
<1>4. \A c, top : Memory!Aged(c, top) = Aged(c, top) /\ MemoryPromise!Aged(c, top) = Aged(c, top)
  BY DEF Memory!Aged, MemoryPromise!Aged, Aged
<1>5. \A c, age : MemoryPromise!Insert(c, age) = Insert(c, age)
  BY <1>1 DEF MemoryPromise!Insert, Insert
<1> QED BY <1>2, <1>3, <1>4, <1>5

MemoryAges ==
    /\ cache \in [Name -> Ages]
    /\ past \in [Name -> Ages]
    /\ log \in Ages

LEMMA Counts == /\ MaxResults \in Nat /\ MaxAlerts \in Nat
                /\ ResultTtl \in Nat /\ AlertTtl \in Nat
BY CountAssumption, TtlAssumption

\* What is shown, before and after a step.
LEMMA Shown ==
    /\ Memory!ShownLatest = [n \in Name |-> Within(cache[n], ResultTtl)]
    /\ Memory!ShownHistory = [n \in Name |-> Within(past[n], ResultTtl)]
    /\ Memory!ShownAlerts = Within(log, AlertTtl)
    /\ Memory!ShownLatest' = [n \in Name |-> Within(cache'[n], ResultTtl)]
    /\ Memory!ShownHistory' = [n \in Name |-> Within(past'[n], ResultTtl)]
    /\ Memory!ShownAlerts' = Within(log', AlertTtl)
BY SameRetention DEF Memory!ShownLatest, Memory!ShownHistory, Memory!ShownAlerts

LEMMA MemorySetLatest ==
    ASSUME MemoryAges, NEW n \in Name, Memory!SetLatest(n)
    PROVE  MemoryAges' /\ MemoryPromise!SetLatest(n, 0)
<1>1. cache' = [cache EXCEPT ![n] = <<0>>] /\ UNCHANGED <<past, log>>
  BY DEF Memory!SetLatest
<1>2. <<0>> \in Ages /\ Within(<<0>>, ResultTtl) = Newest(Within(<<0>>, ResultTtl), 1)
  <2>1. 0 \in Nat /\ 1 \in Nat /\ 1 <= 1
    OBVIOUS
  <2> QED BY <2>1, Counts, SingleIsAges, ShownWhole
<1>3. MemoryAges'
  BY <1>1, <1>2 DEF MemoryAges
<1>4. MemoryPromise!Kept(<<0>>, 1, ResultTtl) = Within(<<0>>, ResultTtl)
  BY <1>2, SameRetention DEF MemoryPromise!Kept
<1>5. Memory!ShownLatest' = [Memory!ShownLatest EXCEPT ![n] = Within(<<0>>, ResultTtl)]
  BY <1>1, Shown DEF MemoryAges
<1>6. UNCHANGED <<Memory!ShownHistory, Memory!ShownAlerts>>
  BY <1>1, Shown
<1> QED BY <1>3, <1>4, <1>5, <1>6 DEF MemoryPromise!SetLatest

\* An entry just written to a deque.
LEMMA ShownPushed ==
    ASSUME NEW c \in Ages, NEW count \in Nat, NEW ttl \in Nat
    PROVE  /\ Memory!Pushed(c, count) \in Ages
           /\ Within(Memory!Pushed(c, count), ttl)
                = MemoryPromise!Kept(MemoryPromise!Insert(Within(c, ttl), 0), count, ttl)
<1>1. Memory!Pushed(c, count) = Newest(Insert(c, 0), count)
  BY SameRetention, InsertIsPush DEF Memory!Pushed
<1>2. 0 \in Nat /\ 0 <= ttl /\ ttl >= ttl
  OBVIOUS
<1> DEFINE p == Insert(c, 0)
<1>3. /\ Newest(p, count) \in Ages
      /\ Within(Newest(p, count), ttl) = Newest(Within(Insert(Within(c, ttl), 0), ttl), count)
  BY <1>2, ShownInsert
<1> QED BY <1>1, <1>3, SameRetention DEF MemoryPromise!Kept

LEMMA MemoryAppendHistory ==
    ASSUME MemoryAges, NEW n \in Name, Memory!AppendHistory(n)
    PROVE  MemoryAges' /\ MemoryPromise!AppendHistory(n, 0)
<1> DEFINE p == Memory!Pushed(past[n], MaxResults)
<1>1. past' = [past EXCEPT ![n] = p] /\ UNCHANGED <<cache, log>>
  BY DEF Memory!AppendHistory
<1>2. past[n] \in Ages
  BY DEF MemoryAges
<1>3. /\ p \in Ages
      /\ Within(p, ResultTtl) = MemoryPromise!Kept(
             MemoryPromise!Insert(Within(past[n], ResultTtl), 0), MaxResults, ResultTtl)
  BY <1>2, Counts, ShownPushed
<1> HIDE DEF p
<1>4. MemoryAges'
  BY <1>1, <1>3 DEF MemoryAges
<1>5. Memory!ShownHistory[n] = Within(past[n], ResultTtl)
  BY Shown
<1>6. Memory!ShownHistory' = [Memory!ShownHistory EXCEPT ![n] = Within(p, ResultTtl)]
  BY <1>1, Shown DEF MemoryAges
<1>7. UNCHANGED <<Memory!ShownLatest, Memory!ShownAlerts>>
  BY <1>1, Shown
<1> QED BY <1>3, <1>4, <1>5, <1>6, <1>7 DEF MemoryPromise!AppendHistory

LEMMA MemoryAppendAlert ==
    ASSUME MemoryAges, Memory!AppendAlert
    PROVE  MemoryAges' /\ MemoryPromise!AppendAlert(0)
<1>1. log' = Memory!Pushed(log, MaxAlerts) /\ UNCHANGED <<cache, past>>
  BY DEF Memory!AppendAlert
<1>2. log \in Ages
  BY DEF MemoryAges
<1>3. /\ log' \in Ages
      /\ Within(log', AlertTtl) = MemoryPromise!Kept(
             MemoryPromise!Insert(Within(log, AlertTtl), 0), MaxAlerts, AlertTtl)
  BY <1>1, <1>2, Counts, ShownPushed
<1>4. MemoryAges'
  BY <1>1, <1>3 DEF MemoryAges
<1>5. UNCHANGED <<Memory!ShownLatest, Memory!ShownHistory>>
  BY <1>1, Shown
<1> QED BY <1>3, <1>4, <1>5, Shown DEF MemoryPromise!AppendAlert

LEMMA MemoryForget ==
    ASSUME MemoryAges, NEW names \in SUBSET Name, Memory!Forget(names)
    PROVE  MemoryAges' /\ MemoryPromise!Forget(names)
<1>1. /\ cache' = [n \in Name |-> IF n \in names THEN << >> ELSE cache[n]]
      /\ past' = [n \in Name |-> IF n \in names THEN << >> ELSE past[n]]
      /\ UNCHANGED log
  BY DEF Memory!Forget
<1>2. << >> \in Ages /\ Within(<< >>, ResultTtl) = << >>
  BY Counts, EmptyIsAges, ShownNone
<1>3. MemoryAges'
  BY <1>1, <1>2 DEF MemoryAges
<1>4. Memory!ShownLatest' = [n \in Name |-> IF n \in names THEN << >> ELSE Memory!ShownLatest[n]]
  BY <1>1, <1>2, Shown
<1>5. Memory!ShownHistory' = [n \in Name |-> IF n \in names THEN << >> ELSE Memory!ShownHistory[n]]
  BY <1>1, <1>2, Shown
<1>6. UNCHANGED Memory!ShownAlerts
  BY <1>1, Shown
<1> QED BY <1>3, <1>4, <1>5, <1>6 DEF MemoryPromise!Forget

LEMMA MemoryTick ==
    ASSUME MemoryAges, Memory!Tick
    PROVE  MemoryAges' /\ MemoryPromise!Tick
<1>1. /\ cache' = [n \in Name |-> Aged(cache[n], ResultTtl + 1)]
      /\ past' = [n \in Name |-> Aged(past[n], ResultTtl + 1)]
      /\ log' = Aged(log, AlertTtl + 1)
  BY SameRetention DEF Memory!Tick
<1>2. ResultTtl + 1 \in Nat /\ AlertTtl + 1 \in Nat
  BY Counts
<1>3. MemoryAges'
  BY <1>1, <1>2, AgedIs DEF MemoryAges
<1>4. MemoryPromise!Top(ResultTtl) = ResultTtl + 1 /\ MemoryPromise!Top(AlertTtl) = AlertTtl + 1
  BY Counts DEF MemoryPromise!Top
<1>5. ASSUME NEW c \in Ages, NEW ttl \in Nat
      PROVE  Within(Aged(c, ttl + 1), ttl) = Within(Aged(Within(c, ttl), ttl + 1), ttl)
  <2> DEFINE top == ttl + 1
  <2>1. top \in Nat /\ top > ttl
    OBVIOUS
  <2> HIDE DEF top
  <2>2. Within(Aged(c, top), ttl) = Within(Aged(Within(c, ttl), top), ttl)
    BY <2>1, ShownAged
  <2> QED BY <2>2 DEF top
<1>6. Memory!ShownLatest' =
          [n \in Name |-> Within(Aged(Memory!ShownLatest[n], ResultTtl + 1), ResultTtl)]
  BY <1>1, <1>5, Counts, Shown DEF MemoryAges
<1>7. Memory!ShownHistory' =
          [n \in Name |-> Within(Aged(Memory!ShownHistory[n], ResultTtl + 1), ResultTtl)]
  BY <1>1, <1>5, Counts, Shown DEF MemoryAges
<1>8. Memory!ShownAlerts' = Within(Aged(Memory!ShownAlerts, AlertTtl + 1), AlertTtl)
  BY <1>1, <1>5, Counts, Shown DEF MemoryAges
<1> QED BY <1>3, <1>4, <1>6, <1>7, <1>8, SameRetention DEF MemoryPromise!Tick

\* A read removes what it would not show, and shows the same afterwards.
LEMMA MemoryReads ==
    ASSUME MemoryAges,
           Memory!ReadAlerts \/ \E names \in SUBSET Name : Memory!ReadLatest(names)
    PROVE  MemoryAges' /\ UNCHANGED MemoryPromise!vars
<1>1. CASE Memory!ReadAlerts
  <2>1. log' = Within(log, AlertTtl) /\ UNCHANGED <<cache, past>>
    BY <1>1, SameRetention DEF Memory!ReadAlerts
  <2>2. MemoryAges' /\ Within(log', AlertTtl) = Within(log, AlertTtl)
    BY <2>1, Counts, WithinAges, ShownTwice DEF MemoryAges
  <2> QED BY <2>1, <2>2, Shown DEF MemoryPromise!vars
<1>2. ASSUME NEW names \in SUBSET Name, Memory!ReadLatest(names)
      PROVE  MemoryAges' /\ UNCHANGED MemoryPromise!vars
  <2>1. /\ cache' = [n \in Name |-> IF n \in names THEN Within(cache[n], ResultTtl) ELSE cache[n]]
        /\ UNCHANGED <<past, log>>
    BY <1>2, SameRetention DEF Memory!ReadLatest
  <2>2. \A n \in Name : /\ Within(cache[n], ResultTtl) \in Ages
                        /\ Within(Within(cache[n], ResultTtl), ResultTtl) = Within(cache[n], ResultTtl)
    BY Counts, WithinAges, ShownTwice DEF MemoryAges
  <2>3. MemoryAges' /\ \A n \in Name : Within(cache'[n], ResultTtl) = Within(cache[n], ResultTtl)
    BY <2>1, <2>2 DEF MemoryAges
  <2> QED BY <2>1, <2>3, Shown DEF MemoryPromise!vars
<1> QED BY <1>1, <1>2

\* The in-memory backend implements ProbeStorage call by call, however many probes
\* and entries there are and whatever expires: a deque that makes room on each
\* append, reads that filter or remove what is too old, and ages that go on
\* counting unseen show, after every step, what bounding count and age at once
\* would (InMemoryProbeStorage).
THEOREM MemoryImplements == Spec => MemoryKeepsPromise
<1> USE DEF vars
<1>1. Init => MemoryAges /\ MemoryPromise!Init
  <2> SUFFICES ASSUME Init PROVE MemoryAges /\ MemoryPromise!Init
    OBVIOUS
  <2>1. /\ cache = [n \in Name |-> << >>] /\ past = [n \in Name |-> << >>] /\ log = << >>
    BY DEF Init, Memory!Init
  <2>2. << >> \in Ages /\ Within(<< >>, ResultTtl) = << >> /\ Within(<< >>, AlertTtl) = << >>
    BY Counts, EmptyIsAges, ShownNone
  <2> QED BY <2>1, <2>2, Shown DEF MemoryAges, MemoryPromise!Init
<1>2. MemoryAges /\ [Next]_vars =>
          MemoryAges' /\ [MemoryPromise!Next]_(MemoryPromise!vars) /\ [MemoryCalls]_vars
  <2> SUFFICES ASSUME MemoryAges, [Next]_vars
               PROVE  /\ MemoryAges' /\ MemoryCalls
                      /\ MemoryPromise!Next \/ UNCHANGED MemoryPromise!vars
    OBVIOUS
  <2>1. MemoryCalls
    BY MemorySetLatest, MemoryAppendHistory, MemoryAppendAlert, MemoryForget DEF MemoryCalls
  <2>2. ASSUME NEW n \in Name, Memory!SetLatest(n) \/ Memory!AppendHistory(n)
        PROVE  MemoryAges' /\ MemoryPromise!Next
    BY <2>2, MemorySetLatest, MemoryAppendHistory DEF MemoryPromise!Next
  <2>3. ASSUME Memory!AppendAlert PROVE MemoryAges' /\ MemoryPromise!Next
    BY <2>3, MemoryAppendAlert DEF MemoryPromise!Next
  <2>4. ASSUME NEW names \in (SUBSET Name) \ {{}}, Memory!Forget(names)
        PROVE  MemoryAges' /\ MemoryPromise!Next
    BY <2>4, MemoryForget DEF MemoryPromise!Next
  <2>5. CASE Memory!Tick
    BY <2>1, <2>5, MemoryTick DEF MemoryPromise!Next
  <2>6. CASE Memory!ReadAlerts \/ \E names \in SUBSET Name : Memory!ReadLatest(names)
    BY <2>1, <2>6, MemoryReads
  <2>7. CASE UNCHANGED vars
    BY <2>1, <2>7, Shown DEF MemoryAges, MemoryPromise!vars
  <2> QED BY <2>1, <2>2, <2>3, <2>4, <2>5, <2>6, <2>7
       DEF Next, SetLatest, AppendHistory, AppendAlert, Forget, ReadLatest, ReadAlerts, Tick
<1> QED BY <1>1, <1>2, PTL DEF Spec, MemoryKeepsPromise, MemoryPromise!Spec

-----------------------------------------------------------------------------
(* The Redis backend.                                                      *)

LEMMA SameRetentionInRedis ==
    /\ \A c, k : Redis!Newest(c, k) = Newest(c, k)
    /\ \A c, ttl : Redis!Within(c, ttl) = Within(c, ttl)
    /\ \A c, top : Redis!Aged(c, top) = Aged(c, top)
    /\ \A c, age : Redis!Insert(c, age) = Insert(c, age)
    /\ \A c, k : RedisPromise!Newest(c, k) = Newest(c, k)
    /\ \A c, ttl : RedisPromise!Within(c, ttl) = Within(c, ttl)
    /\ \A c, top : RedisPromise!Aged(c, top) = Aged(c, top)
    /\ \A c, age : RedisPromise!Insert(c, age) = Insert(c, age)
<1>1. \A S : Redis!Cardinality(S) = Cardinality(S) /\ RedisPromise!Cardinality(S) = Cardinality(S)
  BY DEF Redis!Cardinality, RedisPromise!Cardinality, Cardinality,
         Redis!IsFiniteSet, RedisPromise!IsFiniteSet, IsFiniteSet
<1>2. \A c, k : Redis!Newest(c, k) = Newest(c, k) /\ RedisPromise!Newest(c, k) = Newest(c, k)
  BY DEF Redis!Newest, RedisPromise!Newest, Newest
<1>3. \A c, ttl : Redis!Within(c, ttl) = Within(c, ttl) /\ RedisPromise!Within(c, ttl) = Within(c, ttl)
  BY <1>1, <1>2 DEF Redis!Within, RedisPromise!Within, Within
<1>4. \A c, top : Redis!Aged(c, top) = Aged(c, top) /\ RedisPromise!Aged(c, top) = Aged(c, top)
  BY DEF Redis!Aged, RedisPromise!Aged, Aged
<1>5. \A c, age : Redis!Insert(c, age) = Insert(c, age) /\ RedisPromise!Insert(c, age) = Insert(c, age)
  BY <1>1 DEF Redis!Insert, RedisPromise!Insert, Insert
<1> QED BY <1>2, <1>3, <1>4, <1>5

Lasts == Nat \cup {Forever}
Keys  == [ages : Ages, left : Lasts]

\* A key whose expiry passes has nothing left to show: its entries are, together with
\* the time it still has, as old as the time-to-live.
KeyInv(key, count, ttl) ==
    /\ key \in Keys
    /\ Len(key.ages) <= count
    /\ ttl = 0 => key.left = Forever \/ key.ages = << >>
    /\ ttl # 0 => /\ key.left # Forever
                  /\ \A i \in 1 .. Len(key.ages) : key.ages[i] + key.left >= ttl

RedisInv ==
    /\ latestKey \in [Name -> Keys] /\ historyKey \in [Name -> Keys]
    /\ \A n \in Name : /\ KeyInv(latestKey[n], 1, ResultTtl)
                       /\ KeyInv(historyKey[n], MaxResults, ResultTtl)
    /\ KeyInv(alertsKey, MaxAlerts, AlertTtl)

LEMMA Constants ==
    /\ MaxLag \in Nat /\ Margin \in Nat /\ Forever \notin Nat
    /\ \A age \in 0 .. MaxLag : /\ age \in Nat
                                /\ ResultTtl = 0 \/ age <= ResultTtl
                                /\ AlertTtl = 0 \/ age <= AlertTtl
BY LagAssumption, MarginAssumption, TtlAssumption

LEMMA GoneKey ==
    ASSUME NEW count \in Nat, NEW ttl \in Nat
    PROVE  KeyInv(Redis!Gone, count, ttl) /\ Redis!Gone.ages = << >>
<1>1. << >> \in Ages /\ Len(<< >>) = 0
  BY EmptyIsAges
<1>2. Redis!Gone = [ages |-> << >>, left |-> 0]
  BY DEF Redis!Gone
<1>3. Redis!Gone \in Keys /\ Redis!Gone.ages = << >> /\ Redis!Gone.left = 0
  BY <1>1, <1>2 DEF Keys, Lasts
<1> QED BY <1>1, <1>3, Constants DEF KeyInv

\* A key just written, with its expiry.
LEMMA FreshKey ==
    ASSUME NEW c \in Ages, NEW count \in Nat, Len(c) <= count, NEW ttl \in Nat,
           NEW left, ttl = 0 => left = Forever, ttl # 0 => left \in Nat /\ left >= ttl
    PROVE  KeyInv([ages |-> c, left |-> left], count, ttl)
<1> DEFINE key == [ages |-> c, left |-> left]
<1>1. key \in Keys /\ key.ages = c /\ key.left = left
  BY DEF Keys, Lasts
<1>2. ttl # 0 => \A i \in 1 .. Len(c) : c[i] + left >= ttl
  BY AgesAre
<1> HIDE DEF key
<1>3. KeyInv(key, count, ttl)
  BY <1>1, <1>2, Constants DEF KeyInv
<1> QED BY <1>3 DEF key

LEMMA AddedKey ==
    ASSUME NEW count \in Nat, NEW ttl \in Nat, NEW key, KeyInv(key, count, ttl),
           NEW age \in Nat, ttl = 0 \/ age <= ttl, NEW wait \in Nat
    PROVE  LET new == Redis!Added(key, age, count, ttl, wait)
           IN  /\ KeyInv(new, count, ttl)
               /\ Within(new.ages, ttl) = RedisPromise!Kept(
                      RedisPromise!Insert(Within(key.ages, ttl), age), count, ttl)
<1> DEFINE c == key.ages
           p == Redis!Pruned(Insert(c, age), ttl, wait)
           new == Redis!Added(key, age, count, ttl, wait)
           late == ttl + wait
           left == Redis!Expiry(ttl)
<1>1. c \in Ages
  BY DEF KeyInv, Keys
<1>2. late \in Nat /\ late >= ttl
  OBVIOUS
<1>3. Insert(c, age) \in Ages
  BY <1>1, InsertJoins DEF Joins
<1>4. p = Insert(c, age) \/ (ttl # 0 /\ p = Within(Insert(c, age), late))
  BY SameRetentionInRedis DEF Redis!Pruned
<1>5. p \in Ages
  BY <1>2, <1>3, <1>4, WithinAges
<1>6. new = [ages |-> Newest(p, count), left |-> left]
  BY SameRetentionInRedis DEF Redis!Added
<1>7. (ttl = 0 => left = Forever) /\ (ttl # 0 => left \in Nat /\ left >= ttl)
  BY Constants DEF Redis!Expiry
<1> HIDE DEF p, c, late, left, new
<1>8. /\ Newest(p, count) \in Ages /\ Len(Newest(p, count)) <= count
      /\ Within(Newest(p, count), ttl) = Newest(Within(Insert(Within(c, ttl), age), ttl), count)
  <2>1. Len(Newest(p, count)) = Least(Len(p), count) /\ Len(p) \in Nat
    BY <1>5, NewestIs, AgesAre
  <2>2. Len(Newest(p, count)) <= count
    BY <2>1 DEF Least
  <2>3. /\ Newest(p, count) \in Ages
        /\ Within(Newest(p, count), ttl) = Newest(Within(Insert(Within(c, ttl), age), ttl), count)
    BY <1>1, <1>2, <1>4, ShownInsert
  <2> QED BY <2>2, <2>3
<1>9. KeyInv(new, count, ttl)
  BY <1>6, <1>7, <1>8, FreshKey
<1>10. new.ages = Newest(p, count)
  BY <1>6
<1>11. RedisPromise!Kept(RedisPromise!Insert(Within(c, ttl), age), count, ttl)
         = Newest(Within(Insert(Within(c, ttl), age), ttl), count)
  BY SameRetentionInRedis DEF RedisPromise!Kept
<1> QED BY <1>8, <1>9, <1>10, <1>11 DEF new, c

LEMMA Tops ==
    ASSUME NEW ttl \in Nat
    PROVE  /\ Redis!Top(ttl) \in Nat /\ Redis!Top(ttl) > ttl
           /\ RedisPromise!Top(ttl) \in Nat /\ RedisPromise!Top(ttl) > ttl
           /\ ttl = 0 => Redis!Top(ttl) = RedisPromise!Top(ttl)
BY Constants DEF Redis!Top, RedisPromise!Top

LEMMA LaterKey ==
    ASSUME NEW count \in Nat, NEW ttl \in Nat, NEW key, KeyInv(key, count, ttl)
    PROVE  LET new == Redis!Later(key, ttl)
           IN  /\ KeyInv(new, count, ttl)
               /\ Within(new.ages, ttl)
                    = Within(Aged(Within(key.ages, ttl), RedisPromise!Top(ttl)), ttl)
<1> DEFINE c == key.ages
           s == Redis!Top(ttl)
           t == RedisPromise!Top(ttl)
           new == Redis!Later(key, ttl)
<1>1. /\ key \in Keys /\ c \in Ages /\ key.left \in Lasts /\ Len(c) <= count
      /\ ttl = 0 => key.left = Forever \/ c = << >>
      /\ ttl # 0 => /\ key.left # Forever
                    /\ \A i \in 1 .. Len(c) : c[i] + key.left >= ttl
  BY DEF KeyInv, Keys
<1>2. s \in Nat /\ s > ttl /\ t \in Nat /\ t > ttl /\ (ttl = 0 => s = t)
  BY Tops
<1>3. new = IF key.left = 0 THEN Redis!Gone
            ELSE [ages |-> Aged(c, s),
                  left |-> IF key.left = Forever THEN Forever ELSE key.left - 1]
  BY SameRetentionInRedis DEF Redis!Later
<1> HIDE DEF c, s, t, new
<1>4. /\ Aged(c, s) \in Ages /\ Len(Aged(c, s)) = Len(c)
      /\ \A i \in 1 .. Len(c) : Aged(c, s)[i] = IF c[i] < s THEN c[i] + 1 ELSE s
  BY <1>1, <1>2, AgedIs
<1>5. Within(Aged(c, s), ttl) = Within(Aged(Within(c, ttl), t), ttl)
  BY <1>1, <1>2, ShownAged
<1>6. Len(c) \in Nat /\ \A i \in 1 .. Len(c) : c[i] \in Nat
  BY <1>1, AgesAre
<1>7. CASE key.left = 0
  <2>1. new = Redis!Gone /\ KeyInv(new, count, ttl) /\ new.ages = << >>
    BY <1>3, <1>7, GoneKey
  <2>2. Within(new.ages, ttl) = << >>
    BY <2>1, ShownNone
  <2>3. Within(Aged(c, s), ttl) = << >>
    <3>1. CASE ttl = 0
      <4>1. Len(c) = 0
        BY <1>1, <1>7, <3>1, Constants, EmptyIsAges
      <4>2. Aged(c, s) = << >>
        BY <1>4, <4>1, AgesAre, EmptySeq
      <4> QED BY <4>2, ShownNone
    <3>2. CASE ttl # 0
      <4>1. ASSUME NEW i \in 1 .. Len(c) PROVE Aged(c, s)[i] > ttl
        <5>1. c[i] \in Nat /\ c[i] >= ttl
          BY <1>1, <1>6, <1>7, <3>2
        <5>2. Aged(c, s)[i] \in {c[i] + 1, s}
          BY <1>4
        <5> QED BY <1>2, <5>1, <5>2
      <4> QED BY <1>4, <3>2, <4>1, ShownExpired
    <3> QED BY <3>1, <3>2
  <2> QED BY <1>5, <2>1, <2>2, <2>3 DEF new, c, t
<1>8. CASE key.left # 0
  <2> DEFINE left == IF key.left = Forever THEN Forever ELSE key.left - 1
  <2>1. new = [ages |-> Aged(c, s), left |-> left]
    BY <1>3, <1>8
  <2>2. left \in Lasts /\ (key.left = Forever => left = Forever)
        /\ (key.left # Forever => left \in Nat /\ left = key.left - 1 /\ key.left \in Nat)
    BY <1>1, <1>8 DEF Lasts
  <2> HIDE DEF left
  <2>3. new \in Keys /\ new.ages = Aged(c, s) /\ new.left = left
    BY <1>4, <2>1, <2>2 DEF Keys
  <2>4. ttl = 0 => left = Forever \/ new.ages = << >>
    <3>1. ASSUME c = << >> PROVE Aged(c, s) = << >>
      <4>1. Len(Aged(c, s)) = 0
        BY <1>4, <3>1, EmptyIsAges
      <4> QED BY <1>4, <4>1, AgesAre, EmptySeq
    <3> QED BY <1>1, <2>2, <2>3, <3>1
  <2>5. ASSUME ttl # 0, NEW i \in 1 .. Len(c) PROVE Aged(c, s)[i] + left >= ttl
    <3>1. c[i] \in Nat /\ c[i] + key.left >= ttl
      BY <1>1, <1>6, <2>5
    <3>2. Aged(c, s)[i] \in {c[i] + 1, s}
      BY <1>4
    <3>3. left \in Nat /\ key.left \in Nat /\ left = key.left - 1
      BY <1>1, <2>2, <2>5
    <3> DEFINE x == c[i]
               y == key.left
    <3>4. x \in Nat /\ y \in Nat /\ x + y >= ttl /\ left = y - 1
      BY <3>1, <3>3
    <3>5. Aged(c, s)[i] = x + 1 \/ Aged(c, s)[i] = s
      BY <3>2
    <3> HIDE DEF x, y
    <3>6. s + left >= ttl
      <4>1. s \in Nat /\ s > ttl /\ left \in Nat
        BY <1>2, <3>3
      <4> QED BY <4>1
    <3>7. x + 1 + left >= ttl
      BY <3>3, <3>4
    <3> QED BY <3>5, <3>6, <3>7
  <2>6. ttl # 0 => left # Forever
    BY <1>1, <2>2, Constants
  <2>7. KeyInv(new, count, ttl)
    BY <1>1, <1>4, <2>3, <2>4, <2>5, <2>6 DEF KeyInv
  <2> QED BY <1>5, <2>3, <2>7 DEF new, c, t
<1> QED BY <1>7, <1>8

-----------------------------------------------------------------------------
(* What the Redis backend shows, and its calls.                            *)

\* Reads bound the count again, to no effect: every write has.
LEMMA RedisShown ==
    ASSUME RedisInv
    PROVE  /\ Redis!ShownLatest = [n \in Name |-> Within(latestKey[n].ages, ResultTtl)]
           /\ Redis!ShownHistory = [n \in Name |-> Within(historyKey[n].ages, ResultTtl)]
           /\ Redis!ShownAlerts = Within(alertsKey.ages, AlertTtl)
<1>1. ASSUME NEW count \in Nat, NEW ttl \in Nat, NEW key, KeyInv(key, count, ttl)
      PROVE  Newest(Within(key.ages, ttl), count) = Within(key.ages, ttl)
  BY <1>1, ShownWhole DEF KeyInv, Keys
<1>2. \A n \in Name : Newest(Within(historyKey[n].ages, ResultTtl), MaxResults)
                        = Within(historyKey[n].ages, ResultTtl)
  BY <1>1, Counts DEF RedisInv
<1>3. Newest(Within(alertsKey.ages, AlertTtl), MaxAlerts) = Within(alertsKey.ages, AlertTtl)
  BY <1>1, Counts DEF RedisInv
<1>4. Redis!ShownLatest = [n \in Name |-> Within(latestKey[n].ages, ResultTtl)]
  BY SameRetentionInRedis DEF Redis!ShownLatest
<1>5. Redis!ShownHistory = [n \in Name |-> Within(historyKey[n].ages, ResultTtl)]
  BY <1>2, SameRetentionInRedis DEF Redis!ShownHistory
<1>6. Redis!ShownAlerts = Within(alertsKey.ages, AlertTtl)
  BY <1>3, SameRetentionInRedis DEF Redis!ShownAlerts
<1> QED BY <1>4, <1>5, <1>6

LEMMA RedisShownNext ==
    ASSUME RedisInv'
    PROVE  /\ Redis!ShownLatest' = [n \in Name |-> Within(latestKey'[n].ages, ResultTtl)]
           /\ Redis!ShownHistory' = [n \in Name |-> Within(historyKey'[n].ages, ResultTtl)]
           /\ Redis!ShownAlerts' = Within(alertsKey'.ages, AlertTtl)
<1>1. ASSUME NEW count \in Nat, NEW ttl \in Nat, NEW key, KeyInv(key, count, ttl)
      PROVE  Newest(Within(key.ages, ttl), count) = Within(key.ages, ttl)
  BY <1>1, ShownWhole DEF KeyInv, Keys
<1>2. \A n \in Name : Newest(Within(historyKey'[n].ages, ResultTtl), MaxResults)
                        = Within(historyKey'[n].ages, ResultTtl)
  BY <1>1, Counts DEF RedisInv
<1>3. Newest(Within(alertsKey'.ages, AlertTtl), MaxAlerts) = Within(alertsKey'.ages, AlertTtl)
  BY <1>1, Counts DEF RedisInv
<1>4. Redis!ShownLatest' = [n \in Name |-> Within(latestKey'[n].ages, ResultTtl)]
  BY SameRetentionInRedis DEF Redis!ShownLatest
<1>5. Redis!ShownHistory' = [n \in Name |-> Within(historyKey'[n].ages, ResultTtl)]
  BY <1>2, SameRetentionInRedis DEF Redis!ShownHistory
<1>6. Redis!ShownAlerts' = Within(alertsKey'.ages, AlertTtl)
  BY <1>3, SameRetentionInRedis DEF Redis!ShownAlerts
<1> QED BY <1>4, <1>5, <1>6

LEMMA RedisSetLatest ==
    ASSUME RedisInv, NEW n \in Name, NEW age \in 0 .. MaxLag, NEW wait \in 0 .. age,
           Redis!SetLatest(n, age, wait)
    PROVE  RedisInv' /\ RedisPromise!SetLatest(n, age)
<1> DEFINE left == IF ResultTtl = 0 THEN Forever ELSE ResultTtl
           new == [ages |-> <<age>>, left |-> left]
<1>1. latestKey' = [latestKey EXCEPT ![n] = new] /\ UNCHANGED <<historyKey, alertsKey>>
  BY DEF Redis!SetLatest
<1>2. age \in Nat /\ <<age>> \in Ages /\ Len(<<age>>) = 1
  BY Constants, SingleIsAges
<1>3. /\ 1 \in Nat /\ Len(<<age>>) <= 1
      /\ ResultTtl = 0 => left = Forever
      /\ ResultTtl # 0 => left \in Nat /\ left >= ResultTtl
  BY <1>2, Counts
<1>4. new.ages = <<age>>
  OBVIOUS
<1>5. KeyInv(new, 1, ResultTtl)
  <2> HIDE DEF left
  <2> QED BY <1>2, <1>3, Counts, FreshKey
<1> HIDE DEF new
<1>6. RedisInv'
  <2>1. new \in Keys
    BY <1>5 DEF KeyInv
  <2>2. latestKey' \in [Name -> Keys] /\ \A m \in Name : KeyInv(latestKey'[m], 1, ResultTtl)
    BY <1>1, <1>5, <2>1 DEF RedisInv
  <2> QED BY <1>1, <2>2 DEF RedisInv
<1>7. RedisPromise!Kept(<<age>>, 1, ResultTtl) = Within(<<age>>, ResultTtl)
  BY <1>2, <1>3, Counts, ShownWhole, SameRetentionInRedis DEF RedisPromise!Kept
<1>8. Redis!ShownLatest' = [Redis!ShownLatest EXCEPT ![n] = Within(<<age>>, ResultTtl)]
  <2>1. \A m \in Name : latestKey'[m] = IF m = n THEN new ELSE latestKey[m]
    BY <1>1 DEF RedisInv
  <2> QED BY <1>4, <1>6, <2>1, RedisShown, RedisShownNext
<1>9. UNCHANGED <<Redis!ShownHistory, Redis!ShownAlerts>>
  BY <1>1, <1>6, RedisShown, RedisShownNext
<1> QED BY <1>6, <1>7, <1>8, <1>9 DEF RedisPromise!SetLatest

LEMMA RedisAppendHistory ==
    ASSUME RedisInv, NEW n \in Name, NEW age \in 0 .. MaxLag, NEW wait \in 0 .. age,
           Redis!AppendHistory(n, age, wait)
    PROVE  RedisInv' /\ RedisPromise!AppendHistory(n, age)
<1> DEFINE new == Redis!Added(historyKey[n], age, MaxResults, ResultTtl, wait)
<1>1. historyKey' = [historyKey EXCEPT ![n] = new] /\ UNCHANGED <<latestKey, alertsKey>>
  BY DEF Redis!AppendHistory
<1>2. age \in Nat /\ wait \in Nat /\ (ResultTtl = 0 \/ age <= ResultTtl)
  BY Constants
<1>3. KeyInv(historyKey[n], MaxResults, ResultTtl)
  BY DEF RedisInv
<1>4. /\ KeyInv(new, MaxResults, ResultTtl)
      /\ Within(new.ages, ResultTtl) = RedisPromise!Kept(
             RedisPromise!Insert(Within(historyKey[n].ages, ResultTtl), age), MaxResults, ResultTtl)
  <2> DEFINE key == historyKey[n]
  <2>1. KeyInv(key, MaxResults, ResultTtl)
    BY <1>3
  <2> HIDE DEF key
  <2>2. LET later == Redis!Added(key, age, MaxResults, ResultTtl, wait)
        IN  /\ KeyInv(later, MaxResults, ResultTtl)
            /\ Within(later.ages, ResultTtl) = RedisPromise!Kept(
                   RedisPromise!Insert(Within(key.ages, ResultTtl), age), MaxResults, ResultTtl)
    BY <1>2, <2>1, Counts, AddedKey
  <2> QED BY <2>2 DEF key
<1> HIDE DEF new
<1>5. RedisInv'
  <2>1. new \in Keys
    BY <1>4 DEF KeyInv
  <2>2. /\ historyKey' \in [Name -> Keys]
        /\ \A m \in Name : KeyInv(historyKey'[m], MaxResults, ResultTtl)
    BY <1>1, <1>4, <2>1 DEF RedisInv
  <2> QED BY <1>1, <2>2 DEF RedisInv
<1>6. Redis!ShownHistory[n] = Within(historyKey[n].ages, ResultTtl)
  BY RedisShown
<1>7. Redis!ShownHistory' = [Redis!ShownHistory EXCEPT ![n] = Within(new.ages, ResultTtl)]
  <2>1. \A m \in Name : historyKey'[m] = IF m = n THEN new ELSE historyKey[m]
    BY <1>1 DEF RedisInv
  <2> QED BY <1>5, <2>1, RedisShown, RedisShownNext
<1>8. UNCHANGED <<Redis!ShownLatest, Redis!ShownAlerts>>
  BY <1>1, <1>5, RedisShown, RedisShownNext
<1> QED BY <1>4, <1>5, <1>6, <1>7, <1>8 DEF RedisPromise!AppendHistory

LEMMA RedisAppendAlert ==
    ASSUME RedisInv, NEW age \in 0 .. MaxLag, Redis!AppendAlert(age)
    PROVE  RedisInv' /\ RedisPromise!AppendAlert(age)
<1>1. /\ alertsKey' = Redis!Added(alertsKey, age, MaxAlerts, AlertTtl, 0)
      /\ UNCHANGED <<latestKey, historyKey>>
  BY DEF Redis!AppendAlert
<1>2. age \in Nat /\ 0 \in Nat /\ (AlertTtl = 0 \/ age <= AlertTtl)
  BY Constants
<1>3. KeyInv(alertsKey, MaxAlerts, AlertTtl)
  BY DEF RedisInv
<1>4. /\ KeyInv(alertsKey', MaxAlerts, AlertTtl)
      /\ Within(alertsKey'.ages, AlertTtl) = RedisPromise!Kept(
             RedisPromise!Insert(Within(alertsKey.ages, AlertTtl), age), MaxAlerts, AlertTtl)
  BY <1>1, <1>2, <1>3, Counts, AddedKey, SMTT(30)
<1>5. RedisInv'
  BY <1>1, <1>4 DEF RedisInv
<1>6. UNCHANGED <<Redis!ShownLatest, Redis!ShownHistory>>
  BY <1>1, <1>5, RedisShown, RedisShownNext
<1> QED BY <1>4, <1>5, <1>6, RedisShown, RedisShownNext DEF RedisPromise!AppendAlert

LEMMA RedisForget ==
    ASSUME RedisInv, NEW names \in SUBSET Name, Redis!Forget(names)
    PROVE  RedisInv' /\ RedisPromise!Forget(names)
<1>1. /\ latestKey' = [n \in Name |-> IF n \in names THEN Redis!Gone ELSE latestKey[n]]
      /\ historyKey' = [n \in Name |-> IF n \in names THEN Redis!Gone ELSE historyKey[n]]
      /\ UNCHANGED alertsKey
  BY DEF Redis!Forget
<1>2. /\ KeyInv(Redis!Gone, 1, ResultTtl) /\ KeyInv(Redis!Gone, MaxResults, ResultTtl)
      /\ Redis!Gone \in Keys /\ Within(Redis!Gone.ages, ResultTtl) = << >>
  BY Counts, GoneKey, ShownNone DEF KeyInv
<1>3. RedisInv'
  BY <1>1, <1>2 DEF RedisInv
<1>4. Redis!ShownLatest' = [n \in Name |-> IF n \in names THEN << >> ELSE Redis!ShownLatest[n]]
  BY <1>1, <1>2, <1>3, RedisShown, RedisShownNext
<1>5. Redis!ShownHistory' = [n \in Name |-> IF n \in names THEN << >> ELSE Redis!ShownHistory[n]]
  BY <1>1, <1>2, <1>3, RedisShown, RedisShownNext
<1>6. UNCHANGED Redis!ShownAlerts
  BY <1>1, <1>3, RedisShown, RedisShownNext
<1> QED BY <1>3, <1>4, <1>5, <1>6 DEF RedisPromise!Forget

LEMMA RedisTick ==
    ASSUME RedisInv, Redis!Tick
    PROVE  RedisInv' /\ RedisPromise!Tick
<1>1. /\ latestKey' = [n \in Name |-> Redis!Later(latestKey[n], ResultTtl)]
      /\ historyKey' = [n \in Name |-> Redis!Later(historyKey[n], ResultTtl)]
      /\ alertsKey' = Redis!Later(alertsKey, AlertTtl)
  BY DEF Redis!Tick
<1> DEFINE LaterShown(c, ttl) == Within(Aged(Within(c, ttl), RedisPromise!Top(ttl)), ttl)
<1>2. \A n \in Name : /\ KeyInv(latestKey'[n], 1, ResultTtl)
                      /\ Within(latestKey'[n].ages, ResultTtl) = LaterShown(latestKey[n].ages, ResultTtl)
  BY <1>1, Counts, LaterKey DEF RedisInv
<1>3. \A n \in Name : /\ KeyInv(historyKey'[n], MaxResults, ResultTtl)
                      /\ Within(historyKey'[n].ages, ResultTtl) = LaterShown(historyKey[n].ages, ResultTtl)
  BY <1>1, Counts, LaterKey DEF RedisInv
<1>4. /\ KeyInv(alertsKey', MaxAlerts, AlertTtl)
      /\ Within(alertsKey'.ages, AlertTtl) = LaterShown(alertsKey.ages, AlertTtl)
  BY <1>1, Counts, LaterKey DEF RedisInv
<1>5. RedisInv'
  <2>1. \A n \in Name : latestKey'[n] \in Keys /\ historyKey'[n] \in Keys
    BY <1>2, <1>3 DEF KeyInv
  <2>2. latestKey' \in [Name -> Keys] /\ historyKey' \in [Name -> Keys]
    BY <1>1, <2>1
  <2> QED BY <1>2, <1>3, <1>4, <2>2 DEF RedisInv
<1>6. Redis!ShownLatest' = [n \in Name |->
          Within(Aged(Redis!ShownLatest[n], RedisPromise!Top(ResultTtl)), ResultTtl)]
  BY <1>2, <1>5, RedisShown, RedisShownNext
<1>7. Redis!ShownHistory' = [n \in Name |->
          Within(Aged(Redis!ShownHistory[n], RedisPromise!Top(ResultTtl)), ResultTtl)]
  BY <1>3, <1>5, RedisShown, RedisShownNext
<1>8. Redis!ShownAlerts' = Within(Aged(Redis!ShownAlerts, RedisPromise!Top(AlertTtl)), AlertTtl)
  BY <1>4, <1>5, RedisShown, RedisShownNext
<1> QED BY <1>5, <1>6, <1>7, <1>8, SameRetentionInRedis DEF RedisPromise!Tick

LEMMA RedisInvInit == Init => RedisInv
<1> SUFFICES ASSUME Init PROVE RedisInv
  OBVIOUS
<1>1. /\ latestKey = [n \in Name |-> Redis!Gone] /\ historyKey = [n \in Name |-> Redis!Gone]
      /\ alertsKey = Redis!Gone
  BY DEF Init, Redis!Init
<1>2. /\ KeyInv(Redis!Gone, 1, ResultTtl) /\ KeyInv(Redis!Gone, MaxResults, ResultTtl)
      /\ KeyInv(Redis!Gone, MaxAlerts, AlertTtl) /\ Redis!Gone \in Keys
  BY Counts, GoneKey DEF KeyInv
<1> QED BY <1>1, <1>2 DEF RedisInv

\* Each step of the composition as one of the Redis backend.
RedisNext ==
    \/ \E n \in Name, age \in 0 .. MaxLag : \E wait \in 0 .. age :
          Redis!SetLatest(n, age, wait) \/ Redis!AppendHistory(n, age, wait)
    \/ \E age \in 0 .. MaxLag : Redis!AppendAlert(age)
    \/ \E names \in (SUBSET Name) \ {{}} : Redis!Forget(names)
    \/ Redis!Tick

LEMMA RedisSteps == [Next]_vars => RedisNext \/ UNCHANGED redisVars
BY DEF Next, vars, RedisNext, redisVars, SetLatest, AppendHistory, AppendAlert, Forget,
       ReadLatest, ReadAlerts, Tick

\* The Redis backend implements ProbeStorage call by call, however late results are
\* written and calls get their connection: neither pruning by a time taken before
\* the wait, nor trimming by rank, nor the expiry of a whole key takes an entry
\* that is still to be shown, and a result that was late is put where it belongs
\* (RedisProbeStorage).
THEOREM RedisImplements == Spec => RedisKeepsPromise
<1>1. Init => RedisInv /\ RedisPromise!Init
  <2> SUFFICES ASSUME Init PROVE RedisInv /\ RedisPromise!Init
    OBVIOUS
  <2>1. RedisInv
    BY RedisInvInit
  <2>2. /\ latestKey = [n \in Name |-> Redis!Gone] /\ historyKey = [n \in Name |-> Redis!Gone]
        /\ alertsKey = Redis!Gone
    BY DEF Init, Redis!Init
  <2>3. /\ Redis!Gone.ages = << >>
        /\ Within(<< >>, ResultTtl) = << >> /\ Within(<< >>, AlertTtl) = << >>
    BY Counts, GoneKey, ShownNone
  <2> QED BY <2>1, <2>2, <2>3, RedisShown DEF RedisPromise!Init
<1>2. RedisInv /\ [Next]_vars =>
          RedisInv' /\ [RedisPromise!Next]_(RedisPromise!vars) /\ [RedisCalls]_vars
  <2> SUFFICES ASSUME RedisInv, [Next]_vars
               PROVE  /\ RedisInv' /\ RedisCalls
                      /\ RedisPromise!Next \/ UNCHANGED RedisPromise!vars
    OBVIOUS
  <2>1. RedisCalls
    BY RedisSetLatest, RedisAppendHistory, RedisAppendAlert, RedisForget DEF RedisCalls
  <2>2. ASSUME NEW n \in Name, NEW age \in 0 .. MaxLag, NEW wait \in 0 .. age,
               Redis!SetLatest(n, age, wait) \/ Redis!AppendHistory(n, age, wait)
        PROVE  RedisInv' /\ RedisPromise!Next
    BY <2>2, RedisSetLatest, RedisAppendHistory DEF RedisPromise!Next
  <2>3. ASSUME NEW age \in 0 .. MaxLag, Redis!AppendAlert(age)
        PROVE  RedisInv' /\ RedisPromise!Next
    BY <2>3, RedisAppendAlert DEF RedisPromise!Next
  <2>4. ASSUME NEW names \in (SUBSET Name) \ {{}}, Redis!Forget(names)
        PROVE  RedisInv' /\ RedisPromise!Next
    BY <2>4, RedisForget DEF RedisPromise!Next
  <2>5. ASSUME Redis!Tick PROVE RedisInv' /\ RedisPromise!Next
    BY <2>5, RedisTick DEF RedisPromise!Next
  <2>6. ASSUME UNCHANGED redisVars PROVE RedisInv' /\ UNCHANGED RedisPromise!vars
    <3>1. RedisInv'
      BY <2>6 DEF redisVars, RedisInv
    <3> QED BY <2>6, <3>1, RedisShown, RedisShownNext DEF redisVars, RedisPromise!vars
  <2>7. CASE RedisNext
    BY <2>1, <2>2, <2>3, <2>4, <2>5, <2>7 DEF RedisNext
  <2> QED BY <2>1, <2>6, <2>7, RedisSteps
<1> QED BY <1>1, <1>2, PTL DEF Spec, RedisKeepsPromise, RedisPromise!Spec

-----------------------------------------------------------------------------
(* The index of names.                                                     *)

\* A name's score keeps it in the index for as long as the index is kept.
ScoreInv(x, left) ==
    /\ x \in Ages /\ Len(x) <= 1
    /\ Len(x) = 1 =>
          /\ ResultTtl = 0 => left = Forever
          /\ ResultTtl # 0 => left # Forever /\ x[1] + left >= ResultTtl

\* No entry is much newer than its name's score, unless it is about to expire: every
\* write scores the name, and a score moves back by no more than the wait of a call.
Covered(c, x) ==
    \A i \in 1 .. Len(c) : \/ ResultTtl # 0 /\ c[i] + MaxLag > ResultTtl
                           \/ Len(x) = 1 /\ x[1] <= c[i] + MaxLag

IndexInv ==
    /\ index \in [Name -> Ages] /\ indexLeft \in Lasts
    /\ \A n \in Name : /\ ScoreInv(index[n], indexLeft)
                       /\ Covered(latestKey[n].ages, index[n])
                       /\ Covered(historyKey[n].ages, index[n])

LEMMA KeyAges == RedisInv => \A n \in Name : /\ latestKey[n] \in Keys /\ historyKey[n] \in Keys
                                             /\ latestKey[n].ages \in Ages
                                             /\ historyKey[n].ages \in Ages
BY DEF RedisInv, Keys

LEMMA CoveredNone == \A x : Covered(<< >>, x)
<1>1. Len(<< >>) = 0
  BY EmptyIsAges
<1> QED BY <1>1 DEF Covered

LEMMA ScoreNone == \A left : ScoreInv(<< >>, left)
BY EmptyIsAges DEF ScoreInv

LEMMA ExpiryIs ==
    /\ ResultTtl = 0 => Redis!Expiry(ResultTtl) = Forever
    /\ ResultTtl # 0 => /\ Redis!Expiry(ResultTtl) \in Nat
                        /\ Redis!Expiry(ResultTtl) >= ResultTtl
    /\ Redis!Expiry(ResultTtl) \in Lasts
BY Counts, Constants DEF Redis!Expiry, Lasts

LEMMA FirstIs == \A x \in Ages : Len(x) = 1 => x[1] \in Nat
<1>1. ASSUME NEW x \in Ages, Len(x) = 1 PROVE x[1] \in Nat
  <2>1. 1 \in 1 .. Len(x)
    BY <1>1
  <2> QED BY <2>1, AgesAre
<1> QED BY <1>1

LEMMA ShortIs == \A x \in Ages : Len(x) <= 1 => Len(x) \in {0, 1}
<1>1. ASSUME NEW x \in Ages, Len(x) <= 1 PROVE Len(x) \in {0, 1}
  <2>1. Len(x) \in Nat
    BY AgesAre
  <2>2. \A k \in Nat : k <= 1 => k \in {0, 1}
    OBVIOUS
  <2> QED BY <1>1, <2>1, <2>2
<1> QED BY <1>1

LEMMA ScoreWritten ==
    ASSUME NEW x \in Ages, Len(x) <= 1
    PROVE  ScoreInv(x, Redis!Expiry(ResultTtl))
<1>1. Len(x) = 1 => x[1] \in Nat
  BY FirstIs
<1> QED BY <1>1, ExpiryIs, Counts, Constants DEF ScoreInv

LEMMA CoveredWritten ==
    ASSUME NEW c \in Ages, NEW wait \in 0 .. MaxLag
    PROVE  <<wait>> \in Ages /\ Len(<<wait>>) <= 1 /\ Covered(c, <<wait>>)
<1>1. wait \in Nat /\ wait <= MaxLag /\ MaxLag \in Nat
  BY Constants
<1>2. <<wait>> \in Ages /\ Len(<<wait>>) = 1 /\ <<wait>>[1] = wait
  BY <1>1, SingleIsAges
<1>3. \A i \in 1 .. Len(c) : wait <= c[i] + MaxLag
  BY <1>1, AgesAre
<1> QED BY <1>2, <1>3 DEF Covered

\* A collection of at most one entry.
LEMMA WithinSingle ==
    ASSUME NEW x \in Ages, Len(x) <= 1, NEW ttl \in Nat, ttl # 0
    PROVE  \/ Within(x, ttl) = x /\ (Len(x) = 1 => x[1] <= ttl)
           \/ Within(x, ttl) = << >> /\ Len(x) = 1 /\ x[1] > ttl
<1>0. Len(x) \in {0, 1} /\ (Len(x) = 1 => x[1] \in Nat)
  BY ShortIs, FirstIs
<1>1. CASE Len(x) = 0
  <2>1. x = << >>
    BY <1>1, EmptySeq, AgesAre
  <2> QED BY <1>1, <2>1, ShownNone
<1>2. CASE Len(x) = 1 /\ x[1] > ttl
  BY <1>2, ShownExpired
<1>3. CASE Len(x) = 1 /\ x[1] <= ttl
  <2>1. Fresh(x, ttl, 1)
    BY <1>3 DEF Fresh
  <2>2. 1 \in Nat /\ Newest(x, 1) = x
    BY <1>3 DEF Newest
  <2> QED BY <1>3, <2>1, <2>2, WithinIsNewest
<1> QED BY <1>0, <1>1, <1>2, <1>3

LEMMA CoveredPruned ==
    ASSUME NEW c \in Ages, NEW x \in Ages, Len(x) <= 1, Covered(c, x), NEW wait \in Nat
    PROVE  LET y == Redis!Pruned(x, ResultTtl, wait)
           IN  y \in Ages /\ Len(y) <= 1 /\ Covered(c, y)
<1> DEFINE y == Redis!Pruned(x, ResultTtl, wait)
           late == ResultTtl + wait
<1>1. y = IF ResultTtl = 0 THEN x ELSE Within(x, late)
  BY SameRetentionInRedis DEF Redis!Pruned
<1>2. ResultTtl \in Nat /\ late \in Nat /\ late >= ResultTtl
  BY Counts
<1> HIDE DEF y, late
<1>3. CASE y = x
  BY <1>3 DEF y
<1>4. CASE y # x
  <2>1. ResultTtl # 0 /\ late # 0
    BY <1>1, <1>2, <1>4
  <2>2. y = << >> /\ Len(x) = 1 /\ x[1] > late
    BY <1>1, <1>2, <1>4, <2>1, WithinSingle
  <2>3. << >> \in Ages /\ Len(<< >>) = 0
    BY EmptyIsAges
  <2>4. ASSUME NEW i \in 1 .. Len(c) PROVE c[i] + MaxLag > ResultTtl
    <3>1. c[i] \in Nat /\ MaxLag \in Nat /\ x[1] \in Nat
      BY <2>2, AgesAre, FirstIs, Constants
    <3>2. c[i] + MaxLag > ResultTtl \/ x[1] <= c[i] + MaxLag
      BY DEF Covered
    <3> QED BY <1>2, <2>2, <3>1, <3>2
  <2>5. Covered(c, y)
    BY <2>1, <2>4 DEF Covered
  <2> QED BY <2>2, <2>3, <2>5 DEF y
<1> QED BY <1>3, <1>4

\* A tick: the score and the entries age alike, unless one of the keys is gone.
LEMMA CoveredLater ==
    ASSUME NEW left \in Lasts, NEW x, ScoreInv(x, left),
           NEW key \in Keys, Covered(key.ages, x)
    PROVE  /\ ScoreInv(Redis!Later([ages |-> x, left |-> left], ResultTtl).ages,
                       Redis!Later([ages |-> << >>, left |-> left], ResultTtl).left)
           /\ Covered(Redis!Later(key, ResultTtl).ages,
                      Redis!Later([ages |-> x, left |-> left], ResultTtl).ages)
<1> DEFINE ttl == ResultTtl
           s == Redis!Top(ttl)
           c == key.ages
           y == Redis!Later([ages |-> x, left |-> left], ttl).ages
           last == Redis!Later([ages |-> << >>, left |-> left], ttl).left
           d == Redis!Later(key, ttl).ages
<1>1. /\ x \in Ages /\ Len(x) \in {0, 1} /\ (Len(x) = 1 => x[1] \in Nat)
      /\ Len(x) = 1 => /\ ttl = 0 => left = Forever
                       /\ ttl # 0 => left # Forever /\ x[1] + left >= ttl
  BY ShortIs, FirstIs DEF ScoreInv
<1>2. c \in Ages /\ Len(c) \in Nat /\ \A i \in 1 .. Len(c) : c[i] \in Nat
  BY AgesAre DEF Keys
<1>3. /\ ttl \in Nat /\ s \in Nat /\ s > ttl /\ MaxLag \in Nat /\ Forever \notin Nat
      /\ s = ttl + MaxLag + 1
  BY Counts, Tops, Constants DEF Redis!Top
<1>4. \A i \in 1 .. Len(c) : \/ ttl # 0 /\ c[i] + MaxLag > ttl
                             \/ Len(x) = 1 /\ x[1] <= c[i] + MaxLag
  BY DEF Covered
<1>5. d = << >> \/ d = Aged(c, s)
  BY SameRetentionInRedis, GoneKey, Counts DEF Redis!Later
<1>6. y = IF left = 0 THEN << >> ELSE Aged(x, s)
  BY SameRetentionInRedis, GoneKey, Counts DEF Redis!Later
<1>7. left # 0 => last = IF left = Forever THEN Forever ELSE left - 1
  BY DEF Redis!Later
<1> HIDE DEF ttl, s, c, y, last, d
<1>8. /\ Aged(c, s) \in Ages /\ Len(Aged(c, s)) = Len(c)
      /\ \A i \in 1 .. Len(c) : Aged(c, s)[i] = IF c[i] < s THEN c[i] + 1 ELSE s
  BY <1>2, <1>3, AgedIs
<1>9. /\ Aged(x, s) \in Ages /\ Len(Aged(x, s)) = Len(x)
      /\ Len(x) = 1 => Aged(x, s)[1] = IF x[1] < s THEN x[1] + 1 ELSE s
  <2>1. /\ Aged(x, s) \in Ages /\ Len(Aged(x, s)) = Len(x)
        /\ \A i \in 1 .. Len(x) : Aged(x, s)[i] = IF x[i] < s THEN x[i] + 1 ELSE s
    BY <1>1, <1>3, AgedIs
  <2>2. Len(x) = 1 => 1 \in 1 .. Len(x)
    OBVIOUS
  <2> QED BY <2>1, <2>2
<1>10. ScoreInv(y, last)
  <2>1. CASE left = 0
    BY <1>6, <2>1, ScoreNone
  <2>2. CASE left # 0
    <3>1. y = Aged(x, s) /\ y \in Ages /\ Len(y) = Len(x)
      BY <1>6, <1>9, <2>2
    <3>2. ASSUME Len(x) = 1, ttl = 0 PROVE last = Forever
      BY <1>1, <1>7, <2>2, <3>2
    <3>3. ASSUME Len(x) = 1, ttl # 0 PROVE last # Forever /\ y[1] + last >= ttl
      <4>1. left # Forever /\ left \in Nat /\ last = left - 1 /\ last \in Nat
        BY <1>1, <1>7, <2>2, <3>3 DEF Lasts
      <4>2. y[1] = x[1] + 1 \/ y[1] = s
        BY <1>9, <3>1, <3>3
      <4>3. x[1] \in Nat /\ x[1] + left >= ttl
        BY <1>1, <3>3
      <4>4. s + last >= ttl
        BY <1>3, <4>1
      <4>5. x[1] + 1 + last >= ttl
        BY <4>1, <4>3
      <4> QED BY <1>3, <4>1, <4>2, <4>4, <4>5
    <3> QED BY <1>1, <3>1, <3>2, <3>3 DEF ScoreInv, ttl
  <2> QED BY <2>1, <2>2
<1>11. Covered(Aged(c, s), y)
  <2>1. ASSUME NEW i \in 1 .. Len(c)
        PROVE  \/ ttl # 0 /\ Aged(c, s)[i] + MaxLag > ttl
               \/ Len(y) = 1 /\ y[1] <= Aged(c, s)[i] + MaxLag
    <3> DEFINE a == c[i]
               b == Aged(c, s)[i]
    <3>1. a \in Nat /\ b = IF a < s THEN a + 1 ELSE s
      BY <1>2, <1>8
    <3>2. (ttl # 0 /\ a + MaxLag > ttl) \/ (Len(x) = 1 /\ x[1] <= a + MaxLag)
      BY <1>4
    <3> HIDE DEF a, b
    <3>3. b \in Nat /\ (b = a + 1 \/ b = s)
      BY <1>3, <3>1
    <3>4. CASE ttl # 0 /\ a + MaxLag > ttl
      <4>1. b + MaxLag > ttl
        BY <1>3, <3>1, <3>3, <3>4
      <4> QED BY <3>4, <4>1 DEF b
    <3>5. CASE Len(x) = 1 /\ x[1] <= a + MaxLag /\ left = 0
      <4>1. ttl # 0 /\ x[1] \in Nat /\ x[1] >= ttl
        BY <1>1, <1>3, <3>5
      <4>2. b + MaxLag > ttl
        BY <1>3, <3>1, <3>3, <3>5, <4>1
      <4> QED BY <4>1, <4>2 DEF b
    <3>6. CASE Len(x) = 1 /\ x[1] <= a + MaxLag /\ left # 0
      <4>1. Len(y) = 1 /\ x[1] \in Nat /\ y[1] = IF x[1] < s THEN x[1] + 1 ELSE s
        BY <1>1, <1>6, <1>9, <3>6
      <4>2. y[1] <= b + MaxLag
        BY <1>3, <3>1, <3>6, <4>1
      <4> QED BY <4>1, <4>2 DEF b
    <3> QED BY <3>2, <3>4, <3>5, <3>6
  <2> QED BY <1>8, <2>1 DEF Covered, ttl
<1>12. Covered(d, y)
  BY <1>5, <1>11, CoveredNone
<1> QED BY <1>10, <1>12 DEF ttl, y, last, d

LEMMA IndexWritten ==
    ASSUME RedisInv', IndexInv, NEW n \in Name, NEW wait \in 0 .. MaxLag, Redis!Index(n, wait),
           \A m \in Name : m # n => /\ latestKey'[m] = latestKey[m]
                                    /\ historyKey'[m] = historyKey[m]
    PROVE  IndexInv'
<1>1. /\ index' = [m \in Name |-> IF m = n THEN <<wait>> ELSE Redis!Pruned(index[m], ResultTtl, wait)]
      /\ indexLeft' = Redis!Expiry(ResultTtl)
  BY DEF Redis!Index
<1>2. \A m \in Name : latestKey'[m].ages \in Ages /\ historyKey'[m].ages \in Ages
  BY DEF RedisInv, Keys
<1>3. ASSUME NEW m \in Name
      PROVE  /\ index'[m] \in Ages /\ Len(index'[m]) <= 1
             /\ Covered(latestKey'[m].ages, index'[m]) /\ Covered(historyKey'[m].ages, index'[m])
  <2>1. CASE m = n
    <3>1. index'[m] = <<wait>>
      BY <1>1, <2>1
    <3> QED BY <1>2, <3>1, CoveredWritten
  <2>2. CASE m # n
    <3> DEFINE x == index[m]
    <3>1. index'[m] = Redis!Pruned(x, ResultTtl, wait)
      BY <1>1, <2>2
    <3>2. /\ x \in Ages /\ Len(x) <= 1 /\ wait \in Nat
          /\ Covered(latestKey'[m].ages, x) /\ Covered(historyKey'[m].ages, x)
      BY <2>2, Constants DEF IndexInv, ScoreInv
    <3> HIDE DEF x
    <3> QED BY <1>2, <3>1, <3>2, CoveredPruned
  <2> QED BY <2>1, <2>2
<1>4. \A m \in Name : ScoreInv(index'[m], indexLeft')
  BY <1>1, <1>3, ScoreWritten
<1>5. index' \in [Name -> Ages] /\ indexLeft' \in Lasts
  BY <1>1, <1>3, ExpiryIs
<1> QED BY <1>3, <1>4, <1>5 DEF IndexInv

LEMMA IndexStep ==
    ASSUME RedisInv, RedisInv', IndexInv, RedisNext
    PROVE  IndexInv'
<1>1. ASSUME NEW n \in Name, NEW age \in 0 .. MaxLag, NEW wait \in 0 .. age,
             Redis!SetLatest(n, age, wait) \/ Redis!AppendHistory(n, age, wait)
      PROVE  IndexInv'
  <2>1. wait \in 0 .. MaxLag
    BY Constants
  <2>2. /\ Redis!Index(n, wait)
        /\ \A m \in Name : m # n => latestKey'[m] = latestKey[m] /\ historyKey'[m] = historyKey[m]
    BY <1>1 DEF Redis!SetLatest, Redis!AppendHistory, RedisInv
  <2> QED BY <2>1, <2>2, IndexWritten
<1>2. ASSUME NEW age \in 0 .. MaxLag, Redis!AppendAlert(age) PROVE IndexInv'
  BY <1>2 DEF Redis!AppendAlert, IndexInv
<1>3. ASSUME NEW names \in SUBSET Name, Redis!Forget(names) PROVE IndexInv'
  <2>1. /\ latestKey' = [n \in Name |-> IF n \in names THEN Redis!Gone ELSE latestKey[n]]
        /\ historyKey' = [n \in Name |-> IF n \in names THEN Redis!Gone ELSE historyKey[n]]
        /\ index' = [n \in Name |-> IF n \in names THEN << >> ELSE index[n]]
        /\ indexLeft' = IF \A n \in Name : index'[n] = << >> THEN 0 ELSE indexLeft
    BY <1>3 DEF Redis!Forget
  <2>2. Redis!Gone.ages = << >> /\ << >> \in Ages
    BY Counts, GoneKey, EmptyIsAges
  <2>3. ASSUME NEW n \in Name
        PROVE  /\ ScoreInv(index'[n], indexLeft')
               /\ Covered(latestKey'[n].ages, index'[n]) /\ Covered(historyKey'[n].ages, index'[n])
    <3>1. CASE index'[n] = << >> /\ n \in names
      BY <2>1, <2>2, <3>1, ScoreNone, CoveredNone
    <3>2. CASE n \notin names
      <4>1. /\ index'[n] = index[n] /\ latestKey'[n] = latestKey[n] /\ historyKey'[n] = historyKey[n]
        BY <2>1, <3>2
      <4>2. index[n] = << >> \/ indexLeft' = indexLeft
        BY <2>1, <4>1
      <4> QED BY <4>1, <4>2, ScoreNone DEF IndexInv
    <3> QED BY <2>1, <3>1, <3>2
  <2>4. index' \in [Name -> Ages] /\ indexLeft' \in Lasts
    BY <2>1, <2>2 DEF IndexInv, Lasts
  <2> QED BY <2>3, <2>4 DEF IndexInv
<1>4. CASE Redis!Tick
  <2>1. /\ latestKey' = [n \in Name |-> Redis!Later(latestKey[n], ResultTtl)]
        /\ historyKey' = [n \in Name |-> Redis!Later(historyKey[n], ResultTtl)]
        /\ index' = [n \in Name |->
                        Redis!Later([ages |-> index[n], left |-> indexLeft], ResultTtl).ages]
        /\ indexLeft' = Redis!Later([ages |-> << >>, left |-> indexLeft], ResultTtl).left
    BY <1>4 DEF Redis!Tick
  <2>2. ASSUME NEW n \in Name
        PROVE  /\ ScoreInv(index'[n], indexLeft')
               /\ Covered(latestKey'[n].ages, index'[n]) /\ Covered(historyKey'[n].ages, index'[n])
    <3> DEFINE x == index[n]
               left == indexLeft
               key == latestKey[n]
               hist == historyKey[n]
    <3>1. /\ left \in Lasts /\ ScoreInv(x, left) /\ key \in Keys /\ hist \in Keys
          /\ Covered(key.ages, x) /\ Covered(hist.ages, x)
      BY KeyAges DEF IndexInv
    <3> HIDE DEF x, left, key, hist
    <3>2. /\ ScoreInv(Redis!Later([ages |-> x, left |-> left], ResultTtl).ages,
                      Redis!Later([ages |-> << >>, left |-> left], ResultTtl).left)
          /\ Covered(Redis!Later(key, ResultTtl).ages,
                     Redis!Later([ages |-> x, left |-> left], ResultTtl).ages)
          /\ Covered(Redis!Later(hist, ResultTtl).ages,
                     Redis!Later([ages |-> x, left |-> left], ResultTtl).ages)
      BY <3>1, CoveredLater
    <3> QED BY <2>1, <3>2 DEF x, left, key, hist
  <2>3. index' \in [Name -> Ages]
    BY <2>1, <2>2 DEF ScoreInv
  <2>4. indexLeft' \in Lasts
    <3>1. CASE indexLeft = 0
      BY <2>1, <3>1 DEF Redis!Later, Redis!Gone, Lasts
    <3>2. CASE indexLeft # 0
      <4>1. indexLeft \in Lasts /\ indexLeft' = IF indexLeft = Forever THEN Forever ELSE indexLeft - 1
        BY <2>1, <3>2 DEF Redis!Later, IndexInv
      <4> QED BY <3>2, <4>1 DEF Lasts
    <3> QED BY <3>1, <3>2
  <2> QED BY <2>2, <2>3, <2>4 DEF IndexInv
<1> QED BY <1>1, <1>2, <1>3, <1>4 DEF RedisNext

LEMMA IndexInvCovers == RedisInv /\ IndexInv => IndexCovers
<1> SUFFICES ASSUME RedisInv, IndexInv, NEW n \in Name, n \notin Redis!Listed
             PROVE  \A c \in {Redis!ShownLatest[n], Redis!ShownHistory[n]} :
                        \A i \in DOMAIN c : ResultTtl # 0 /\ c[i] + MaxLag > ResultTtl
  BY DEF IndexCovers
<1> DEFINE x == index[n]
<1>1. Within(x, ResultTtl) = << >> /\ x \in Ages /\ Len(x) <= 1
  BY SameRetentionInRedis DEF Redis!Listed, IndexInv, ScoreInv
<1>2. Len(x) = 1 => ResultTtl # 0 /\ x[1] > ResultTtl
  <2>1. Len(x) = 1 => x # << >>
    BY EmptyIsAges
  <2>2. ResultTtl = 0 => Within(x, ResultTtl) = x
    BY DEF Within
  <2> QED BY <1>1, <2>1, <2>2, Counts, WithinSingle
<1> HIDE DEF x
<1>3. ASSUME NEW c \in Ages, Covered(c, x), NEW i \in DOMAIN Within(c, ResultTtl)
      PROVE  ResultTtl # 0 /\ Within(c, ResultTtl)[i] + MaxLag > ResultTtl
  <2> DEFINE w == Within(c, ResultTtl)
  <2>1. ASSUME NEW j \in 1 .. Len(c) PROVE ResultTtl # 0 /\ c[j] + MaxLag > ResultTtl
    <3>1. c[j] \in Nat /\ MaxLag \in Nat /\ ResultTtl \in Nat /\ (Len(x) = 1 => x[1] \in Nat)
      BY <1>1, AgesAre, FirstIs, Constants, Counts
    <3>2. \/ ResultTtl # 0 /\ c[j] + MaxLag > ResultTtl
          \/ Len(x) = 1 /\ x[1] <= c[j] + MaxLag
      BY <1>3 DEF Covered
    <3> QED BY <1>2, <3>1, <3>2
  <2>2. \E j \in 1 .. Len(c) : w[i] = c[j]
    <3>1. CASE ResultTtl = 0
      BY <1>3, <3>1, AgesAre DEF Within
    <3>2. CASE ResultTtl # 0
      <4>1. PICK k \in 0 .. Len(c) : Fresh(c, ResultTtl, k)
        BY Counts, FreshExists
      <4>2. k \in Nat /\ Len(c) \in Nat /\ Least(Len(c), k) = k
        BY <4>1, AgesAre DEF Least
      <4>3. w = Newest(c, k)
        BY <3>2, <4>1, <4>2, Counts, WithinIsNewest
      <4>4. /\ Newest(c, k) \in Ages /\ Len(Newest(c, k)) = Least(Len(c), k)
            /\ \A j \in 1 .. Least(Len(c), k) : Newest(c, k)[j] = c[Len(c) - Least(Len(c), k) + j]
        BY <4>2, NewestIs
      <4> HIDE DEF w
      <4>5. DOMAIN w = 1 .. k /\ \A j \in 1 .. k : w[j] = c[Len(c) - k + j]
        BY <4>2, <4>3, <4>4, AgesAre
      <4>6. i \in 1 .. k
        BY <1>3, <4>5 DEF w
      <4>7. Len(c) - k + i \in 1 .. Len(c)
        BY <4>1, <4>2, <4>6
      <4> QED BY <4>5, <4>6, <4>7
    <3> QED BY <3>1, <3>2
  <2> QED BY <2>1, <2>2
<1>4. /\ latestKey[n].ages \in Ages /\ historyKey[n].ages \in Ages
      /\ Covered(latestKey[n].ages, x) /\ Covered(historyKey[n].ages, x)
  BY KeyAges DEF IndexInv, x
<1>5. /\ Redis!ShownLatest[n] = Within(latestKey[n].ages, ResultTtl)
      /\ Redis!ShownHistory[n] = Within(historyKey[n].ages, ResultTtl)
  BY RedisShown
<1> QED BY <1>3, <1>4, <1>5

\* Every probe with something to show is found by way of the index, for any probes,
\* bounds and delays, but in the last moments of its results, by which a late call
\* may have moved its score back (_index and the reads of all probes).
THEOREM IndexFindsShown == Spec => []IndexCovers
<1>1. Init => RedisInv /\ IndexInv
  <2> SUFFICES ASSUME Init PROVE RedisInv /\ IndexInv
    OBVIOUS
  <2>1. /\ latestKey = [n \in Name |-> Redis!Gone] /\ historyKey = [n \in Name |-> Redis!Gone]
        /\ index = [n \in Name |-> << >>] /\ indexLeft = 0
    BY DEF Init, Redis!Init
  <2>2. Redis!Gone.ages = << >> /\ << >> \in Ages
    BY Counts, GoneKey, EmptyIsAges
  <2> QED BY <2>1, <2>2, RedisInvInit, ScoreNone, CoveredNone DEF IndexInv, Lasts
<1>2. RedisInv /\ IndexInv /\ [Next]_vars => RedisInv' /\ IndexInv'
  <2> SUFFICES ASSUME RedisInv, IndexInv, [Next]_vars PROVE RedisInv' /\ IndexInv'
    OBVIOUS
  <2>1. CASE UNCHANGED redisVars
    BY <2>1 DEF redisVars, RedisInv, IndexInv
  <2>2. CASE RedisNext
    <3>1. RedisInv'
      BY <2>2, RedisSetLatest, RedisAppendHistory, RedisAppendAlert, RedisForget, RedisTick
         DEF RedisNext
    <3> QED BY <2>2, <3>1, IndexStep
  <2> QED BY <2>1, <2>2, RedisSteps
<1> QED BY <1>1, <1>2, IndexInvCovers, PTL DEF Spec
-----------------------------------------------------------------------------
(* The types.                                                              *)

\* Ordered entries of ages up to top, and at most count of them.
Young(top) == {c \in Ages : \A i \in 1 .. Len(c) : c[i] <= top}
Bounded(count, top) == {c \in Young(top) : Len(c) <= count}

LEMMA BoundedAre ==
    ASSUME NEW count \in Nat, NEW top \in Nat, NEW c \in Bounded(count, top)
    PROVE  /\ c \in Ages
           /\ c \in Memory!Collections(count, top)
           /\ c \in Redis!Collections(count, top)
<1>1. c \in Ages /\ Len(c) <= count /\ \A i \in 1 .. Len(c) : c[i] <= top
  BY DEF Bounded, Young
<1>2. /\ c \in Seq(Nat) /\ Len(c) \in Nat /\ DOMAIN c = 1 .. Len(c)
      /\ \A i \in 1 .. Len(c) : c[i] \in Nat
  BY <1>1, AgesAre
<1>3. c \in [1 .. Len(c) -> Nat]
  BY <1>2, LenProperties
<1>4. c \in [1 .. Len(c) -> 0 .. top]
  BY <1>1, <1>2, <1>3
<1>5. Len(c) \in 0 .. count
  BY <1>1, <1>2
<1> DEFINE Lists(k) == [1 .. k -> 0 .. top]
           U == UNION {Lists(k) : k \in 0 .. count}
<1>6. c \in U
  <2>1. c \in Lists(Len(c))
    BY <1>4
  <2> HIDE DEF Lists
  <2> QED BY <1>5, <2>1
<1>7. Ordered(c) /\ (Memory!Ordered(c) <=> Ordered(c)) /\ (Redis!Ordered(c) <=> Ordered(c))
  BY <1>1 DEF Ages, Ordered, Memory!Ordered, Redis!Ordered
<1>8. /\ Memory!Collections(count, top) = {d \in U : Memory!Ordered(d)}
      /\ Redis!Collections(count, top) = {d \in U : Redis!Ordered(d)}
  BY DEF Memory!Collections, Redis!Collections
<1> HIDE DEF U
<1> QED BY <1>1, <1>6, <1>7, <1>8

LEMMA EmptyIsBounded ==
    ASSUME NEW count \in Nat, NEW top \in Nat
    PROVE  << >> \in Bounded(count, top)
BY EmptyIsAges DEF Bounded, Young

LEMMA SingleIsBounded ==
    ASSUME NEW top \in Nat, NEW age \in Nat, age <= top, NEW count \in Nat, 1 <= count
    PROVE  <<age>> \in Bounded(count, top)
BY SingleIsAges DEF Bounded, Young

LEMMA NewestIsBounded ==
    ASSUME NEW top \in Nat, NEW c \in Young(top), NEW k \in Nat
    PROVE  /\ Newest(c, k) \in Bounded(k, top)
           /\ Len(Newest(c, k)) <= Len(c)
<1> DEFINE d == Newest(c, k)
           m == Least(Len(c), k)
<1>1. c \in Ages /\ Len(c) \in Nat /\ \A i \in 1 .. Len(c) : c[i] <= top
  BY AgesAre DEF Young
<1>2. /\ d \in Ages /\ Len(d) = m
      /\ \A i \in 1 .. m : d[i] = c[Len(c) - m + i]
  BY <1>1, NewestIs
<1>3. m \in Nat /\ m <= Len(c) /\ m <= k
  BY <1>1 DEF Least
<1> HIDE DEF d, m
<1>4. ASSUME NEW i \in 1 .. m PROVE d[i] <= top
  <2>1. Len(c) - m + i \in 1 .. Len(c)
    BY <1>1, <1>3
  <2> QED BY <1>1, <1>2, <2>1
<1> QED BY <1>2, <1>3, <1>4 DEF Bounded, Young, d

LEMMA WithinIsBounded ==
    ASSUME NEW top \in Nat, NEW c \in Young(top), NEW ttl \in Nat
    PROVE  Within(c, ttl) \in Young(top) /\ Len(Within(c, ttl)) <= Len(c)
<1>1. c \in Ages /\ Len(c) \in Nat
  BY AgesAre DEF Young
<1>2. CASE ttl = 0
  BY <1>1, <1>2 DEF Within
<1>3. CASE ttl # 0
  <2>1. PICK n \in 0 .. Len(c) : Fresh(c, ttl, n)
    BY <1>1, FreshExists
  <2>2. n \in Nat /\ Within(c, ttl) = Newest(c, n)
    BY <1>1, <1>3, <2>1, WithinIsNewest
  <2> QED BY <2>2, NewestIsBounded DEF Bounded
<1> QED BY <1>2, <1>3

LEMMA AgedIsBounded ==
    ASSUME NEW count \in Nat, NEW top \in Nat, NEW c \in Bounded(count, top)
    PROVE  Aged(c, top) \in Bounded(count, top)
<1>1. c \in Ages /\ Len(c) <= count /\ \A i \in 1 .. Len(c) : c[i] \in Nat
  BY AgesAre DEF Bounded, Young
<1>2. /\ Aged(c, top) \in Ages /\ Len(Aged(c, top)) = Len(c)
      /\ \A i \in 1 .. Len(c) : Aged(c, top)[i] = IF c[i] < top THEN c[i] + 1 ELSE top
  BY <1>1, AgedIs
<1>3. \A i \in 1 .. Len(c) : Aged(c, top)[i] <= top
  BY <1>1, <1>2
<1> QED BY <1>1, <1>2, <1>3 DEF Bounded, Young

LEMMA InsertIsYoung ==
    ASSUME NEW top \in Nat, NEW c \in Young(top), NEW age \in Nat, age <= top
    PROVE  Insert(c, age) \in Young(top)
<1> DEFINE d == Insert(c, age)
<1>1. c \in Ages /\ Len(c) \in Nat /\ \A i \in 1 .. Len(c) : c[i] <= top
  BY AgesAre DEF Young
<1>2. PICK k \in 0 .. Len(c) : Joins(d, c, age, k)
  BY <1>1, InsertJoins
<1>3. /\ d \in Ages /\ Len(d) = Len(c) + 1
      /\ \A i \in 1 .. k : d[i] = c[i]
      /\ d[k + 1] = age
      /\ \A i \in k + 1 .. Len(c) : d[i + 1] = c[i]
  BY <1>2 DEF Joins
<1> HIDE DEF d
<1>4. ASSUME NEW i \in 1 .. Len(c) + 1 PROVE d[i] <= top
  <2>1. CASE i <= k
    <3>1. i \in 1 .. k /\ i \in 1 .. Len(c)
      BY <1>1, <1>2, <2>1
    <3> QED BY <1>1, <1>3, <3>1
  <2>2. CASE i = k + 1
    BY <1>3, <2>2
  <2>3. CASE i > k + 1
    <3>1. i - 1 \in k + 1 .. Len(c) /\ i - 1 \in 1 .. Len(c) /\ i - 1 + 1 = i
      BY <1>1, <1>2, <2>3
    <3>2. d[i] = c[i - 1]
      BY <1>3, <3>1
    <3> QED BY <1>1, <3>1, <3>2
  <2> QED BY <1>1, <1>2, <2>1, <2>2, <2>3
<1> QED BY <1>3, <1>4 DEF Young, d

-----------------------------------------------------------------------------
MemoryTypes ==
    /\ cache \in [Name -> Bounded(1, ResultTtl + 1)]
    /\ past \in [Name -> Bounded(MaxResults, ResultTtl + 1)]
    /\ log \in Bounded(MaxAlerts, AlertTtl + 1)

\* A deque takes an entry and keeps its bound.
LEMMA PushedIsBounded ==
    ASSUME NEW count \in Nat, NEW top \in Nat, NEW c \in Young(top)
    PROVE  Memory!Pushed(c, count) \in Bounded(count, top)
<1>1. c \in Ages /\ 0 \in Nat /\ 0 <= top
  BY DEF Young
<1>2. Memory!Pushed(c, count) = Newest(Insert(c, 0), count)
  BY <1>1, SameRetention, InsertIsPush DEF Memory!Pushed
<1> QED BY <1>1, <1>2, InsertIsYoung, NewestIsBounded

LEMMA MemoryTypesStep ==
    ASSUME MemoryTypes, [Next]_vars
    PROVE  MemoryTypes'
<1> DEFINE rt == ResultTtl + 1
           at == AlertTtl + 1
<1>1. /\ rt \in Nat /\ at \in Nat /\ MaxResults \in Nat /\ MaxAlerts \in Nat
      /\ ResultTtl \in Nat /\ AlertTtl \in Nat
  BY Counts
<1>2. /\ cache \in [Name -> Bounded(1, rt)] /\ past \in [Name -> Bounded(MaxResults, rt)]
      /\ log \in Bounded(MaxAlerts, at)
  BY DEF MemoryTypes
<1> SUFFICES /\ cache' \in [Name -> Bounded(1, rt)]
             /\ past' \in [Name -> Bounded(MaxResults, rt)]
             /\ log' \in Bounded(MaxAlerts, at)
  BY DEF MemoryTypes
<1> HIDE DEF rt, at
<1>3. \A count, top : \A c \in Bounded(count, top) : c \in Young(top) /\ Len(c) <= count
  BY DEF Bounded
<1>4. ASSUME NEW n \in Name, Memory!SetLatest(n)
      PROVE  /\ cache' \in [Name -> Bounded(1, rt)] /\ past' = past /\ log' = log
  <2>1. <<0>> \in Bounded(1, rt)
    BY <1>1, SingleIsBounded
  <2> QED BY <1>2, <1>4, <2>1 DEF Memory!SetLatest
<1>5. ASSUME NEW n \in Name, Memory!AppendHistory(n)
      PROVE  past' \in [Name -> Bounded(MaxResults, rt)] /\ cache' = cache /\ log' = log
  <2>1. Memory!Pushed(past[n], MaxResults) \in Bounded(MaxResults, rt)
    BY <1>1, <1>2, <1>3, PushedIsBounded
  <2> QED BY <1>2, <1>5, <2>1 DEF Memory!AppendHistory
<1>6. ASSUME Memory!AppendAlert
      PROVE  log' \in Bounded(MaxAlerts, at) /\ cache' = cache /\ past' = past
  <2>1. Memory!Pushed(log, MaxAlerts) \in Bounded(MaxAlerts, at)
    BY <1>1, <1>2, <1>3, PushedIsBounded
  <2> QED BY <1>6, <2>1 DEF Memory!AppendAlert
<1>7. ASSUME NEW names, Memory!Forget(names)
      PROVE  /\ cache' \in [Name -> Bounded(1, rt)]
             /\ past' \in [Name -> Bounded(MaxResults, rt)] /\ log' = log
  <2>1. << >> \in Bounded(1, rt) /\ << >> \in Bounded(MaxResults, rt)
    BY <1>1, EmptyIsBounded
  <2> QED BY <1>2, <1>7, <2>1 DEF Memory!Forget
<1>8. ASSUME NEW names, Memory!ReadLatest(names)
      PROVE  cache' \in [Name -> Bounded(1, rt)] /\ past' = past /\ log' = log
  <2>1. ASSUME NEW n \in Name PROVE Within(cache[n], ResultTtl) \in Bounded(1, rt)
    <3>1. cache[n] \in Young(rt) /\ Len(cache[n]) <= 1 /\ Len(cache[n]) \in Nat
      BY <1>2, <1>3, AgesAre DEF Young
    <3>2. Within(cache[n], ResultTtl) \in Young(rt)
          /\ Len(Within(cache[n], ResultTtl)) <= Len(cache[n])
      BY <1>1, <3>1, WithinIsBounded
    <3>3. Len(Within(cache[n], ResultTtl)) \in Nat
      BY <3>2, AgesAre DEF Young
    <3> QED BY <3>1, <3>2, <3>3 DEF Bounded
  <2> QED BY <1>2, <1>8, <2>1, SameRetention DEF Memory!ReadLatest
<1>9. ASSUME Memory!ReadAlerts
      PROVE  log' \in Bounded(MaxAlerts, at) /\ cache' = cache /\ past' = past
  <2>1. log \in Young(at) /\ Len(log) <= MaxAlerts /\ Len(log) \in Nat
    BY <1>2, <1>3, AgesAre DEF Young
  <2>2. Within(log, AlertTtl) \in Young(at) /\ Len(Within(log, AlertTtl)) <= Len(log)
    BY <1>1, <2>1, WithinIsBounded
  <2>3. Len(Within(log, AlertTtl)) \in Nat
    BY <2>2, AgesAre DEF Young
  <2>4. Within(log, AlertTtl) \in Bounded(MaxAlerts, at)
    BY <1>1, <2>1, <2>2, <2>3 DEF Bounded
  <2> QED BY <1>9, <2>4, SameRetention DEF Memory!ReadAlerts
<1>10. ASSUME Memory!Tick
       PROVE  /\ cache' \in [Name -> Bounded(1, rt)]
              /\ past' \in [Name -> Bounded(MaxResults, rt)]
              /\ log' \in Bounded(MaxAlerts, at)
  <2>1. /\ cache' = [n \in Name |-> Aged(cache[n], rt)]
        /\ past' = [n \in Name |-> Aged(past[n], rt)]
        /\ log' = Aged(log, at)
    BY <1>10, SameRetention DEF Memory!Tick, rt, at
  <2> QED BY <1>1, <1>2, <2>1, AgedIsBounded
<1>11. CASE UNCHANGED vars
  BY <1>2, <1>11 DEF vars
<1> QED BY <1>2, <1>4, <1>5, <1>6, <1>7, <1>8, <1>9, <1>10, <1>11
     DEF Next, SetLatest, AppendHistory, AppendAlert, Forget, ReadLatest, ReadAlerts, Tick
-----------------------------------------------------------------------------
BoundedKey(count, ttl) == [ages : Bounded(count, Redis!Top(ttl)), left : Redis!Left]

RedisTypes ==
    /\ latestKey \in [Name -> BoundedKey(1, ResultTtl)]
    /\ historyKey \in [Name -> BoundedKey(MaxResults, ResultTtl)]
    /\ alertsKey \in BoundedKey(MaxAlerts, AlertTtl)
    /\ index \in [Name -> Bounded(1, Redis!Top(ResultTtl))]
    /\ indexLeft \in Redis!Left

\* The expiries that are set, and what is left of them a tick later.
LEMMA LeftIs ==
    /\ 0 \in Redis!Left /\ Forever \in Redis!Left
    /\ ResultTtl \in Redis!Left
    /\ Redis!Expiry(ResultTtl) \in Redis!Left
    /\ Redis!Expiry(AlertTtl) \in Redis!Left
    /\ \A left \in Redis!Left : left # 0 /\ left # Forever => left - 1 \in Redis!Left
BY Counts, Constants DEF Redis!Left, Redis!Expiry

LEMMA GoneIsBounded ==
    ASSUME NEW count \in Nat, NEW ttl \in Nat
    PROVE  Redis!Gone \in BoundedKey(count, ttl)
<1>1. << >> \in Bounded(count, Redis!Top(ttl))
  BY Tops, EmptyIsBounded
<1> QED BY <1>1, LeftIs DEF Redis!Gone, BoundedKey

LEMMA PrunedIsBounded ==
    ASSUME NEW top \in Nat, NEW c \in Young(top), NEW ttl \in Nat, NEW wait \in Nat
    PROVE  /\ Redis!Pruned(c, ttl, wait) \in Young(top)
           /\ Len(Redis!Pruned(c, ttl, wait)) <= Len(c)
<1>1. c \in Ages /\ Len(c) \in Nat
  BY AgesAre DEF Young
<1> DEFINE late == ttl + wait
<1>2. late \in Nat
  OBVIOUS
<1>3. Redis!Pruned(c, ttl, wait) = c \/ Redis!Pruned(c, ttl, wait) = Within(c, late)
  BY SameRetentionInRedis DEF Redis!Pruned
<1> HIDE DEF late
<1> QED BY <1>1, <1>2, <1>3, WithinIsBounded

\* A write keeps a key's count; the entry it adds is no older than MaxLag.
LEMMA AddedIsBounded ==
    ASSUME NEW count \in Nat, NEW ttl \in Nat, Redis!Expiry(ttl) \in Redis!Left,
           NEW key \in BoundedKey(count, ttl), NEW age \in 0 .. MaxLag, NEW wait \in Nat
    PROVE  Redis!Added(key, age, count, ttl, wait) \in BoundedKey(count, ttl)
<1> DEFINE top == Redis!Top(ttl)
           p == Redis!Pruned(Insert(key.ages, age), ttl, wait)
<1>1. top \in Nat /\ age \in Nat /\ age <= top
  BY Constants DEF Redis!Top
<1>2. key.ages \in Young(top)
  BY DEF BoundedKey, Bounded
<1> HIDE DEF top
<1>3. p \in Young(top)
  BY <1>1, <1>2, InsertIsYoung, PrunedIsBounded
<1> HIDE DEF p
<1>4. Newest(p, count) \in Bounded(count, top)
  BY <1>1, <1>3, NewestIsBounded
<1>5. Redis!Added(key, age, count, ttl, wait) = [ages |-> Newest(p, count), left |-> Redis!Expiry(ttl)]
  BY SameRetentionInRedis DEF Redis!Added, p
<1> QED BY <1>4, <1>5 DEF BoundedKey, top

LEMMA LaterIsBounded ==
    ASSUME NEW count \in Nat, NEW ttl \in Nat, NEW key \in BoundedKey(count, ttl)
    PROVE  Redis!Later(key, ttl) \in BoundedKey(count, ttl)
<1> DEFINE top == Redis!Top(ttl)
           left == IF key.left = Forever THEN Forever ELSE key.left - 1
<1>1. top \in Nat /\ key.ages \in Bounded(count, top) /\ key.left \in Redis!Left
  BY Tops DEF BoundedKey
<1>2. CASE key.left = 0
  BY <1>2, GoneIsBounded DEF Redis!Later
<1>3. CASE key.left # 0
  <2>1. left \in Redis!Left
    BY <1>1, <1>3, LeftIs
  <2>2. Redis!Later(key, ttl) = [ages |-> Aged(key.ages, top), left |-> left]
    BY <1>3, SameRetentionInRedis DEF Redis!Later
  <2> HIDE DEF top, left
  <2>3. Aged(key.ages, top) \in Bounded(count, top)
    BY <1>1, AgedIsBounded
  <2> QED BY <2>1, <2>2, <2>3 DEF BoundedKey, top
<1> QED BY <1>2, <1>3

LEMMA IndexIsBounded ==
    ASSUME RedisTypes, NEW n \in Name, NEW wait \in 0 .. MaxLag, Redis!Index(n, wait)
    PROVE  /\ index' \in [Name -> Bounded(1, Redis!Top(ResultTtl))]
           /\ indexLeft' \in Redis!Left
<1> DEFINE top == Redis!Top(ResultTtl)
<1>1. top \in Nat /\ wait \in Nat /\ wait <= top /\ ResultTtl \in Nat
  BY Counts, Constants DEF Redis!Top
<1>2. index \in [Name -> Bounded(1, top)]
  BY DEF RedisTypes
<1> HIDE DEF top
<1>3. <<wait>> \in Bounded(1, top)
  BY <1>1, SingleIsBounded
<1>4. ASSUME NEW m \in Name PROVE Redis!Pruned(index[m], ResultTtl, wait) \in Bounded(1, top)
  <2>1. index[m] \in Young(top) /\ Len(index[m]) <= 1 /\ Len(index[m]) \in Nat
    BY <1>2, AgesAre DEF Bounded, Young
  <2> DEFINE p == Redis!Pruned(index[m], ResultTtl, wait)
  <2>2. p \in Young(top) /\ Len(p) <= Len(index[m])
    BY <1>1, <2>1, PrunedIsBounded
  <2> HIDE DEF p
  <2>3. Len(p) \in Nat
    BY <2>2, AgesAre DEF Young
  <2>4. p \in Bounded(1, top)
    BY <2>1, <2>2, <2>3 DEF Bounded
  <2> QED BY <2>4 DEF p
<1>5. index' \in [Name -> Bounded(1, top)]
  BY <1>3, <1>4 DEF Redis!Index
<1> QED BY <1>5, LeftIs DEF Redis!Index, top

LEMMA RedisTypesStep ==
    ASSUME RedisTypes, [Next]_vars
    PROVE  RedisTypes'
<1>1. /\ MaxResults \in Nat /\ MaxAlerts \in Nat /\ ResultTtl \in Nat /\ AlertTtl \in Nat
      /\ MaxLag \in Nat
  BY Counts, Constants
<1>2. /\ latestKey \in [Name -> BoundedKey(1, ResultTtl)]
      /\ historyKey \in [Name -> BoundedKey(MaxResults, ResultTtl)]
      /\ alertsKey \in BoundedKey(MaxAlerts, AlertTtl)
      /\ index \in [Name -> Bounded(1, Redis!Top(ResultTtl))]
      /\ indexLeft \in Redis!Left
  BY DEF RedisTypes
<1>3. ASSUME NEW n \in Name, NEW age \in 0 .. MaxLag, NEW wait \in 0 .. age,
             Redis!SetLatest(n, age, wait)
      PROVE  RedisTypes'
  <2> DEFINE left == IF ResultTtl = 0 THEN Forever ELSE ResultTtl
             key == [ages |-> <<age>>, left |-> left]
  <2>1. wait \in 0 .. MaxLag /\ Redis!Index(n, wait)
    BY <1>1, <1>3 DEF Redis!SetLatest
  <2>2. latestKey' = [latestKey EXCEPT ![n] = key] /\ UNCHANGED <<historyKey, alertsKey>>
    BY <1>3 DEF Redis!SetLatest
  <2>3. <<age>> \in Bounded(1, Redis!Top(ResultTtl))
    <3>1. /\ Redis!Top(ResultTtl) \in Nat /\ age \in Nat /\ age <= Redis!Top(ResultTtl)
          /\ 1 \in Nat /\ 1 <= 1
      BY <1>1 DEF Redis!Top
    <3> QED BY <3>1, SingleIsBounded
  <2>4. left \in Redis!Left
    BY LeftIs
  <2> HIDE DEF left
  <2>5. key \in BoundedKey(1, ResultTtl)
    BY <2>3, <2>4 DEF BoundedKey
  <2> HIDE DEF key
  <2> QED BY <1>2, <2>1, <2>2, <2>5, IndexIsBounded DEF RedisTypes
<1>4. ASSUME NEW n \in Name, NEW age \in 0 .. MaxLag, NEW wait \in 0 .. age,
             Redis!AppendHistory(n, age, wait)
      PROVE  RedisTypes'
  <2> DEFINE key == Redis!Added(historyKey[n], age, MaxResults, ResultTtl, wait)
  <2>1. wait \in 0 .. MaxLag /\ wait \in Nat /\ Redis!Index(n, wait)
    BY <1>1, <1>4 DEF Redis!AppendHistory
  <2>2. historyKey' = [historyKey EXCEPT ![n] = key] /\ UNCHANGED <<latestKey, alertsKey>>
    BY <1>4 DEF Redis!AppendHistory
  <2>3. key \in BoundedKey(MaxResults, ResultTtl)
    <3>1. historyKey[n] \in BoundedKey(MaxResults, ResultTtl)
      BY <1>2
    <3> QED BY <1>1, <2>1, <3>1, LeftIs, AddedIsBounded
  <2> HIDE DEF key
  <2> QED BY <1>2, <2>1, <2>2, <2>3, IndexIsBounded DEF RedisTypes
<1>5. ASSUME NEW age \in 0 .. MaxLag, Redis!AppendAlert(age) PROVE RedisTypes'
  <2>1. /\ alertsKey' = Redis!Added(alertsKey, age, MaxAlerts, AlertTtl, 0)
        /\ UNCHANGED <<latestKey, historyKey, index, indexLeft>>
    BY <1>5 DEF Redis!AppendAlert
  <2>2. alertsKey' \in BoundedKey(MaxAlerts, AlertTtl)
    <3>1. 0 \in Nat
      OBVIOUS
    <3> QED BY <1>1, <1>2, <2>1, <3>1, LeftIs, AddedIsBounded
  <2> QED BY <1>2, <2>1, <2>2 DEF RedisTypes
<1>6. ASSUME NEW names, Redis!Forget(names) PROVE RedisTypes'
  <2>1. /\ latestKey' = [n \in Name |-> IF n \in names THEN Redis!Gone ELSE latestKey[n]]
        /\ historyKey' = [n \in Name |-> IF n \in names THEN Redis!Gone ELSE historyKey[n]]
        /\ index' = [n \in Name |-> IF n \in names THEN << >> ELSE index[n]]
        /\ indexLeft' \in {0, indexLeft} /\ alertsKey' = alertsKey
    BY <1>6 DEF Redis!Forget
  <2>2. /\ Redis!Gone \in BoundedKey(1, ResultTtl)
        /\ Redis!Gone \in BoundedKey(MaxResults, ResultTtl)
        /\ << >> \in Bounded(1, Redis!Top(ResultTtl))
    BY <1>1, Tops, GoneIsBounded, EmptyIsBounded
  <2> QED BY <1>2, <2>1, <2>2, LeftIs DEF RedisTypes
<1>7. ASSUME Redis!Tick PROVE RedisTypes'
  <2>1. /\ latestKey' = [n \in Name |-> Redis!Later(latestKey[n], ResultTtl)]
        /\ historyKey' = [n \in Name |-> Redis!Later(historyKey[n], ResultTtl)]
        /\ alertsKey' = Redis!Later(alertsKey, AlertTtl)
        /\ index' = [n \in Name |->
               Redis!Later([ages |-> index[n], left |-> indexLeft], ResultTtl).ages]
        /\ indexLeft' = Redis!Later([ages |-> << >>, left |-> indexLeft], ResultTtl).left
    BY <1>7 DEF Redis!Tick
  <2>2. /\ latestKey' \in [Name -> BoundedKey(1, ResultTtl)]
        /\ historyKey' \in [Name -> BoundedKey(MaxResults, ResultTtl)]
        /\ alertsKey' \in BoundedKey(MaxAlerts, AlertTtl)
    BY <1>1, <1>2, <2>1, LaterIsBounded
  <2>3. ASSUME NEW c \in Bounded(1, Redis!Top(ResultTtl))
        PROVE  /\ Redis!Later([ages |-> c, left |-> indexLeft], ResultTtl).ages
                    \in Bounded(1, Redis!Top(ResultTtl))
               /\ Redis!Later([ages |-> c, left |-> indexLeft], ResultTtl).left \in Redis!Left
    <3> DEFINE key == [ages |-> c, left |-> indexLeft]
    <3>1. key \in BoundedKey(1, ResultTtl)
      BY <1>2 DEF BoundedKey
    <3> HIDE DEF key
    <3>2. Redis!Later(key, ResultTtl) \in BoundedKey(1, ResultTtl)
      BY <1>1, <3>1, LaterIsBounded
    <3> QED BY <3>2 DEF BoundedKey, key
  <2>4. << >> \in Bounded(1, Redis!Top(ResultTtl))
    BY <1>1, Tops, EmptyIsBounded
  <2>5. indexLeft' \in Redis!Left
    BY <2>1, <2>3, <2>4
  <2>6. index' \in [Name -> Bounded(1, Redis!Top(ResultTtl))]
    BY <1>2, <2>1, <2>3
  <2> QED BY <2>2, <2>5, <2>6 DEF RedisTypes
<1>8. CASE UNCHANGED redisVars
  BY <1>2, <1>8 DEF redisVars, RedisTypes
<1> QED BY <1>3, <1>4, <1>5, <1>6, <1>7, <1>8, RedisSteps DEF RedisNext

LEMMA TypesHold == MemoryTypes /\ RedisTypes => TypeOK
<1> SUFFICES ASSUME MemoryTypes, RedisTypes PROVE TypeOK
  OBVIOUS
<1>1. /\ MaxResults \in Nat /\ MaxAlerts \in Nat /\ 1 \in Nat
      /\ ResultTtl + 1 \in Nat /\ AlertTtl + 1 \in Nat
      /\ Redis!Top(ResultTtl) \in Nat /\ Redis!Top(AlertTtl) \in Nat
  BY Counts, Tops
<1>2. Memory!TypeOK
  <2>1. /\ \A c \in Bounded(1, ResultTtl + 1) : c \in Memory!Collections(1, ResultTtl + 1)
        /\ \A c \in Bounded(MaxResults, ResultTtl + 1) :
              c \in Memory!Collections(MaxResults, ResultTtl + 1)
        /\ \A c \in Bounded(MaxAlerts, AlertTtl + 1) :
              c \in Memory!Collections(MaxAlerts, AlertTtl + 1)
    BY <1>1, BoundedAre
  <2> QED BY <2>1 DEF MemoryTypes, Memory!TypeOK
<1>3. Redis!TypeOK
  <2>1. ASSUME NEW count \in Nat, NEW ttl \in Nat, NEW key \in BoundedKey(count, ttl)
        PROVE  key \in Redis!Key(count, ttl)
    <3>1. key \in [ages : Bounded(count, Redis!Top(ttl)), left : Redis!Left]
      BY DEF BoundedKey
    <3>2. key.ages \in Redis!Collections(count, Redis!Top(ttl))
      BY <3>1, Tops, BoundedAre
    <3>3. key = [ages |-> key.ages, left |-> key.left] /\ key.left \in Redis!Left
      BY <3>1
    <3> QED BY <3>2, <3>3 DEF Redis!Key
  <2>2. /\ latestKey \in [Name -> Redis!Key(1, ResultTtl)]
        /\ historyKey \in [Name -> Redis!Key(MaxResults, ResultTtl)]
        /\ alertsKey \in Redis!Key(MaxAlerts, AlertTtl)
    BY <1>1, <2>1, Counts DEF RedisTypes
  <2>3. index \in [Name -> Redis!Collections(1, Redis!Top(ResultTtl))]
    BY <1>1, BoundedAre DEF RedisTypes
  <2> QED BY <2>2, <2>3 DEF RedisTypes, Redis!TypeOK
<1> QED BY <1>2, <1>3 DEF TypeOK

\* Whatever is written, read, forgotten and expires, in whatever order: both backends
\* keep each probe's results and the alerts ordered by age and within their counts
\* after every call, not only as a read shows them, and a key of Redis has an expiry
\* that was set and counts down, or none (the deques of InMemoryProbeStorage, the keys
\* of RedisProbeStorage).
THEOREM StorageTypes == Spec => []TypeOK
<1>1. Init => MemoryTypes /\ RedisTypes
  <2> SUFFICES ASSUME Init PROVE MemoryTypes /\ RedisTypes
    OBVIOUS
  <2>1. /\ cache = [n \in Name |-> << >>] /\ past = [n \in Name |-> << >>] /\ log = << >>
        /\ latestKey = [n \in Name |-> Redis!Gone] /\ historyKey = [n \in Name |-> Redis!Gone]
        /\ alertsKey = Redis!Gone /\ index = [n \in Name |-> << >>] /\ indexLeft = 0
    BY DEF Init, Memory!Init, Redis!Init
  <2>2. /\ MaxResults \in Nat /\ MaxAlerts \in Nat /\ 1 \in Nat
        /\ ResultTtl + 1 \in Nat /\ AlertTtl + 1 \in Nat
        /\ ResultTtl \in Nat /\ AlertTtl \in Nat
    BY Counts
  <2>3. MemoryTypes
    BY <2>1, <2>2, EmptyIsBounded DEF MemoryTypes
  <2>4. RedisTypes
    BY <2>1, <2>2, Tops, EmptyIsBounded, GoneIsBounded, LeftIs DEF RedisTypes
  <2> QED BY <2>3, <2>4
<1>2. MemoryTypes /\ RedisTypes /\ [Next]_vars => MemoryTypes' /\ RedisTypes'
  BY MemoryTypesStep, RedisTypesStep
<1> QED BY <1>1, <1>2, TypesHold, PTL DEF Spec
==============================================================================
