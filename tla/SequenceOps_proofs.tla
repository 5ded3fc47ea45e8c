------------------------- MODULE SequenceOps_proofs -------------------------
(***************************************************************************)
(* What the proofs about recursive functions and folds rest on.  The       *)
(* library's induction theorems take an operator as a parameter; here a    *)
(* set stands for the predicate, and the induction is over the least       *)
(* counterexample, which the well-founded order of the naturals gives.     *)
(***************************************************************************)
EXTENDS SequenceOps, SequencesExt, FiniteSetTheorems, SequenceTheorems, WellFoundedInduction, TLAPS

\* A set of naturals has a least element: the order is well founded.
LEMMA NatLeast ==
    ASSUME NEW T \in SUBSET Nat, T # {}
    PROVE  \E x \in T : \A y \in T : x <= y
<1> DEFINE R == {ss \in Nat \X Nat : ss[1] < ss[2]}
<1>1. IsWellFoundedOn(R, Nat)
  BY NatLessThanWellFounded DEF OpToRel
<1> HIDE DEF R
<1>2. PICK x \in T : \A y \in T : <<y, x>> \notin R
  BY <1>1, WFMin
<1>3. \A y \in T : ~(y < x)
  BY <1>2 DEF R
<1> QED BY <1>2, <1>3

\* What holds at 0 and is handed on by every step holds up to n.
LEMMA Upto ==
    ASSUME NEW n \in Nat, NEW P, 0 \in P, \A i \in 1 .. n : i - 1 \in P => i \in P
    PROVE  \A i \in 0 .. n : i \in P
<1> SUFFICES ASSUME NEW j \in 0 .. n, j \notin P PROVE FALSE
  OBVIOUS
<1> DEFINE Bad == {i \in 0 .. n : i \notin P}
<1>1. PICK i \in Bad : \A k \in Bad : i <= k
  <2>1. Bad \in SUBSET Nat /\ Bad # {}
    OBVIOUS
  <2> HIDE DEF Bad
  <2> QED BY <2>1, NatLeast
<1>2. i # 0 /\ i - 1 \in 0 .. n /\ i - 1 \notin Bad
  BY <1>1
<1> QED BY <1>1, <1>2

\* What holds of the empty sequence and survives appending holds of every sequence.
LEMMA BySequence ==
    ASSUME NEW T, NEW P, << >> \in P,
           \A s \in Seq(T), e \in T : s \in P => Append(s, e) \in P
    PROVE  \A s \in Seq(T) : s \in P
<1> SUFFICES ASSUME NEW z \in Seq(T), z \notin P PROVE FALSE
  OBVIOUS
<1> DEFINE Bad == {Len(s) : s \in {u \in Seq(T) : u \notin P}}
<1>1. PICK n \in Bad : \A k \in Bad : n <= k
  <2>1. Bad \in SUBSET Nat /\ Bad # {}
    OBVIOUS
  <2> HIDE DEF Bad
  <2> QED BY <2>1, NatLeast
<1>2. PICK s \in Seq(T) : s \notin P /\ Len(s) = n
  BY <1>1
<1>3. s # << >>
  BY <1>2
<1>4. PICK u \in Seq(T), e \in T : s = Append(u, e)
  BY <1>3, SequenceEmptyOrAppend
<1>5. Len(u) \in Nat /\ Len(s) = Len(u) + 1
  BY <1>4, AppendProperties
<1>6. u \notin P
  BY <1>2, <1>4
<1> QED BY <1>1, <1>2, <1>5, <1>6

\* Steps that map a set to itself can be taken one after another.
Iterated(f, n, d, F) == f[0] = d /\ \A i \in 1 .. n : f[i] = F[i][f[i - 1]]

LEMMA Iterates ==
    ASSUME NEW D, NEW n \in Nat, NEW d \in D, NEW F \in [1 .. n -> [D -> D]]
    PROVE  \E f \in [0 .. n -> D] : Iterated(f, n, d, F)
<1> DEFINE P == {m \in 0 .. n : \E f \in [0 .. m -> D] :
                    f[0] = d /\ \A i \in 1 .. m : f[i] = F[i][f[i - 1]]}
<1>1. 0 \in P
  <2> DEFINE f == [i \in 0 .. 0 |-> d]
  <2>1. f \in [0 .. 0 -> D] /\ f[0] = d
    OBVIOUS
  <2>2. \A i \in 1 .. 0 : f[i] = F[i][f[i - 1]]
    OBVIOUS
  <2> HIDE DEF f
  <2> QED BY <2>1, <2>2
<1>2. ASSUME NEW m \in 1 .. n, m - 1 \in P PROVE m \in P
  <2>1. PICK f \in [0 .. (m - 1) -> D] :
           f[0] = d /\ \A i \in 1 .. (m - 1) : f[i] = F[i][f[i - 1]]
    BY <1>2
  <2> DEFINE g == [i \in 0 .. m |-> IF i = m THEN F[m][f[m - 1]] ELSE f[i]]
  <2>2. f[m - 1] \in D
    BY <2>1
  <2>3. F[m][f[m - 1]] \in D
    BY <2>2
  <2>4. g \in [0 .. m -> D] /\ g[0] = d
    BY <2>1, <2>3
  <2>5. ASSUME NEW i \in 1 .. m PROVE g[i] = F[i][g[i - 1]]
    <3>1. CASE i = m
      BY <3>1
    <3>2. CASE i # m
      BY <2>1, <3>2
    <3> QED BY <3>1, <3>2
  <2>6. \E h \in [0 .. m -> D] : h[0] = d /\ \A i \in 1 .. m : h[i] = F[i][h[i - 1]]
    <3> HIDE DEF g
    <3> QED BY <2>4, <2>5
  <2>7. m \in 0 .. n
    OBVIOUS
  <2> QED BY <2>6, <2>7, Zenon
<1> HIDE DEF P
<1>3. \A m \in 1 .. n : m - 1 \in P => m \in P
  BY <1>2
<1>4. \A m \in 0 .. n : m \in P
  BY <1>1, <1>3, Upto, Zenon
<1>5. n \in P
  BY <1>4
<1> QED BY <1>5 DEF P, Iterated

-----------------------------------------------------------------------------
(* What is left of a sequence without some of its elements.                *)

\* What the definition of Without chooses: what is kept of each beginning.
Kept(s, K, g) ==
    g = [i \in 0 .. Len(s) |->
            IF i = 0 THEN << >>
            ELSE IF s[i] \in K THEN g[i - 1] ELSE Append(g[i - 1], s[i])]

LEMMA WithoutIs == \A s, K : Without(s, K) = (CHOOSE g : Kept(s, K, g))[Len(s)]
BY DEF Without, Kept

LEMMA KeptExists ==
    ASSUME NEW T, NEW s \in Seq(T), NEW K
    PROVE  \E g : Kept(s, K, g)
<1> DEFINE F == [i \in 1 .. Len(s) |-> [u \in Seq(T) |->
                    IF s[i] \in K THEN u ELSE Append(u, s[i])]]
<1>1. Len(s) \in Nat /\ << >> \in Seq(T)
  OBVIOUS
<1>2. F \in [1 .. Len(s) -> [Seq(T) -> Seq(T)]]
  OBVIOUS
<1>3. \A i \in 1 .. Len(s), u \in Seq(T) :
         F[i][u] = IF s[i] \in K THEN u ELSE Append(u, s[i])
  OBVIOUS
<1> HIDE DEF F
<1>4. PICK f \in [0 .. Len(s) -> Seq(T)] : Iterated(f, Len(s), << >>, F)
  <2> DEFINE D == Seq(T)
  <2>1. << >> \in D /\ F \in [1 .. Len(s) -> [D -> D]]
    BY <1>1, <1>2
  <2> HIDE DEF D
  <2>2. \E f \in [0 .. Len(s) -> D] : Iterated(f, Len(s), << >>, F)
    BY <1>1, <2>1, Iterates
  <2> QED BY <2>2 DEF D
<1>5. \A i \in 1 .. Len(s) : i - 1 \in 0 .. Len(s) /\ f[i - 1] \in Seq(T)
  BY <1>1
<1>6. \A i \in 0 .. Len(s) : f[i] =
            IF i = 0 THEN << >>
            ELSE IF s[i] \in K THEN f[i - 1] ELSE Append(f[i - 1], s[i])
  <2>1. \A i \in 1 .. Len(s) : f[i] = IF s[i] \in K THEN f[i - 1] ELSE Append(f[i - 1], s[i])
    BY <1>3, <1>4, <1>5 DEF Iterated
  <2> SUFFICES ASSUME NEW i \in 0 .. Len(s), i # 0
               PROVE  f[i] = IF s[i] \in K THEN f[i - 1] ELSE Append(f[i - 1], s[i])
    BY <1>4 DEF Iterated
  <2>2. i \in 1 .. Len(s)
    BY <1>1
  <2> QED BY <2>1, <2>2
<1>7. f = [i \in 0 .. Len(s) |->
            IF i = 0 THEN << >>
            ELSE IF s[i] \in K THEN f[i - 1] ELSE Append(f[i - 1], s[i])]
  BY <1>6
<1> QED BY <1>7 DEF Kept

LEMMA KeptIs ==
    ASSUME NEW s, NEW K, NEW g, Kept(s, K, g), Len(s) \in Nat
    PROVE  /\ g[0] = << >>
           /\ \A i \in 1 .. Len(s) :
                 g[i] = IF s[i] \in K THEN g[i - 1] ELSE Append(g[i - 1], s[i])
<1>1. \A i \in 0 .. Len(s) : g[i] =
            IF i = 0 THEN << >>
            ELSE IF s[i] \in K THEN g[i - 1] ELSE Append(g[i - 1], s[i])
  BY DEF Kept
<1> QED BY <1>1

LEMMA WithoutEmpty == \A K : Without(<< >>, K) = << >>
<1> SUFFICES ASSUME NEW K PROVE Without(<< >>, K) = << >>
  OBVIOUS
<1>1. << >> \in Seq({}) /\ Len(<< >>) = 0
  OBVIOUS
<1>2. PICK g : Kept(<< >>, K, g) /\ Without(<< >>, K) = g[Len(<< >>)]
  BY <1>1, KeptExists, WithoutIs
<1>3. g[0] = << >>
  BY <1>1, <1>2, KeptIs
<1> QED BY <1>1, <1>2, <1>3

\* Beginnings keep the same of what they have in common.
LEMMA WithoutAppend ==
    ASSUME NEW T, NEW s \in Seq(T), NEW e \in T, NEW K
    PROVE  Without(Append(s, e), K) =
              IF e \in K THEN Without(s, K) ELSE Append(Without(s, K), e)
<1> DEFINE z == Append(s, e)
<1>1. /\ z \in Seq(T) /\ Len(s) \in Nat /\ Len(z) = Len(s) + 1 /\ z[Len(s) + 1] = e
      /\ \A i \in 1 .. Len(s) : z[i] = s[i]
  OBVIOUS
<1> HIDE DEF z
<1>2. PICK g : Kept(s, K, g) /\ Without(s, K) = g[Len(s)]
  BY KeptExists, WithoutIs
<1>3. PICK h : Kept(z, K, h) /\ Without(z, K) = h[Len(z)]
  BY <1>1, KeptExists, WithoutIs
<1>4. /\ g[0] = << >>
      /\ \A i \in 1 .. Len(s) : g[i] = IF s[i] \in K THEN g[i - 1] ELSE Append(g[i - 1], s[i])
  BY <1>1, <1>2, KeptIs
<1>5. /\ h[0] = << >>
      /\ \A i \in 1 .. Len(z) : h[i] = IF z[i] \in K THEN h[i - 1] ELSE Append(h[i - 1], z[i])
  BY <1>1, <1>3, KeptIs
<1> DEFINE P == {i \in 0 .. Len(s) : g[i] = h[i]}
<1>6. 0 \in P
  BY <1>1, <1>4, <1>5
<1>7. \A i \in 1 .. Len(s) : i - 1 \in P => i \in P
  BY <1>1, <1>4, <1>5
<1> HIDE DEF P
<1>8. \A i \in 0 .. Len(s) : i \in P
  BY <1>1, <1>6, <1>7, Upto, Zenon
<1>9. g[Len(s)] = h[Len(s)]
  BY <1>1, <1>8 DEF P
<1>10. h[Len(s) + 1] = IF z[Len(s) + 1] \in K THEN h[Len(s)] ELSE Append(h[Len(s)], z[Len(s) + 1])
  BY <1>1, <1>5
<1>11. Without(z, K) = IF e \in K THEN Without(s, K) ELSE Append(Without(s, K), e)
  BY <1>1, <1>2, <1>3, <1>9, <1>10
<1> QED BY <1>11 DEF z

\* What a sequence is made of, and that it has nothing twice.
Items(s) == {s[i] : i \in 1 .. Len(s)}
Distinct(s) == \A i, j \in 1 .. Len(s) : s[i] = s[j] => i = j

LEMMA ItemsAppend ==
    ASSUME NEW T, NEW s \in Seq(T), NEW e \in T
    PROVE  Items(Append(s, e)) = Items(s) \cup {e}
<1> DEFINE z == Append(s, e)
<1>1. /\ Len(s) \in Nat /\ Len(z) = Len(s) + 1 /\ z[Len(s) + 1] = e
      /\ \A i \in 1 .. Len(s) : z[i] = s[i]
  OBVIOUS
<1> HIDE DEF z
<1>2. Items(z) = Items(s) \cup {e}
  BY <1>1 DEF Items
<1> QED BY <1>2 DEF z

LEMMA DistinctAppend ==
    ASSUME NEW T, NEW s \in Seq(T), NEW e \in T
    PROVE  Distinct(Append(s, e)) <=> Distinct(s) /\ e \notin Items(s)
<1> DEFINE z == Append(s, e)
<1>1. /\ Len(s) \in Nat /\ Len(z) = Len(s) + 1 /\ z[Len(s) + 1] = e
      /\ \A i \in 1 .. Len(s) : z[i] = s[i]
  OBVIOUS
<1> HIDE DEF z
<1>2. \A i : i \in 1 .. Len(z) <=> i \in 1 .. Len(s) \/ i = Len(s) + 1
  BY <1>1
<1>3. Distinct(z) => Distinct(s) /\ e \notin Items(s)
  BY <1>1, <1>2 DEF Distinct, Items
<1>4. Distinct(s) /\ e \notin Items(s) => Distinct(z)
  BY <1>1, <1>2 DEF Distinct, Items
<1>5. Distinct(z) <=> Distinct(s) /\ e \notin Items(s)
  BY <1>3, <1>4
<1> QED BY <1>5 DEF z

LEMMA WithoutItems ==
    ASSUME NEW T, NEW K
    PROVE  \A s \in Seq(T) : /\ Without(s, K) \in Seq(T)
                             /\ Items(Without(s, K)) = Items(s) \ K
                             /\ Distinct(s) => Distinct(Without(s, K))
<1> DEFINE P == {s \in Seq(T) : /\ Without(s, K) \in Seq(T)
                                /\ Items(Without(s, K)) = Items(s) \ K
                                /\ Distinct(s) => Distinct(Without(s, K))}
<1>1. << >> \in P
  <2>1. Without(<< >>, K) = << >> /\ << >> \in Seq(T)
    BY WithoutEmpty
  <2>2. Items(<< >>) = {}
    BY DEF Items
  <2> QED BY <2>1, <2>2
<1>2. ASSUME NEW s \in Seq(T), NEW e \in T, s \in P PROVE Append(s, e) \in P
  <2> DEFINE w == Without(s, K)
             z == Append(s, e)
  <2>1. /\ w \in Seq(T) /\ Items(w) = Items(s) \ K
        /\ Distinct(s) => Distinct(w)
    BY <1>2
  <2>2. Without(z, K) = IF e \in K THEN w ELSE Append(w, e)
    BY WithoutAppend
  <2>3. /\ z \in Seq(T) /\ Items(z) = Items(s) \cup {e}
        /\ Distinct(z) <=> Distinct(s) /\ e \notin Items(s)
    BY ItemsAppend, DistinctAppend
  <2>4. /\ Append(w, e) \in Seq(T) /\ Items(Append(w, e)) = Items(w) \cup {e}
        /\ Distinct(Append(w, e)) <=> Distinct(w) /\ e \notin Items(w)
    BY <2>1, ItemsAppend, DistinctAppend
  <2> HIDE DEF w, z
  <2>5. Without(z, K) \in Seq(T) /\ Items(Without(z, K)) = Items(z) \ K
    BY <2>1, <2>2, <2>3, <2>4
  <2>6. Distinct(z) => Distinct(Without(z, K))
    BY <2>1, <2>2, <2>3, <2>4
  <2> QED BY <2>3, <2>5, <2>6 DEF z
<1> HIDE DEF P
<1>3. \A s \in Seq(T) : s \in P
  BY <1>1, <1>2, BySequence
<1> QED BY <1>3 DEF P

\* Without what it does not have, a sequence stays what it is.
LEMMA WithoutNone ==
    ASSUME NEW T, NEW K
    PROVE  \A s \in Seq(T) : Items(s) \cap K = {} => Without(s, K) = s
<1> DEFINE P == {s \in Seq(T) : Items(s) \cap K = {} => Without(s, K) = s}
<1>1. << >> \in P
  BY WithoutEmpty
<1>2. ASSUME NEW s \in Seq(T), NEW e \in T, s \in P PROVE Append(s, e) \in P
  <2>1. Items(Append(s, e)) = Items(s) \cup {e}
    BY ItemsAppend
  <2>2. Without(Append(s, e), K) = IF e \in K THEN Without(s, K) ELSE Append(Without(s, K), e)
    BY WithoutAppend
  <2>3. Append(s, e) \in Seq(T)
    OBVIOUS
  <2>4. Items(s) \cap K = {} => Without(s, K) = s
    BY <1>2
  <2> QED BY <2>1, <2>2, <2>3, <2>4
<1> HIDE DEF P
<1>3. \A s \in Seq(T) : s \in P
  BY <1>1, <1>2, BySequence
<1> QED BY <1>3 DEF P

LEMMA ConcatAppends ==
    ASSUME NEW T, NEW r \in Seq(T), NEW s \in Seq(T), NEW e \in T
    PROVE  r \o Append(s, e) = Append(r \o s, e)
<1>1. <<e>> \in Seq(T) /\ r \o s \in Seq(T)
  OBVIOUS
<1>2. Append(s, e) = s \o <<e>> /\ Append(r \o s, e) = (r \o s) \o <<e>>
  BY <1>1, AppendIsConcat
<1>3. (r \o s) \o <<e>> = r \o (s \o <<e>>)
  BY <1>1, ConcatAssociative
<1> QED BY <1>2, <1>3

LEMMA WithoutConcat ==
    ASSUME NEW T, NEW K, NEW r \in Seq(T)
    PROVE  \A s \in Seq(T) : Without(r \o s, K) = Without(r, K) \o Without(s, K)
<1> DEFINE P == {s \in Seq(T) : Without(r \o s, K) = Without(r, K) \o Without(s, K)}
<1>0. Without(r, K) \in Seq(T)
  BY WithoutItems
<1>1. << >> \in P
  <2>1. r \o << >> = r /\ Without(r, K) \o << >> = Without(r, K)
    BY <1>0, ConcatEmptySeq
  <2>2. << >> \in Seq(T)
    OBVIOUS
  <2> QED BY <2>1, <2>2, WithoutEmpty
<1>2. ASSUME NEW s \in Seq(T), NEW e \in T, s \in P PROVE Append(s, e) \in P
  <2> DEFINE w == Without(s, K)
             v == Without(r, K)
  <2>1. w \in Seq(T) /\ v \in Seq(T) /\ Append(s, e) \in Seq(T) /\ r \o s \in Seq(T)
    BY WithoutItems
  <2>2. r \o Append(s, e) = Append(r \o s, e) /\ v \o Append(w, e) = Append(v \o w, e)
    <3>1. \A x, y \in Seq(T) : x \o Append(y, e) = Append(x \o y, e)
      BY ConcatAppends
    <3> HIDE DEF w, v
    <3> QED BY <2>1, <3>1
  <2>3. \A u \in Seq(T) :
          Without(Append(u, e), K) = IF e \in K THEN Without(u, K) ELSE Append(Without(u, K), e)
    BY WithoutAppend
  <2>4. Without(Append(s, e), K) = IF e \in K THEN w ELSE Append(w, e)
    BY WithoutAppend
  <2>5. Without(r \o s, K) = v \o w
    BY <1>2
  <2> HIDE DEF w, v
  <2>6. Without(r \o Append(s, e), K) = v \o Without(Append(s, e), K)
    BY <2>1, <2>2, <2>3, <2>4, <2>5
  <2> QED BY <2>1, <2>6 DEF v
<1> HIDE DEF P
<1>3. \A s \in Seq(T) : s \in P
  BY <1>1, <1>2, BySequence
<1> QED BY <1>3 DEF P

LEMMA WithoutTwice ==
    ASSUME NEW T, NEW K, NEW J
    PROVE  \A s \in Seq(T) : Without(Without(s, K), J) = Without(s, K \cup J)
<1> DEFINE P == {s \in Seq(T) : Without(Without(s, K), J) = Without(s, K \cup J)}
<1>1. << >> \in P
  BY WithoutEmpty
<1>2. ASSUME NEW s \in Seq(T), NEW e \in T, s \in P PROVE Append(s, e) \in P
  <2> DEFINE w == Without(s, K)
             v == Without(s, K \cup J)
  <2>1. w \in Seq(T) /\ Append(s, e) \in Seq(T)
    BY WithoutItems
  <2>2. Without(Append(s, e), K) = IF e \in K THEN w ELSE Append(w, e)
    BY WithoutAppend
  <2>3. Without(Append(s, e), K \cup J) = IF e \in K \cup J THEN v ELSE Append(v, e)
    BY WithoutAppend
  <2>4. Without(w, J) = v
    BY <1>2
  <2> HIDE DEF w, v
  <2>5. \A u \in Seq(T) :
          Without(Append(u, e), J) = IF e \in J THEN Without(u, J) ELSE Append(Without(u, J), e)
    BY WithoutAppend
  <2>6. Without(Without(Append(s, e), K), J) = Without(Append(s, e), K \cup J)
    BY <2>1, <2>2, <2>3, <2>4, <2>5
  <2> QED BY <2>1, <2>6
<1> HIDE DEF P
<1>3. \A s \in Seq(T) : s \in P
  BY <1>1, <1>2, BySequence
<1> QED BY <1>3 DEF P

LEMMA ItemsConcat ==
    ASSUME NEW T, NEW r \in Seq(T), NEW s \in Seq(T)
    PROVE  /\ Items(r \o s) = Items(r) \cup Items(s)
           /\ Distinct(r \o s) <=>
                 Distinct(r) /\ Distinct(s) /\ Items(r) \cap Items(s) = {}
<1> DEFINE z == r \o s
<1>1. /\ Len(r) \in Nat /\ Len(s) \in Nat /\ Len(z) = Len(r) + Len(s)
      /\ \A i \in 1 .. Len(r) : z[i] = r[i]
      /\ \A i \in 1 .. Len(s) : z[Len(r) + i] = s[i]
  BY ConcatProperties
<1> HIDE DEF z
<1>2. \A i \in 1 .. Len(z) : i \in 1 .. Len(r) \/ \E j \in 1 .. Len(s) : i = Len(r) + j
  <2> TAKE i \in 1 .. Len(z)
  <2>1. CASE i > Len(r)
    <3>1. i - Len(r) \in 1 .. Len(s) /\ i = Len(r) + (i - Len(r))
      BY <1>1, <2>1
    <3> QED BY <3>1
  <2> QED BY <1>1, <2>1
<1>3. /\ \A i \in 1 .. Len(r) : i \in 1 .. Len(z)
      /\ \A i \in 1 .. Len(s) : Len(r) + i \in 1 .. Len(z)
  BY <1>1
<1>4. Items(z) = Items(r) \cup Items(s)
  <2>1. Items(z) \subseteq Items(r) \cup Items(s)
    <3> SUFFICES ASSUME NEW i \in 1 .. Len(z) PROVE z[i] \in Items(r) \cup Items(s)
      BY DEF Items
    <3> QED BY <1>1, <1>2 DEF Items
  <2>2. Items(r) \subseteq Items(z)
    BY <1>1, <1>3 DEF Items
  <2>3. Items(s) \subseteq Items(z)
    BY <1>1, <1>3 DEF Items
  <2> QED BY <2>1, <2>2, <2>3
<1>5. Distinct(z) => Distinct(r)
  BY <1>1, <1>3 DEF Distinct
<1>6. ASSUME Distinct(z) PROVE Distinct(s)
  <2> SUFFICES ASSUME NEW i \in 1 .. Len(s), NEW j \in 1 .. Len(s), s[i] = s[j] PROVE i = j
    BY DEF Distinct
  <2>1. z[Len(r) + i] = z[Len(r) + j]
    BY <1>1
  <2>2. Len(r) + i = Len(r) + j
    BY <1>3, <1>6, <2>1 DEF Distinct
  <2> QED BY <1>1, <2>2
<1>7. ASSUME Distinct(z) PROVE Items(r) \cap Items(s) = {}
  <2> SUFFICES ASSUME NEW i \in 1 .. Len(r), NEW j \in 1 .. Len(s), r[i] = s[j] PROVE FALSE
    BY DEF Items
  <2>1. z[i] = z[Len(r) + j]
    BY <1>1
  <2>2. i = Len(r) + j
    BY <1>3, <1>7, <2>1 DEF Distinct
  <2> QED BY <1>1, <2>2
<1>8. ASSUME Distinct(r), Distinct(s), Items(r) \cap Items(s) = {} PROVE Distinct(z)
  <2> SUFFICES ASSUME NEW i \in 1 .. Len(z), NEW j \in 1 .. Len(z), z[i] = z[j] PROVE i = j
    BY DEF Distinct
  <2>1. CASE i \in 1 .. Len(r) /\ j \in 1 .. Len(r)
    BY <1>1, <1>8, <2>1 DEF Distinct
  <2>2. ASSUME NEW k \in 1 .. Len(r), NEW l \in 1 .. Len(s) PROVE z[k] # z[Len(r) + l]
    <3>1. r[k] \in Items(r) /\ s[l] \in Items(s)
      BY DEF Items
    <3> QED BY <1>1, <1>8, <3>1
  <2>3. ASSUME NEW k \in 1 .. Len(s), NEW l \in 1 .. Len(s), i = Len(r) + k, j = Len(r) + l
        PROVE  i = j
    BY <1>1, <1>8, <2>3 DEF Distinct
  <2> QED BY <1>2, <2>1, <2>2, <2>3
<1>9. Distinct(z) <=> Distinct(r) /\ Distinct(s) /\ Items(r) \cap Items(s) = {}
  BY <1>5, <1>6, <1>7, <1>8
<1> QED BY <1>4, <1>9 DEF z

\* Dropping a name from a table without repetitions drops one place at most.
LEMMA WithoutOne ==
    ASSUME NEW T, NEW k
    PROVE  \A s \in Seq(T) : Distinct(s) => Len(Without(s, {k})) >= Len(s) - 1
<1> DEFINE P == {s \in Seq(T) : Distinct(s) => Len(Without(s, {k})) >= Len(s) - 1}
<1>1. << >> \in P
  BY WithoutEmpty
<1>2. ASSUME NEW s \in Seq(T), NEW e \in T, s \in P PROVE Append(s, e) \in P
  <2> SUFFICES ASSUME Distinct(Append(s, e))
               PROVE  Len(Without(Append(s, e), {k})) >= Len(Append(s, e)) - 1
    BY DEF P
  <2>1. Distinct(s) /\ e \notin Items(s)
    BY DistinctAppend
  <2>2. Without(Append(s, e), {k}) =
           IF e \in {k} THEN Without(s, {k}) ELSE Append(Without(s, {k}), e)
    BY WithoutAppend
  <2>3. Without(s, {k}) \in Seq(T) /\ Len(Without(s, {k})) \in Nat /\ Len(s) \in Nat
        /\ Len(Append(s, e)) = Len(s) + 1
    BY WithoutItems
  <2>4. CASE e = k
    <3>1. Items(s) \cap {k} = {}
      BY <2>1, <2>4
    <3>2. Without(s, {k}) = s
      BY <3>1, WithoutNone
    <3> QED BY <2>2, <2>3, <2>4, <3>2
  <2>5. CASE e # k
    <3>1. Without(Append(s, e), {k}) = Append(Without(s, {k}), e)
      BY <2>2, <2>5
    <3>2. Len(Append(Without(s, {k}), e)) = Len(Without(s, {k})) + 1
      BY <2>3
    <3>3. Len(Without(s, {k})) >= Len(s) - 1
      BY <1>2, <2>1
    <3> QED BY <2>3, <3>1, <3>2, <3>3
  <2> QED BY <2>4, <2>5
<1> HIDE DEF P
<1>3. \A s \in Seq(T) : s \in P
  BY <1>1, <1>2, BySequence
<1> QED BY <1>3 DEF P

\* A finite set, listed in some order, has nothing twice.
LEMMA ListedOnce ==
    ASSUME NEW S, IsFiniteSet(S)
    PROVE  SetToSeq(S) \in Seq(S) /\ Distinct(SetToSeq(S))
<1> DEFINE n == Cardinality(S)
           f == SetToSeq(S)
<1>1. n \in Nat /\ ExistsBijection(1 .. n, S)
  BY FS_CardinalityType
<1>2. PICK g : g \in Bijection(1 .. n, S)
  BY <1>1 DEF ExistsBijection
<1>3. g \in [1 .. n -> S] /\ \A i, j \in 1 .. n : g[i] = g[j] => i = j
  BY <1>2 DEF Bijection, Injection, IsInjective
<1> HIDE DEF n
<1>4. IsInjective(g)
  BY <1>3 DEF IsInjective
<1>5. f = CHOOSE h \in [1 .. n -> S] : IsInjective(h)
  BY DEF SetToSeq, n
<1> HIDE DEF f
<1>6. f \in [1 .. n -> S] /\ IsInjective(f)
  BY <1>3, <1>4, <1>5
<1>7. f \in Seq(S) /\ Len(f) = n
  BY <1>1, <1>6
<1>8. Distinct(f)
  BY <1>6, <1>7 DEF Distinct, IsInjective
<1> QED BY <1>7, <1>8 DEF f
=============================================================================
