--------------------------- MODULE SelectionProofs ---------------------------
(***************************************************************************)
(* Proofs about how the client chooses: EntryGuards, for any guards,       *)
(* circuits, restrictions, sizes of the lists and number of changes, with  *)
(* and without restarts; ConfluxSelect, for any sets, RTTs, options and    *)
(* number of requests; and CircuitWatch, for any legs, sets and limits.    *)
(***************************************************************************)
EXTENDS EntryGuards, ConfluxSelect, CircuitWatch, TLAPS, WellFoundedInduction,
        SequenceTheorems, FiniteSetTheorems, FunctionTheorems

-----------------------------------------------------------------------------
(* Lists.                                                                   *)

\* Nothing is in the list twice.
Distinct(q) == \A i, j \in DOMAIN q : q[i] = q[j] => i = j

\* The numbers from 1 to n are n.
LEMMA Numbered ==
  ASSUME NEW n \in Nat
  PROVE  IsFiniteSet(1 .. n) /\ Cardinality(1 .. n) = n
<1>1. IsFiniteSet(1 .. n) /\ Cardinality(1 .. n) = IF 1 > n THEN 0 ELSE n - 1 + 1
  BY FS_Interval
<1>2. (IF 1 > n THEN 0 ELSE n - 1 + 1) = n
  OBVIOUS
<1> QED BY <1>1, <1>2

\* How many of the positions K come up to i.
RankIn(K, i) == Cardinality({j \in K : j <= i})

\* A larger position has a larger rank.
LEMMA RankGrows ==
  ASSUME NEW K, IsFiniteSet(K), K \subseteq Nat, NEW i \in K, NEW k \in K, i < k
  PROVE  RankIn(K, i) < RankIn(K, k)
<1> DEFINE A == {j \in K : j <= i}
           B == {j \in K : j <= k}
<1>0. k \in Nat /\ i \in Nat /\ ~(k <= i) /\ \A j \in Nat : j <= i => j <= k
  OBVIOUS
<1>1. A \subseteq B /\ k \in B /\ k \notin A
  <2>1. \A j \in K : j \in Nat
    OBVIOUS
  <2>2. A \subseteq B
    BY <1>0, <2>1
  <2>3. k \in B /\ k \notin A
    BY <1>0
  <2> QED BY <2>2, <2>3
<1>2. IsFiniteSet(B)
  BY FS_Subset
<1> HIDE DEF A, B
<1>3. Cardinality(A) <= Cardinality(B) /\ IsFiniteSet(A) /\ A # B
  BY <1>1, <1>2, FS_Subset
<1>4. Cardinality(A) # Cardinality(B)
  BY <1>1, <1>2, <1>3, FS_Subset
<1>5. Cardinality(A) \in Nat /\ Cardinality(B) \in Nat
  BY <1>2, <1>3, FS_CardinalityType
<1> QED BY <1>3, <1>4, <1>5 DEF RankIn, A, B

\* The ranks of the positions K are 1 to their number, each once.
LEMMA Ranks ==
  ASSUME NEW K, IsFiniteSet(K), K \subseteq Nat
  PROVE  /\ Cardinality(K) \in Nat
         /\ \A i \in K : RankIn(K, i) \in 1 .. Cardinality(K)
         /\ \A n \in 1 .. Cardinality(K) : \E i \in K : RankIn(K, i) = n
<1> DEFINE c == Cardinality(K)
           f == [i \in K |-> RankIn(K, i)]
<1>1. c \in Nat
  BY FS_CardinalityType
<1>2. \A i \in K : RankIn(K, i) \in 1 .. c
  <2> TAKE i \in K
  <2> DEFINE A == {j \in K : j <= i}
  <2>1. A \subseteq K /\ i \in A
    OBVIOUS
  <2> HIDE DEF A
  <2>2. IsFiniteSet(A) /\ Cardinality(A) <= c
    BY <2>1, FS_Subset
  <2>3. Cardinality(A) \in Nat /\ Cardinality(A) # 0
    BY <2>1, <2>2, FS_CardinalityType, FS_EmptySet
  <2> QED BY <1>1, <2>2, <2>3 DEF RankIn, A
<1>3. f \in Injection(K, 1 .. c)
  <2>1. f \in [K -> 1 .. c]
    BY <1>2
  <2>2. \A i, k \in K : f[i] = f[k] => i = k
    <3> TAKE i, k \in K
    <3>1. i \in Nat /\ k \in Nat /\ RankIn(K, i) \in Nat /\ RankIn(K, k) \in Nat
      BY <1>1, <1>2
    <3>2. i < k => RankIn(K, i) < RankIn(K, k)
      BY RankGrows
    <3>3. k < i => RankIn(K, k) < RankIn(K, i)
      BY RankGrows
    <3> QED BY <3>1, <3>2, <3>3
  <2> QED BY <2>1, <2>2, Fun_IsInj
<1>4. IsFiniteSet(1 .. c) /\ Cardinality(1 .. c) = c
  BY <1>1, Numbered
<1>5. f \in Surjection(K, 1 .. c)
  <2> HIDE DEF f
  <2> QED BY <1>3, <1>4, FS_Injection
<1>6. \A n \in 1 .. c : \E i \in K : f[i] = n
  BY <1>5 DEF Surjection
<1> QED BY <1>1, <1>2, <1>6

\* The positions that Only keeps, and where they go.
Kept(q, S) == {i \in DOMAIN q : q[i] \in S}
From(q, S, n) == CHOOSE i \in Kept(q, S) : RankIn(Kept(q, S), i) = n

\* Only, by the positions it keeps.
LEMMA OnlyDef ==
  ASSUME NEW q, NEW S
  PROVE  Only(q, S) = [n \in 1 .. Cardinality(Kept(q, S)) |-> q[From(q, S, n)]]
BY DEF Only, Kept, From, RankIn

\* The positions kept are finitely many numbers.
LEMMA KeptFacts ==
  ASSUME NEW G, NEW q \in Seq(G), NEW S
  PROVE  /\ IsFiniteSet(Kept(q, S)) /\ Kept(q, S) \subseteq Nat
         /\ Kept(q, S) \subseteq DOMAIN q /\ Cardinality(Kept(q, S)) \in Nat
         /\ \A n \in 1 .. Cardinality(Kept(q, S)) :
              From(q, S, n) \in Kept(q, S) /\ RankIn(Kept(q, S), From(q, S, n)) = n
         /\ \A i \in Kept(q, S) :
              /\ RankIn(Kept(q, S), i) \in 1 .. Cardinality(Kept(q, S))
              /\ From(q, S, RankIn(Kept(q, S), i)) = i
<1> DEFINE K == Kept(q, S)
<1>1. DOMAIN q = 1 .. Len(q) /\ Len(q) \in Nat
  OBVIOUS
<1>2. K \subseteq DOMAIN q /\ K \subseteq Nat
  BY <1>1 DEF Kept
<1>3. IsFiniteSet(K)
  <2>1. IsFiniteSet(1 .. Len(q))
    BY <1>1, Numbered
  <2> QED BY <1>1, <1>2, <2>1, FS_Subset
<1> HIDE DEF K
<1>4. /\ Cardinality(K) \in Nat
      /\ \A i \in K : RankIn(K, i) \in 1 .. Cardinality(K)
      /\ \A n \in 1 .. Cardinality(K) : \E i \in K : RankIn(K, i) = n
  BY <1>2, <1>3, Ranks
<1>5. \A n \in 1 .. Cardinality(K) :
        From(q, S, n) \in K /\ RankIn(K, From(q, S, n)) = n
  BY <1>4 DEF From, K
<1>6. ASSUME NEW i \in K
      PROVE  From(q, S, RankIn(K, i)) = i
  <2> DEFINE k == From(q, S, RankIn(K, i))
  <2>1. k \in K /\ RankIn(K, k) = RankIn(K, i)
    BY <1>4, <1>5
  <2> HIDE DEF k
  <2>2. RankIn(K, i) \in Nat /\ i \in Nat /\ k \in Nat
    BY <1>2, <1>4, <2>1
  <2>3. i < k => RankIn(K, i) < RankIn(K, k)
    BY <1>2, <1>3, <2>1, RankGrows
  <2>4. k < i => RankIn(K, k) < RankIn(K, i)
    BY <1>2, <1>3, <2>1, RankGrows
  <2>5. k = i
    BY <2>1, <2>2, <2>3, <2>4
  <2> QED BY <2>5 DEF k
<1> QED BY <1>2, <1>3, <1>4, <1>5, <1>6 DEF K

\* Only keeps the elements of q that are in S.
LEMMA OnlyIs ==
  ASSUME NEW G, NEW q \in Seq(G), NEW S
  PROVE  Only(q, S) \in Seq(G) /\ In(Only(q, S)) = In(q) \cap S
<1> DEFINE K == Kept(q, S)
           c == Cardinality(K)
           r == Only(q, S)
<1>1. r = [n \in 1 .. c |-> q[From(q, S, n)]]
  BY OnlyDef
<1>2. /\ c \in Nat /\ K \subseteq DOMAIN q
      /\ \A n \in 1 .. c : From(q, S, n) \in K
      /\ \A i \in K : RankIn(K, i) \in 1 .. c /\ From(q, S, RankIn(K, i)) = i
  BY KeptFacts
<1>3. \A i \in K : i \in DOMAIN q /\ q[i] \in G /\ q[i] \in S
  BY DEF Kept
<1>4. \A i \in DOMAIN q : q[i] \in S => i \in K
  BY DEF Kept
<1> HIDE DEF K, c, r
<1>5. DOMAIN r = 1 .. c /\ \A n \in 1 .. c : r[n] = q[From(q, S, n)]
  BY <1>1
<1>6. r \in [1 .. c -> G]
  BY <1>1, <1>2, <1>3
<1>7. r \in Seq(G)
  BY <1>2, <1>6
<1>8. In(r) \subseteq In(q) \cap S
  BY <1>2, <1>3, <1>5 DEF In
<1>9. In(q) \cap S \subseteq In(r)
  <2> SUFFICES ASSUME NEW i \in DOMAIN q, q[i] \in S
               PROVE  q[i] \in In(r)
    BY DEF In
  <2>1. RankIn(K, i) \in DOMAIN r /\ r[RankIn(K, i)] = q[i]
    BY <1>2, <1>4, <1>5
  <2> QED BY <2>1 DEF In
<1> QED BY <1>7, <1>8, <1>9 DEF r

\* A list without repetition stays one.
LEMMA OnlyDistinct ==
  ASSUME NEW G, NEW q \in Seq(G), NEW S, Distinct(q)
  PROVE  Distinct(Only(q, S))
<1> DEFINE K == Kept(q, S)
           c == Cardinality(K)
           r == Only(q, S)
<1>1. r = [n \in 1 .. c |-> q[From(q, S, n)]]
  BY OnlyDef
<1>2. /\ K \subseteq DOMAIN q
      /\ \A n \in 1 .. c : From(q, S, n) \in K /\ RankIn(K, From(q, S, n)) = n
  BY KeptFacts
<1> HIDE DEF K, c, r
<1>3. DOMAIN r = 1 .. c /\ \A n \in 1 .. c : r[n] = q[From(q, S, n)]
  BY <1>1
<1>4. ASSUME NEW m \in 1 .. c, NEW n \in 1 .. c, r[m] = r[n]
      PROVE  m = n
  <2>1. q[From(q, S, m)] = q[From(q, S, n)]
    BY <1>3, <1>4
  <2>2. From(q, S, m) \in DOMAIN q /\ From(q, S, n) \in DOMAIN q
    BY <1>2
  <2>3. From(q, S, m) = From(q, S, n)
    BY <2>1, <2>2 DEF Distinct
  <2> QED BY <1>2, <2>3
<1>5. Distinct(r)
  BY <1>3, <1>4 DEF Distinct
<1> QED BY <1>5 DEF r

\* Only the elements of q matter in S.
LEMMA OnlySame ==
  ASSUME NEW q, NEW S, NEW T, In(q) \cap S = In(q) \cap T
  PROVE  Only(q, S) = Only(q, T)
<1>1. \A i \in DOMAIN q : q[i] \in S <=> q[i] \in T
  BY DEF In
<1>2. Kept(q, S) = Kept(q, T)
  BY <1>1 DEF Kept
<1>3. \A n : From(q, S, n) = From(q, T, n)
  BY <1>2 DEF From
<1> QED BY <1>2, <1>3, OnlyDef

\* The positions 1 to n are their own ranks.
LEMMA OnlyAll ==
  ASSUME NEW G, NEW q \in Seq(G), NEW S, In(q) \subseteq S
  PROVE  Only(q, S) = q
<1> DEFINE D == 1 .. Len(q)
<1>1. DOMAIN q = D /\ Len(q) \in Nat
  OBVIOUS
<1>2. Kept(q, S) = D
  BY <1>1 DEF Kept, In
<1>3. Cardinality(D) = Len(q)
  <2>1. Len(q) \in Nat
    BY <1>1
  <2> QED BY <2>1, Numbered
<1>4. \A i \in D : RankIn(D, i) = i
  <2> TAKE i \in D
  <2>1. {j \in D : j <= i} = 1 .. i /\ i \in Nat
    BY <1>1
  <2>2. Cardinality(1 .. i) = i
    BY <2>1, Numbered
  <2> QED BY <2>1, <2>2 DEF RankIn
<1>5. \A i \in D : From(q, S, i) = i
  BY <1>2, <1>3, <1>4, KeptFacts
<1>6. Only(q, S) = [n \in D |-> q[n]]
  BY <1>2, <1>3, <1>5, OnlyDef
<1> QED BY <1>1, <1>6

\* What is appended and not in S changes nothing.
LEMMA OnlyAppended ==
  ASSUME NEW G, NEW q \in Seq(G), NEW r \in Seq(G), NEW S, In(r) \cap S = {}
  PROVE  Only(q \o r, S) = Only(q, S)
<1> DEFINE w == q \o r
<1>0. w \in Seq(G) /\ Len(w) = Len(q) + Len(r) /\ Len(q) \in Nat /\ Len(r) \in Nat
  OBVIOUS
<1>1. /\ DOMAIN q = 1 .. Len(q) /\ DOMAIN w = 1 .. Len(w)
      /\ \A i \in 1 .. Len(q) : w[i] = q[i]
      /\ \A i \in 1 .. Len(w) : i > Len(q) => i - Len(q) \in DOMAIN r /\ w[i] = r[i - Len(q)]
  OBVIOUS
<1> HIDE DEF w
<1>2. \A i \in DOMAIN r : r[i] \notin S
  BY DEF In
<1>3. Kept(w, S) = Kept(q, S)
  <2>1. ASSUME NEW i \in DOMAIN w, w[i] \in S
        PROVE  i \in DOMAIN q /\ q[i] \in S
    BY <1>0, <1>1, <1>2, <2>1
  <2>2. ASSUME NEW i \in DOMAIN q, q[i] \in S
        PROVE  i \in DOMAIN w /\ w[i] \in S
    BY <1>0, <1>1, <2>2
  <2> QED BY <2>1, <2>2 DEF Kept
<1>4. \A n : From(w, S, n) = From(q, S, n)
  BY <1>3 DEF From
<1>5. \A n \in 1 .. Cardinality(Kept(q, S)) : w[From(q, S, n)] = q[From(q, S, n)]
  BY <1>1, KeptFacts
<1>6. Only(w, S) = [n \in 1 .. Cardinality(Kept(q, S)) |-> w[From(q, S, n)]]
  BY <1>3, <1>4, OnlyDef
<1>7. Only(w, S) = Only(q, S)
  BY <1>5, <1>6, OnlyDef
<1> QED BY <1>7 DEF w

\* A non-empty set of numbers has a least element.
LEMMA LeastOf ==
  ASSUME NEW S \in SUBSET Nat, S # {}
  PROVE  \E k \in S : \A j \in S : k <= j
<1>1. PICK x \in S : \A y \in S : ~(<<y, x>> \in OpToRel(<, Nat))
  BY NatLessThanWellFounded, WFMin
<1>2. \A y \in S : ~(y < x)
  BY <1>1 DEF OpToRel
<1>3. \A y \in S : x <= y
  BY <1>2
<1> QED BY <1>3

\* The first n elements of q, or all of them.
LEMMA UptoIs ==
  ASSUME NEW G, NEW q \in Seq(G), NEW n \in Int
  PROVE  /\ Upto(q, n) \in Seq(G)
         /\ In(Upto(q, n)) \subseteq In(q)
         /\ DOMAIN Upto(q, n) \subseteq DOMAIN q
         /\ \A i \in DOMAIN Upto(q, n) : Upto(q, n)[i] = q[i]
<1> DEFINE k == IF n < Len(q) THEN n ELSE Len(q)
           r == Upto(q, n)
<1>1. k \in Int /\ k <= Len(q) /\ Len(q) \in Nat /\ DOMAIN q = 1 .. Len(q)
  OBVIOUS
<1>3. r = [i \in 1 .. k |-> q[i]]
  BY DEF Upto
<1> HIDE DEF k, r
<1>4. DOMAIN r = 1 .. k /\ 1 .. k \subseteq DOMAIN q /\ \A i \in 1 .. k : r[i] = q[i]
  BY <1>1, <1>3
<1>5. r \in Seq(G)
  <2>1. CASE k >= 0
    <3>1. r \in [1 .. k -> G] /\ k \in Nat
      BY <1>1, <1>3, <1>4, <2>1
    <3> QED BY <3>1
  <2>2. CASE ~(k >= 0)
    <3>1. 1 .. k = {} /\ 1 .. 0 = {}
      BY <1>1, <2>2
    <3>2. r = [i \in 1 .. 0 |-> q[i]] /\ r \in [1 .. 0 -> G]
      BY <1>3, <3>1
    <3> QED BY <3>2
  <2> QED BY <2>1, <2>2
<1>6. In(r) \subseteq In(q)
  BY <1>4 DEF In
<1> QED BY <1>4, <1>5, <1>6 DEF r

\* A list that is short enough is taken as a whole,
LEMMA UptoAll ==
  ASSUME NEW G, NEW q \in Seq(G), NEW n \in Int, Len(q) <= n
  PROVE  Upto(q, n) = q
<1>1. ~(n < Len(q)) /\ Len(q) \in Nat
  OBVIOUS
<1>2. Upto(q, n) = [i \in 1 .. Len(q) |-> q[i]]
  BY <1>1 DEF Upto
<1> QED BY <1>2

\* a longer one to its n-th element,
LEMMA UptoLen ==
  ASSUME NEW G, NEW q \in Seq(G), NEW n \in Nat, n < Len(q)
  PROVE  Len(Upto(q, n)) = n
<1>1. DOMAIN Upto(q, n) = 1 .. n
  BY DEF Upto
<1>2. Upto(q, n) \in Seq(G)
  BY UptoIs
<1> QED BY <1>1, <1>2

\* and of none nothing is taken.
LEMMA UptoNone ==
  ASSUME NEW G, NEW q \in Seq(G), NEW n \in Int, n <= 0
  PROVE  In(Upto(q, n)) = {}
<1> DEFINE k == IF n < Len(q) THEN n ELSE Len(q)
<1>1. k \in Int /\ k <= 0
  OBVIOUS
<1>2. DOMAIN Upto(q, n) = 1 .. k
  BY DEF Upto
<1> HIDE DEF k
<1>3. DOMAIN Upto(q, n) = {}
  BY <1>1, <1>2
<1> QED BY <1>3 DEF In

\* A part of a list without repetition is one.
LEMMA UptoDistinct ==
  ASSUME NEW G, NEW q \in Seq(G), NEW n \in Int, Distinct(q)
  PROVE  Distinct(Upto(q, n))
<1> DEFINE r == Upto(q, n)
<1>1. DOMAIN r \subseteq DOMAIN q /\ \A i \in DOMAIN r : r[i] = q[i]
  BY UptoIs
<1> HIDE DEF r
<1>2. Distinct(r)
  BY <1>1 DEF Distinct
<1> QED BY <1>2 DEF r

\* A list has as many elements as positions exactly when none is repeated.
LEMMA DistinctCard ==
  ASSUME NEW G, NEW q \in Seq(G)
  PROVE  /\ IsFiniteSet(In(q))
         /\ Cardinality(In(q)) = Len(q) <=> Distinct(q)
<1> DEFINE D == 1 .. Len(q)
<1>1. DOMAIN q = D /\ Len(q) \in Nat /\ q \in [D -> In(q)]
  BY DEF In
<1>2. IsFiniteSet(D) /\ Cardinality(D) = Len(q)
  <2>1. Len(q) \in Nat
    BY <1>1
  <2> QED BY <2>1, Numbered
<1>3. q \in Surjection(D, In(q))
  <2>1. \A x \in In(q) : \E i \in D : q[i] = x
    BY <1>1 DEF In
  <2> QED BY <1>1, <2>1, Fun_IsSurj
<1> HIDE DEF D
<1>4. /\ IsFiniteSet(In(q))
      /\ Cardinality(In(q)) = Cardinality(D) <=> q \in Injection(D, In(q))
  BY <1>2, <1>3, FS_Surjection
<1>5. q \in Injection(D, In(q)) <=> Distinct(q)
  BY <1>1 DEF Injection, IsInjective, Distinct
<1> QED BY <1>2, <1>4, <1>5

\* Lists with different elements, one after the other.
LEMMA Joined ==
  ASSUME NEW G, NEW q \in Seq(G), NEW r \in Seq(G)
  PROVE  q \o r \in Seq(G) /\ In(q \o r) = In(q) \cup In(r)
<1> DEFINE w == q \o r
<1>0. w \in Seq(G) /\ Len(w) = Len(q) + Len(r) /\ Len(q) \in Nat /\ Len(r) \in Nat
  OBVIOUS
<1>1. /\ DOMAIN q = 1 .. Len(q) /\ DOMAIN w = 1 .. Len(w) /\ DOMAIN r = 1 .. Len(r)
      /\ \A i \in 1 .. Len(q) : w[i] = q[i]
      /\ \A i \in 1 .. Len(w) : i > Len(q) => i - Len(q) \in DOMAIN r /\ w[i] = r[i - Len(q)]
      /\ \A i \in 1 .. Len(r) : i + Len(q) \in DOMAIN w /\ w[i + Len(q)] = r[i]
  OBVIOUS
<1> HIDE DEF w
<1>2. In(w) \subseteq In(q) \cup In(r)
  <2> SUFFICES ASSUME NEW i \in DOMAIN w
               PROVE  w[i] \in In(q) \cup In(r)
    BY DEF In
  <2>1. CASE i <= Len(q)
    BY <1>0, <1>1, <2>1 DEF In
  <2>2. CASE ~(i <= Len(q))
    <3>1. i - Len(q) \in DOMAIN r /\ w[i] = r[i - Len(q)]
      BY <1>0, <1>1, <2>2
    <3> QED BY <3>1 DEF In
  <2> QED BY <2>1, <2>2
<1>3. In(q) \subseteq In(w)
  <2> SUFFICES ASSUME NEW i \in DOMAIN q
               PROVE  q[i] \in In(w)
    BY DEF In
  <2>1. i \in DOMAIN w /\ w[i] = q[i]
    BY <1>0, <1>1
  <2> QED BY <2>1 DEF In
<1>4. In(r) \subseteq In(w)
  <2> SUFFICES ASSUME NEW i \in DOMAIN r
               PROVE  r[i] \in In(w)
    BY DEF In
  <2>1. i + Len(q) \in DOMAIN w /\ w[i + Len(q)] = r[i]
    BY <1>1
  <2> QED BY <2>1 DEF In
<1>5. In(w) = In(q) \cup In(r) /\ w \in Seq(G)
  BY <1>0, <1>2, <1>3, <1>4
<1> QED BY <1>5 DEF w

\* Lists without repetition and nothing in common, one after the other.
LEMMA JoinedDistinct ==
  ASSUME NEW G, NEW q \in Seq(G), NEW r \in Seq(G), Distinct(q), Distinct(r),
         In(q) \cap In(r) = {}
  PROVE  Distinct(q \o r)
<1> DEFINE w == q \o r
<1>0. w \in Seq(G) /\ Len(w) = Len(q) + Len(r) /\ Len(q) \in Nat /\ Len(r) \in Nat
  OBVIOUS
<1>1. /\ DOMAIN q = 1 .. Len(q) /\ DOMAIN w = 1 .. Len(w) /\ DOMAIN r = 1 .. Len(r)
      /\ \A i \in 1 .. Len(q) : w[i] = q[i]
      /\ \A i \in 1 .. Len(w) : i > Len(q) => i - Len(q) \in DOMAIN r /\ w[i] = r[i - Len(q)]
  OBVIOUS
<1> HIDE DEF w
<1>2. ASSUME NEW i \in DOMAIN w, NEW j \in DOMAIN w, w[i] = w[j]
      PROVE  i = j
  <2>0. i \in Nat /\ j \in Nat /\ i >= 1 /\ j >= 1
    BY <1>0, <1>1
  <2>1. CASE i <= Len(q) /\ j <= Len(q)
    <3>1. i \in DOMAIN q /\ j \in DOMAIN q /\ q[i] = q[j]
      BY <1>0, <1>1, <1>2, <2>0, <2>1
    <3> QED BY <3>1 DEF Distinct
  <2>2. CASE i > Len(q) /\ j > Len(q)
    <3>1. i - Len(q) \in DOMAIN r /\ j - Len(q) \in DOMAIN r
          /\ r[i - Len(q)] = r[j - Len(q)]
      BY <1>1, <1>2, <2>2
    <3>2. i - Len(q) = j - Len(q)
      BY <3>1 DEF Distinct
    <3> QED BY <1>0, <2>0, <3>2
  <2>3. ASSUME NEW a \in DOMAIN w, NEW b \in DOMAIN w, a <= Len(q), b > Len(q)
        PROVE  w[a] # w[b]
    <3>1. a \in DOMAIN q /\ w[a] = q[a]
      BY <1>0, <1>1, <2>3
    <3>2. b - Len(q) \in DOMAIN r /\ w[b] = r[b - Len(q)]
      BY <1>1, <2>3
    <3>3. w[a] \in In(q) /\ w[b] \in In(r)
      BY <3>1, <3>2 DEF In
    <3> QED BY <3>3
  <2>4. (i <= Len(q) \/ i > Len(q)) /\ (j <= Len(q) \/ j > Len(q))
    BY <1>0, <2>0
  <2> QED BY <1>2, <2>1, <2>2, <2>3, <2>4
<1>3. Distinct(w)
  BY <1>2 DEF Distinct
<1> QED BY <1>3 DEF w

-----------------------------------------------------------------------------
(* The guard selection.                                                     *)

Selections ==
  [sample : Seq(Guards), conf : Seq(Guards), prim : Seq(Guards),
   flag : SUBSET Guards, utd : BOOLEAN, filt : SUBSET Guards,
   usable : SUBSET Guards, pend : SUBSET Guards,
   reach : [Guards -> {"maybe", "yes", "no"}]]

\* The primary list is what PrimaryIsBest says of one that is up to date.
InOrder(s) ==
  /\ s.prim = BySample(s, In(s.prim) \cap s.filt)
  /\ In(s.prim) \subseteq Confirmed(s)
     \/ s.filt \cap Confirmed(s) \subseteq In(s.prim)

\* What holds of a selection also in the middle of entry_guards_update_primary:
\* confirmed and filtered guards are sampled, and a guard that is not sampled
\* has no reachability of its own.
Listed(s) ==
  /\ s \in Selections
  /\ Distinct(s.sample)
  /\ In(s.conf) \subseteq In(s.sample)
  /\ s.filt \subseteq In(s.sample)
  /\ s.usable = {g \in s.filt : s.reach[g] # "no"}
  /\ \A g \in Guards : g \notin In(s.sample) => s.reach[g] # "no"
  /\ s.utd => InOrder(s)

Sound(s) == Listed(s) /\ s.flag = In(s.prim)

\* t is s with more guards sampled, at most.
Grown(s, t) ==
  /\ In(s.sample) \subseteq In(t.sample)
  /\ t.conf = s.conf /\ t.pend = s.pend

\* t differs from s only in what is reachable.
SameLists(s, t) ==
  /\ t.sample = s.sample /\ t.conf = s.conf /\ t.prim = s.prim
  /\ t.flag = s.flag /\ t.utd = s.utd /\ t.filt = s.filt /\ t.pend = s.pend

\* The elements of a list of guards are guards.
LEMMA InGuards ==
  ASSUME NEW q \in Seq(Guards)
  PROVE  In(q) \subseteq Guards
BY DEF In

\* Growth upon growth is growth.
LEMMA GrownTransitive ==
  ASSUME NEW s, NEW t, NEW u, Grown(s, t), Grown(t, u)
  PROVE  Grown(s, u)
BY DEF Grown

\* Order depends on the lists alone.
LEMMA SameOrder ==
  ASSUME NEW s, NEW t, InOrder(s), t.sample = s.sample, t.conf = s.conf,
         t.prim = s.prim, t.filt = s.filt
  PROVE  InOrder(t)
BY DEF InOrder, BySample, Confirmed

\* mark_guard_maybe_reachable, for some guards.
LEMMA MarkMaybeIs ==
  ASSUME NEW s, Listed(s), NEW S
  PROVE  Listed(MarkMaybe(s, S)) /\ SameLists(s, MarkMaybe(s, S))
<1> DEFINE down == {g \in S : s.reach[g] = "no"}
           r == [g \in Guards |-> IF g \in down THEN "maybe" ELSE s.reach[g]]
           u == s.usable \cup (down \cap s.filt)
           t == [s EXCEPT !.reach = r, !.usable = u]
<1>1. MarkMaybe(s, S) = t
  BY DEF MarkMaybe
<1>2. s \in Selections /\ s.filt \subseteq Guards /\ s.usable \subseteq Guards
      /\ s.reach \in [Guards -> {"maybe", "yes", "no"}]
  BY DEF Listed, Selections
<1>3. r \in [Guards -> {"maybe", "yes", "no"}] /\ u \subseteq Guards
  BY <1>2
<1>4. \A g \in Guards : r[g] # "no" <=> g \in S \/ s.reach[g] # "no"
  BY <1>2
<1>5. u = {g \in s.filt : r[g] # "no"}
  BY <1>2, <1>4 DEF Listed
<1> HIDE DEF r, u
<1>6. t \in Selections /\ SameLists(s, t) /\ t.reach = r /\ t.usable = u
  BY <1>2, <1>3 DEF Selections, SameLists
<1> HIDE DEF t
<1>7. t.utd => InOrder(t)
  BY <1>6, SameOrder DEF Listed, SameLists
<1>8. Listed(t)
  BY <1>4, <1>5, <1>6, <1>7 DEF Listed, SameLists
<1> QED BY <1>1, <1>6, <1>8

\* entry_guard_consider_retry, for some guards.
LEMMA ConsiderRetryIs ==
  ASSUME NEW s, Listed(s), NEW S
  PROVE  Listed(ConsiderRetry(s, S)) /\ SameLists(s, ConsiderRetry(s, S))
BY MarkMaybeIs DEF ConsiderRetry

\* Lists that are the same have grown by nothing,
LEMMA SameIsGrown ==
  ASSUME NEW s, NEW t, SameLists(s, t)
  PROVE  Grown(s, t)
BY DEF Grown, SameLists

\* and are as sound as they were.
LEMMA SameIsSound ==
  ASSUME NEW s, NEW t, Sound(s), Listed(t), SameLists(s, t)
  PROVE  Sound(t)
BY DEF Sound, SameLists

\* What entry_guards_expand_sample adds are guards outside the sample, none of
\* them twice.
LEMMA AdditionsAre ==
  ASSUME NEW s, NEW inCons \in SUBSET Guards, NEW pass,
         NEW q \in Additions(s, inCons, pass)
  PROVE  /\ q \in Seq(Guards) /\ Distinct(q)
         /\ In(q) \subseteq Guards \ In(s.sample)
<1> DEFINE picks == inCons \ In(s.sample)
<1>1. q \in SeqOf(picks, MaxSample) /\ Len(q) = Cardinality(In(q))
  BY DEF Additions
<1> HIDE DEF picks
<1>2. PICK m \in 0 .. MaxSample : q \in [1 .. m -> picks]
  BY <1>1 DEF SeqOf
<1>3. q \in Seq(picks) /\ m \in Nat
  BY <1>2
<1>4. picks \subseteq Guards /\ picks \cap In(s.sample) = {}
  BY DEF picks
<1>5. In(q) \subseteq picks
  BY <1>2 DEF In
<1>6. Distinct(q)
  BY <1>1, <1>3, DistinctCard
<1>7. q \in Seq(Guards)
  <2>1. q \in [1 .. m -> Guards]
    BY <1>2, <1>4
  <2> QED BY <1>3, <2>1
<1> QED BY <1>4, <1>5, <1>6, <1>7

\* entry_guards_expand_sample keeps the lists, and only adds filtered guards
\* that were not sampled.
LEMMA ExpandIs ==
  ASSUME NEW s, Listed(s), NEW inCons \in SUBSET Guards, NEW pass,
         NEW t \in Expand(s, inCons, pass)
  PROVE  /\ Listed(t) /\ Grown(s, t) /\ t.prim = s.prim /\ t.flag = s.flag
         /\ s.filt \subseteq t.filt /\ t.filt \cap In(s.sample) \subseteq s.filt
<1> DEFINE r == ConsiderRetry(s, In(s.sample))
<1>1. Listed(r) /\ SameLists(s, r)
  BY ConsiderRetryIs
<1>2. PICK q \in Additions(r, inCons, pass) :
        t = [r EXCEPT !.sample = @ \o q, !.filt = @ \cup (In(q) \cap pass),
                      !.usable = @ \cup (In(q) \cap pass),
                      !.utd = @ /\ In(q) \cap pass = {}]
  BY DEF Expand
<1> HIDE DEF r
<1>3. /\ q \in Seq(Guards) /\ Distinct(q) /\ In(q) \subseteq Guards
      /\ In(q) \cap In(r.sample) = {}
  BY AdditionsAre
<1> DEFINE new == In(q) \cap pass
           sm == r.sample \o q
           fl == r.filt \cup new
           us == r.usable \cup new
           ut == r.utd /\ new = {}
<1>4. /\ r \in Selections /\ r.sample \in Seq(Guards) /\ r.filt \subseteq Guards
      /\ r.usable \subseteq Guards /\ r.utd \in BOOLEAN
      /\ r.reach \in [Guards -> {"maybe", "yes", "no"}]
      /\ r.filt \subseteq In(r.sample) /\ Distinct(r.sample)
      /\ r.usable = {g \in r.filt : r.reach[g] # "no"}
      /\ \A g \in Guards : g \notin In(r.sample) => r.reach[g] # "no"
      /\ In(r.conf) \subseteq In(r.sample)
  BY <1>1 DEF Listed, Selections
<1>5. sm \in Seq(Guards) /\ In(sm) = In(r.sample) \cup In(q) /\ Distinct(sm)
  BY <1>3, <1>4, Joined, JoinedDistinct
<1>6. /\ fl \subseteq Guards /\ us \subseteq Guards /\ ut \in BOOLEAN
      /\ fl \subseteq In(sm) /\ us = {g \in fl : r.reach[g] # "no"}
      /\ \A g \in Guards : g \notin In(sm) => r.reach[g] # "no"
      /\ r.filt \subseteq fl /\ fl \cap In(r.sample) \subseteq r.filt
  BY <1>3, <1>4, <1>5
<1>7. ut => r.utd /\ new = {} /\ fl = r.filt
  OBVIOUS
<1>8. t = [r EXCEPT !.sample = sm, !.filt = fl, !.usable = us, !.utd = ut]
  BY <1>2
<1> HIDE DEF sm, fl, us, ut
<1>9. /\ t \in Selections /\ t.sample = sm /\ t.filt = fl /\ t.usable = us
      /\ t.utd = ut /\ t.conf = r.conf /\ t.prim = r.prim /\ t.flag = r.flag
      /\ t.pend = r.pend /\ t.reach = r.reach
  BY <1>4, <1>5, <1>6, <1>8 DEF Selections
<1>10. t.utd => InOrder(t)
  <2> SUFFICES ASSUME t.utd
               PROVE  InOrder(t)
    OBVIOUS
  <2>1. InOrder(r) /\ t.filt = r.filt
    BY <1>1, <1>7, <1>9 DEF Listed
  <2> DEFINE S == In(r.prim) \cap r.filt
  <2>2. S \subseteq In(r.sample)
    BY <1>4
  <2>3. In(q) \cap S = {}
    BY <1>3, <2>2
  <2>4. r.prim = Only(r.sample, S)
    BY <2>1 DEF InOrder, BySample
  <2> HIDE DEF S
  <2>5. Only(sm, S) = Only(r.sample, S)
    BY <1>3, <1>4, <2>3, OnlyAppended DEF sm
  <2>6. t.prim = BySample(t, In(t.prim) \cap t.filt)
    BY <1>9, <2>1, <2>4, <2>5 DEF BySample, S
  <2> QED BY <1>9, <2>1, <2>6 DEF InOrder, Confirmed
<1>11. Listed(t)
  BY <1>4, <1>5, <1>6, <1>9, <1>10 DEF Listed
<1>12. /\ r.sample = s.sample /\ r.conf = s.conf /\ r.prim = s.prim
       /\ r.flag = s.flag /\ r.filt = s.filt /\ r.pend = s.pend
  BY <1>1 DEF SameLists
<1> QED BY <1>5, <1>6, <1>9, <1>11, <1>12 DEF Grown

\* The last part of entry_guards_update_primary, in u, after the guards ab.
NewPrimaries(u, ab) ==
  Upto(BySample(u, (u.usable \ Confirmed(u)) \ u.flag), NPrimary - Cardinality(ab))

Filled(u, ab) ==
  [u EXCEPT !.flag = @ \cup In(NewPrimaries(u, ab)), !.utd = TRUE,
            !.prim = BySample(u, ab \cup In(NewPrimaries(u, ab)))]

\* The primary guards that are kept: confirmed ones, then those already there.
OldPrimaries(s) ==
  Upto(Only(s.prim, s.filt \ In(FromConfirmed(s))), NPrimary - Len(FromConfirmed(s)))

KeptPrimaries(s) == In(FromConfirmed(s)) \cup In(OldPrimaries(s))

\* entry_guards_update_primary, by its parts.
LEMMA UpdatePrimaryDef ==
  ASSUME NEW s, NEW inCons, NEW pass, NEW v \in UpdatePrimary(s, inCons, pass)
  PROVE  LET ab == KeptPrimaries(s)
             t == [s EXCEPT !.flag = (@ \cup ab) \ Dropped(s, ab)]
         IN  \/ Cardinality(ab) >= NPrimary /\ v = Filled(t, ab)
             \/ ~(Cardinality(ab) >= NPrimary)
                /\ \E u \in Expand(t, inCons, pass) : v = Filled(u, ab)
BY DEF UpdatePrimary, Filled, NewPrimaries, KeptPrimaries, OldPrimaries

\* The guards kept are filtered; they are confirmed and fill the list, or all
\* confirmed guards that pass the filter are among them.
LEMMA KeptPrimariesAre ==
  ASSUME GuardAssumption, NEW s, Sound(s)
  PROVE  /\ KeptPrimaries(s) \subseteq s.filt
         /\ Cardinality(KeptPrimaries(s)) \in Nat
         /\ \/ /\ KeptPrimaries(s) \subseteq Confirmed(s)
               /\ Cardinality(KeptPrimaries(s)) = NPrimary
            \/ s.filt \cap Confirmed(s) \subseteq KeptPrimaries(s)
<1> DEFINE C == Confirmed(s) \cap s.filt
           p == BySample(s, C)
           a == FromConfirmed(s)
           o == Only(s.prim, s.filt \ In(a))
           b == OldPrimaries(s)
<1>1. /\ s.sample \in Seq(Guards) /\ s.prim \in Seq(Guards) /\ Distinct(s.sample)
      /\ Confirmed(s) \subseteq In(s.sample) /\ s.filt \subseteq In(s.sample)
      /\ NPrimary \in Nat
  BY DEF Sound, Listed, Selections, Confirmed, GuardAssumption
<1>2. p \in Seq(Guards) /\ In(p) = C /\ Distinct(p)
  BY <1>1, OnlyIs, OnlyDistinct DEF BySample
<1>3. a = Upto(p, NPrimary)
  BY DEF FromConfirmed
<1> HIDE DEF p, a
<1>4. a \in Seq(Guards) /\ In(a) \subseteq C /\ Distinct(a)
  BY <1>1, <1>2, <1>3, UptoIs, UptoDistinct
<1>5. o \in Seq(Guards) /\ In(o) \subseteq s.filt
  BY <1>1, OnlyIs
<1>6. b = Upto(o, NPrimary - Len(a))
  BY DEF OldPrimaries, a
<1> HIDE DEF o, b
<1>7. b \in Seq(Guards) /\ In(b) \subseteq In(o) /\ Len(a) \in Nat
  <2>1. Len(a) \in Nat /\ NPrimary - Len(a) \in Int
    BY <1>1, <1>4
  <2> QED BY <1>5, <1>6, <2>1, UptoIs
<1>8. KeptPrimaries(s) = In(a) \cup In(b)
  BY DEF KeptPrimaries, a, b
<1>9. IsFiniteSet(In(a)) /\ IsFiniteSet(In(b)) /\ Cardinality(In(a)) = Len(a)
  BY <1>4, <1>7, DistinctCard
<1>10. Cardinality(KeptPrimaries(s)) \in Nat
  BY <1>8, <1>9, FS_Union, FS_CardinalityType
<1>11. CASE Len(p) <= NPrimary
  <2>1. a = p
    BY <1>1, <1>2, <1>3, <1>11, UptoAll
  <2> QED BY <1>2, <1>4, <1>5, <1>7, <1>8, <1>10, <2>1
<1>12. CASE ~(Len(p) <= NPrimary)
  <2>1. Len(a) = NPrimary
    <3>1. NPrimary < Len(p)
      BY <1>1, <1>2, <1>12
    <3> QED BY <1>1, <1>2, <1>3, <3>1, UptoLen
  <2>2. In(b) = {}
    <3>1. NPrimary - Len(a) \in Int /\ NPrimary - Len(a) <= 0
      BY <1>1, <2>1
    <3> QED BY <1>5, <1>6, <3>1, UptoNone
  <2>3. KeptPrimaries(s) = In(a)
    BY <1>8, <2>2
  <2> QED BY <1>4, <1>9, <1>10, <2>1, <2>3
<1> QED BY <1>11, <1>12

\* Filling the list up makes it right and up to date.
LEMMA FilledIs ==
  ASSUME GuardAssumption, NEW u, Listed(u), NEW ab, u.flag = ab,
         ab \subseteq u.filt, Cardinality(ab) \in Nat,
         \/ ab \subseteq Confirmed(u) /\ Cardinality(ab) = NPrimary
         \/ u.filt \cap Confirmed(u) \subseteq ab
  PROVE  /\ Sound(Filled(u, ab)) /\ Grown(u, Filled(u, ab))
         /\ Filled(u, ab).utd = TRUE
<1> DEFINE Q == (u.usable \ Confirmed(u)) \ u.flag
           p == BySample(u, Q)
           c == NewPrimaries(u, ab)
           P == ab \cup In(c)
           v == Filled(u, ab)
<1>1. /\ u \in Selections /\ u.sample \in Seq(Guards) /\ Distinct(u.sample)
      /\ u.filt \subseteq In(u.sample) /\ u.usable \subseteq u.filt
      /\ u.usable = {g \in u.filt : u.reach[g] # "no"}
      /\ NPrimary \in Nat
  BY DEF Listed, Selections, GuardAssumption
<1>2. p \in Seq(Guards) /\ In(p) \subseteq u.usable
  BY <1>1, OnlyIs DEF BySample
<1>3. c = Upto(p, NPrimary - Cardinality(ab)) /\ NPrimary - Cardinality(ab) \in Int
  BY <1>1 DEF NewPrimaries
<1> HIDE DEF p, c
<1>4. In(c) \subseteq u.usable
  BY <1>2, <1>3, UptoIs
<1>5. P \subseteq u.filt /\ P \subseteq In(u.sample)
  BY <1>1, <1>4
<1>6. BySample(u, P) \in Seq(Guards) /\ In(BySample(u, P)) = P
  BY <1>1, <1>5, OnlyIs DEF BySample
<1>7. v = [u EXCEPT !.flag = P, !.utd = TRUE, !.prim = BySample(u, P)]
  BY DEF Filled, c
<1>8. P \in SUBSET Guards
  BY <1>1, <1>5 DEF Selections
<1> HIDE DEF P, v
<1>9. /\ v \in Selections /\ v.flag = P /\ v.utd = TRUE /\ v.prim = BySample(u, P)
      /\ v.sample = u.sample /\ v.conf = u.conf /\ v.filt = u.filt
      /\ v.usable = u.usable /\ v.pend = u.pend /\ v.reach = u.reach
  BY <1>1, <1>6, <1>7, <1>8 DEF Selections
<1>10. v.flag = In(v.prim)
  BY <1>6, <1>9
<1>11. InOrder(v)
  <2>1. In(v.prim) \cap v.filt = P
    BY <1>5, <1>6, <1>9
  <2>2. v.prim = BySample(v, In(v.prim) \cap v.filt)
    BY <1>9, <2>1 DEF BySample
  <2>3. CASE ab \subseteq Confirmed(u) /\ Cardinality(ab) = NPrimary
    <3>1. NPrimary - Cardinality(ab) <= 0
      BY <1>1, <2>3
    <3>2. In(c) = {}
      BY <1>2, <1>3, <3>1, UptoNone
    <3>3. In(v.prim) \subseteq Confirmed(v)
      BY <1>6, <1>9, <2>3, <3>2 DEF P, Confirmed
    <3> QED BY <2>2, <3>3 DEF InOrder
  <2>4. CASE u.filt \cap Confirmed(u) \subseteq ab
    <3>1. v.filt \cap Confirmed(v) \subseteq In(v.prim)
      BY <1>6, <1>9, <2>4 DEF P, Confirmed
    <3> QED BY <2>2, <3>1 DEF InOrder
  <2> QED BY <2>3, <2>4
<1>12. Sound(v)
  BY <1>9, <1>10, <1>11 DEF Sound, Listed
<1>13. Grown(u, v)
  BY <1>9 DEF Grown
<1> QED BY <1>9, <1>12, <1>13 DEF v

\* entry_guards_update_primary
LEMMA UpdatePrimaryIs ==
  ASSUME GuardAssumption, NEW s, Sound(s), NEW inCons \in SUBSET Guards, NEW pass,
         NEW v \in UpdatePrimary(s, inCons, pass)
  PROVE  Sound(v) /\ Grown(s, v) /\ v.utd = TRUE
<1> DEFINE ab == KeptPrimaries(s)
           fl == (s.flag \cup ab) \ Dropped(s, ab)
           t == [s EXCEPT !.flag = fl]
<1>1. /\ ab \subseteq s.filt /\ Cardinality(ab) \in Nat
      /\ \/ ab \subseteq Confirmed(s) /\ Cardinality(ab) = NPrimary
         \/ s.filt \cap Confirmed(s) \subseteq ab
  BY KeptPrimariesAre
<1>2. s \in Selections /\ s.flag = In(s.prim) /\ s.filt \subseteq Guards
  BY DEF Sound, Listed, Selections
<1>3. \/ Cardinality(ab) >= NPrimary /\ v = Filled(t, ab)
      \/ \E u \in Expand(t, inCons, pass) : v = Filled(u, ab)
  BY UpdatePrimaryDef
<1> HIDE DEF ab
<1>4. fl = ab /\ fl \in SUBSET Guards
  BY <1>1, <1>2 DEF Dropped
<1> HIDE DEF fl
<1>5. /\ t \in Selections /\ t.flag = ab /\ t.sample = s.sample /\ t.conf = s.conf
      /\ t.filt = s.filt /\ t.usable = s.usable /\ t.pend = s.pend
      /\ t.reach = s.reach /\ t.prim = s.prim /\ t.utd = s.utd
  BY <1>2, <1>4 DEF Selections
<1> HIDE DEF t
<1>6. t.utd => InOrder(t)
  BY <1>5, SameOrder DEF Sound, Listed
<1>7. Listed(t)
  BY <1>5, <1>6 DEF Sound, Listed
<1>8. Grown(s, t) /\ Confirmed(t) = Confirmed(s)
  BY <1>5 DEF Grown, Confirmed
<1>9. CASE v = Filled(t, ab)
  <2>1. Sound(v) /\ v.utd = TRUE /\ Grown(t, v)
    BY <1>1, <1>5, <1>7, <1>8, <1>9, FilledIs
  <2> QED BY <1>8, <2>1, GrownTransitive
<1>10. CASE \E u \in Expand(t, inCons, pass) : v = Filled(u, ab)
  <2>1. PICK u \in Expand(t, inCons, pass) : v = Filled(u, ab)
    BY <1>10
  <2>2. /\ Listed(u) /\ Grown(t, u) /\ u.prim = t.prim /\ u.flag = t.flag
        /\ t.filt \subseteq u.filt /\ u.filt \cap In(t.sample) \subseteq t.filt
    BY <1>7, ExpandIs
  <2>3. Confirmed(u) = Confirmed(s) /\ Confirmed(s) \subseteq In(t.sample)
    BY <1>5, <2>2 DEF Grown, Confirmed, Sound, Listed
  <2>4. \/ ab \subseteq Confirmed(u) /\ Cardinality(ab) = NPrimary
        \/ u.filt \cap Confirmed(u) \subseteq ab
    BY <1>1, <1>5, <2>2, <2>3
  <2>5. ab \subseteq u.filt /\ u.flag = ab
    BY <1>1, <1>5, <2>2
  <2>6. Sound(v) /\ v.utd = TRUE /\ Grown(u, v)
    BY <1>1, <2>1, <2>2, <2>4, <2>5, FilledIs
  <2> QED BY <1>8, <2>2, <2>6, GrownTransitive
<1> QED BY <1>3, <1>9, <1>10

\* The list is brought up to date if it is not.
LEMMA UpToDateIs ==
  ASSUME GuardAssumption, NEW s, Sound(s), listed \subseteq Guards,
         NEW v \in UpToDate(s)
  PROVE  Sound(v) /\ Grown(s, v) /\ v.utd = TRUE
<1>1. CASE s.utd
  <2>1. v = s /\ s.utd \in BOOLEAN
    BY <1>1 DEF UpToDate, Sound, Listed, Selections
  <2> QED BY <1>1, <2>1 DEF Grown
<1>2. CASE ~s.utd
  <2>1. v \in UpdatePrimary(s, listed, listed \cap allowed)
    BY <1>2 DEF UpToDate
  <2> QED BY <2>1, UpdatePrimaryIs
<1> QED BY <1>1, <1>2

\* The guards R are gone, and the primary list may have to be brought up to date.
Pruned(s, R, changed) == [Prune(s, R) EXCEPT !.utd = @ /\ R = {} /\ ~changed]

\* t is s without R in its lists.
Without(s, R, t) ==
  /\ Sound(t) /\ In(t.sample) = In(s.sample) \ R
  /\ In(t.conf) = In(s.conf) \ R /\ t.pend = s.pend \ R

\* remove_guard_from_confirmed_and_primary_lists and entry_guard_free
LEMMA PruneIs ==
  ASSUME NEW s, Sound(s), NEW R \in SUBSET Guards, NEW changed
  PROVE  Without(s, R, Pruned(s, R, changed))
<1> DEFINE t == Pruned(s, R, changed)
           keep == Guards \ R
           sm == Only(s.sample, keep)
           cf == Only(s.conf, keep)
           pr == Only(s.prim, keep)
           re == [g \in Guards |-> IF g \in R THEN "maybe" ELSE s.reach[g]]
           ut == s.utd /\ R = {} /\ ~changed
           fg == s.flag \ R
           fi == s.filt \ R
           us == s.usable \ R
           pd == s.pend \ R
<1>1. /\ s \in Selections /\ s.sample \in Seq(Guards) /\ s.conf \in Seq(Guards)
      /\ s.prim \in Seq(Guards) /\ Distinct(s.sample) /\ s.utd \in BOOLEAN
      /\ s.flag = In(s.prim) /\ s.reach \in [Guards -> {"maybe", "yes", "no"}]
      /\ s.usable = {g \in s.filt : s.reach[g] # "no"} /\ s.filt \subseteq In(s.sample)
      /\ In(s.conf) \subseteq In(s.sample)
      /\ \A g \in Guards : g \notin In(s.sample) => s.reach[g] # "no"
      /\ s.utd => InOrder(s)
  BY DEF Sound, Listed, Selections
<1>2. /\ In(s.sample) \subseteq Guards /\ In(s.conf) \subseteq Guards
      /\ In(s.prim) \subseteq Guards
  BY <1>1, InGuards
<1>3. /\ sm \in Seq(Guards) /\ In(sm) = In(s.sample) \ R /\ Distinct(sm)
      /\ cf \in Seq(Guards) /\ In(cf) = In(s.conf) \ R
      /\ pr \in Seq(Guards) /\ In(pr) = In(s.prim) \ R
  <2>1. sm \in Seq(Guards) /\ In(sm) = In(s.sample) \cap keep /\ Distinct(sm)
    BY <1>1, OnlyIs, OnlyDistinct
  <2>2. cf \in Seq(Guards) /\ In(cf) = In(s.conf) \cap keep
    BY <1>1, OnlyIs
  <2>3. pr \in Seq(Guards) /\ In(pr) = In(s.prim) \cap keep
    BY <1>1, OnlyIs
  <2> HIDE DEF sm, cf, pr
  <2> QED BY <1>2, <2>1, <2>2, <2>3
<1>4. re \in [Guards -> {"maybe", "yes", "no"}]
      /\ \A g \in Guards : re[g] # "no" <=> g \in R \/ s.reach[g] # "no"
  BY <1>1
<1>5. t = [s EXCEPT !.sample = sm, !.conf = cf, !.prim = pr, !.flag = fg,
                    !.filt = fi, !.usable = us, !.pend = pd, !.reach = re,
                    !.utd = ut]
  BY <1>1 DEF Pruned, Prune, Selections
<1>6. /\ ut \in BOOLEAN /\ fg \in SUBSET Guards /\ fi \in SUBSET Guards
      /\ us \in SUBSET Guards /\ pd \in SUBSET Guards
  BY <1>1 DEF Selections
<1>7. ut => s.utd /\ R = {}
  OBVIOUS
<1> HIDE DEF sm, cf, pr, re, ut, fg, fi, us, pd, t
<1>8a. /\ t \in Selections /\ t.sample = sm /\ t.conf = cf /\ t.prim = pr
       /\ t.flag = fg /\ t.filt = fi /\ t.usable = us /\ t.pend = pd
       /\ t.reach = re /\ t.utd = ut
  BY <1>1, <1>3, <1>4, <1>5, <1>6 DEF Selections
<1>8. /\ t \in Selections /\ t.sample = sm /\ t.conf = cf /\ t.prim = pr
      /\ t.flag = s.flag \ R /\ t.filt = s.filt \ R /\ t.usable = s.usable \ R
      /\ t.pend = s.pend \ R /\ t.reach = re /\ t.utd = ut
  BY <1>8a DEF fg, fi, us, pd
<1>9. t.usable = {g \in t.filt : t.reach[g] # "no"} /\ s.filt \subseteq Guards
  BY <1>1, <1>2, <1>4, <1>8
<1>10. \A g \in Guards : g \notin In(t.sample) => t.reach[g] # "no"
  BY <1>1, <1>3, <1>4, <1>8
<1>11. t.utd => InOrder(t)
  <2> SUFFICES ASSUME s.utd, R = {}
               PROVE  InOrder(t)
    BY <1>7, <1>8
  <2> DEFINE S == In(s.prim) \cap s.filt
  <2>2. InOrder(s)
    BY <1>1
  <2>3. In(pr) = In(s.prim) /\ In(cf) = In(s.conf) /\ t.filt = s.filt
    BY <1>3, <1>8
  <2>4. s.prim = Only(s.sample, S)
    BY <2>2 DEF InOrder, BySample
  <2>5. S \subseteq In(s.sample)
    BY <1>1
  <2>6. sm = s.sample /\ pr = s.prim
    <3>1. In(s.sample) \subseteq keep /\ In(s.prim) \subseteq keep
      BY <1>2
    <3> QED BY <1>1, <3>1, OnlyAll DEF sm, pr
  <2>7. t.prim = BySample(t, In(t.prim) \cap t.filt)
    BY <1>8, <2>3, <2>4, <2>6 DEF BySample
  <2>8. In(t.prim) \subseteq Confirmed(t) \/ t.filt \cap Confirmed(t) \subseteq In(t.prim)
    BY <1>8, <2>2, <2>3 DEF InOrder, Confirmed
  <2> QED BY <2>7, <2>8 DEF InOrder
<1>12. Listed(t)
  BY <1>1, <1>3, <1>8, <1>9, <1>10, <1>11 DEF Listed
<1>13. t.flag = In(t.prim)
  BY <1>1, <1>3, <1>8
<1>14. Without(s, R, t)
  BY <1>3, <1>8, <1>12, <1>13 DEF Sound, Without
<1> QED BY <1>14 DEF t

\* entry_guards_update_filtered_sets
LEMMA SetFilteredIs ==
  ASSUME NEW s, Sound(s), NEW pass
  PROVE  Sound(SetFiltered(s, pass)) /\ Grown(s, SetFiltered(s, pass))
<1> DEFINE f == In(s.sample) \cap pass
           us == {g \in f : s.reach[g] # "no"}
           ut == s.utd /\ f = s.filt
           t == [s EXCEPT !.filt = f, !.usable = us, !.utd = ut]
<1>1. /\ s \in Selections /\ s.sample \in Seq(Guards) /\ s.utd \in BOOLEAN
      /\ s.flag = In(s.prim)
  BY DEF Sound, Listed, Selections
<1>2. f \subseteq In(s.sample) /\ In(s.sample) \subseteq Guards
  BY <1>1, InGuards
<1>3. SetFiltered(s, pass) = ConsiderRetry(t, f)
  BY DEF SetFiltered
<1>4. ut \in BOOLEAN /\ (ut => s.utd /\ f = s.filt) /\ us \subseteq Guards /\ f \subseteq Guards
  BY <1>1, <1>2
<1>5. us = {g \in f : s.reach[g] # "no"}
  OBVIOUS
<1> HIDE DEF f, us, ut
<1>6. /\ t \in Selections /\ t.sample = s.sample /\ t.conf = s.conf /\ t.prim = s.prim
      /\ t.flag = s.flag /\ t.filt = f /\ t.usable = us /\ t.pend = s.pend
      /\ t.reach = s.reach /\ t.utd = ut
  BY <1>1, <1>4 DEF Selections
<1> HIDE DEF t
<1>7. t.utd => InOrder(t)
  <2> SUFFICES ASSUME t.utd
               PROVE  InOrder(t)
    OBVIOUS
  <2>1. InOrder(s) /\ t.filt = s.filt
    BY <1>4, <1>6 DEF Sound, Listed
  <2> QED BY <1>6, <2>1, SameOrder
<1>8. Sound(t)
  BY <1>1, <1>2, <1>5, <1>6, <1>7 DEF Sound, Listed
<1>9. Listed(ConsiderRetry(t, f)) /\ SameLists(t, ConsiderRetry(t, f))
  BY <1>8, ConsiderRetryIs DEF Sound
<1>10. Sound(ConsiderRetry(t, f)) /\ Grown(t, ConsiderRetry(t, f))
  BY <1>8, <1>9, SameIsGrown, SameIsSound
<1>11. Grown(s, t)
  BY <1>6 DEF Grown
<1> QED BY <1>3, <1>10, <1>11, GrownTransitive

\* v is s without R, and perhaps with more guards sampled.
Updated(s, R, v) ==
  /\ Sound(v) /\ In(s.sample) \ R \subseteq In(v.sample)
  /\ Confirmed(s) \ R = Confirmed(v) /\ v.pend = s.pend \ R

\* entry_guards_update_all
LEMMA UpdateAllIs ==
  ASSUME GuardAssumption, NEW s, Sound(s), NEW R \in SUBSET Guards,
         NEW changed, NEW inCons \in SUBSET Guards, NEW pass,
         NEW v \in UpdateAll(s, R, changed, inCons, pass)
  PROVE  Updated(s, R, v)
<1> DEFINE t == Pruned(s, R, changed)
           f == SetFiltered(t, pass)
<1>1. v \in UpdatePrimary(f, inCons, pass)
  BY DEF UpdateAll, Pruned
<1>0. Without(s, R, t)
  BY PruneIs
<1> HIDE DEF t
<1>2. /\ Sound(t) /\ In(t.sample) = In(s.sample) \ R
      /\ In(t.conf) = In(s.conf) \ R /\ t.pend = s.pend \ R
  BY <1>0 DEF Without
<1>3. Sound(f) /\ Grown(t, f)
  BY <1>2, SetFilteredIs
<1> HIDE DEF f
<1>4. Sound(v) /\ Grown(f, v)
  BY <1>1, <1>3, UpdatePrimaryIs
<1> QED BY <1>2, <1>3, <1>4 DEF Updated, Grown, Confirmed

-----------------------------------------------------------------------------
(* Selection.                                                               *)

\* What select_entry_guard_for_circuit may do: it marks a guard pending only
\* when it gives it to the circuit as one to try.
Selected(s, p) ==
  /\ Sound(p.gs) /\ In(s.sample) \subseteq In(p.gs.sample) /\ p.gs.conf = s.conf
  /\ \/ p.g = Gone /\ p.gs.pend = s.pend
     \/ p.g \in In(p.gs.sample) /\ p.st = "oncompletion" /\ p.gs.pend = s.pend
     \/ /\ p.g \in In(p.gs.sample) /\ p.st = "ifnobetter"
        /\ p.gs.pend = s.pend \cup {p.g}

\* A guard of the sample is made pending and given to the circuit.
LEMMA TriedIsSelected ==
  ASSUME NEW s, NEW u, Sound(u), Grown(s, u), NEW g \in In(u.sample), NEW tried
  PROVE  Selected(s, Picked([u EXCEPT !.pend = @ \cup {g}], g, "ifnobetter", tried))
<1> DEFINE pd == u.pend \cup {g}
           w == [u EXCEPT !.pend = pd]
<1>1. u \in Selections /\ u.sample \in Seq(Guards) /\ u.pend \subseteq Guards
  BY DEF Sound, Listed, Selections
<1>2. pd \in SUBSET Guards
  BY <1>1, InGuards
<1> HIDE DEF pd
<1>3. /\ w \in Selections /\ w.sample = u.sample /\ w.conf = u.conf
      /\ w.prim = u.prim /\ w.flag = u.flag /\ w.filt = u.filt
      /\ w.usable = u.usable /\ w.pend = pd /\ w.reach = u.reach /\ w.utd = u.utd
  BY <1>1, <1>2 DEF Selections
<1> HIDE DEF w
<1>4. w.utd => InOrder(w)
  BY <1>3, SameOrder DEF Sound, Listed
<1>5. Sound(w)
  BY <1>3, <1>4 DEF Sound, Listed
<1>6. w.pend = s.pend \cup {g} /\ w.conf = s.conf /\ In(s.sample) \subseteq In(w.sample)
  BY <1>3 DEF Grown, pd
<1>7. Selected(s, [gs |-> w, g |-> g, st |-> "ifnobetter", tried |-> tried])
  BY <1>3, <1>5, <1>6 DEF Selected
<1> QED BY <1>7 DEF Picked, w, pd

\* select_filtered_guard_for_circuit
LEMMA SelectFilteredIs ==
  ASSUME GuardAssumption, listed \subseteq Guards, NEW s, Sound(s), NEW rst,
         NEW p \in SelectFiltered(s, rst)
  PROVE  Selected(s, p)
<1> DEFINE Q(u) == BySample(u, u.usable
                              \ (Confirmed(u) \cup u.flag \cup u.pend \cup rst))
           P(u) == IF Q(u) = <<>>
                     THEN Picked(MarkMaybe(u, In(u.sample)), Gone, "none", {})
                     ELSE Picked([u EXCEPT !.pend = @ \cup {Q(u)[1]}], Q(u)[1],
                                 "ifnobetter", {Q(u)[1]})
           E == Expand(s, listed, listed \cap allowed)
<1>0. SelectFiltered(s, rst) = {P(u) : u \in UNION {UpToDate(t) : t \in E}}
  BY DEF SelectFiltered
<1> HIDE DEF P, E
<1>a. PICK t \in E : \E u \in UpToDate(t) : p = P(u)
  BY <1>0
<1>1. PICK u \in UpToDate(t) : p = P(u)
  BY <1>a
<1>2. Sound(t) /\ Grown(s, t)
  <2>1. Listed(s) /\ s.flag = In(s.prim)
    BY DEF Sound
  <2>2. Listed(t) /\ Grown(s, t) /\ t.prim = s.prim /\ t.flag = s.flag
    BY <2>1, ExpandIs DEF E
  <2> QED BY <2>1, <2>2 DEF Sound
<1>3. Sound(u) /\ Grown(t, u)
  BY <1>2, UpToDateIs
<1>4. Grown(s, u)
  BY <1>2, <1>3, GrownTransitive
<1> DEFINE q == Q(u)
<1>5. q \in Seq(Guards) /\ In(q) \subseteq In(u.sample)
  BY <1>3, OnlyIs DEF BySample, Sound, Listed, Selections
<1> HIDE DEF Q, q
<1>6. CASE q = <<>>
  <2> DEFINE w == MarkMaybe(u, In(u.sample))
  <2>1. Listed(w) /\ SameLists(u, w)
    BY <1>3, MarkMaybeIs DEF Sound
  <2>2. p = Picked(w, Gone, "none", {})
    BY <1>1, <1>6 DEF q, P
  <2> HIDE DEF w
  <2>3. Sound(w) /\ Grown(s, w)
    BY <1>3, <1>4, <2>1, SameIsSound, SameIsGrown, GrownTransitive
  <2>4. p.gs = w /\ p.g = Gone
    BY <2>2 DEF Picked
  <2> QED BY <2>3, <2>4 DEF Selected, Grown
<1>7. CASE q # <<>>
  <2>1. 1 \in DOMAIN q
    BY <1>5, <1>7
  <2>2. q[1] \in In(u.sample)
    BY <1>5, <2>1 DEF In
  <2>3. p = Picked([u EXCEPT !.pend = @ \cup {q[1]}], q[1], "ifnobetter", {q[1]})
    BY <1>1, <1>7 DEF q, P
  <2> QED BY <1>3, <1>4, <2>2, <2>3, TriedIsSelected
<1> QED BY <1>6, <1>7

\* select_confirmed_guard_for_circuit
LEMMA SelectConfirmedIs ==
  ASSUME GuardAssumption, listed \subseteq Guards, NEW s, Sound(s), NEW rst,
         NEW p \in SelectConfirmed(s, rst)
  PROVE  Selected(s, p)
<1> DEFINE q == ConfirmedToTry(s, rst)
           Ok(g) == g \in ConsiderRetry(s, {g}).usable \ s.pend
           good == {i \in DOMAIN q : Ok(q[i])}
           i == CHOOSE i \in good : \A j \in good : i <= j
           r == ConsiderRetry(s, In(Upto(q, i)))
           w == ConsiderRetry(s, In(q))
<1>1. \/ good = {} /\ p \in SelectFiltered(w, rst)
      \/ good # {} /\ p = Picked([r EXCEPT !.pend = @ \cup {q[i]}], q[i],
                                 "ifnobetter", {q[i]})
  BY DEF SelectConfirmed
<1>2. Listed(s)
  BY DEF Sound
<1>3. CASE good = {} /\ p \in SelectFiltered(w, rst)
  <2>1. Listed(w) /\ SameLists(s, w)
    BY <1>2, ConsiderRetryIs
  <2> HIDE DEF w
  <2>2. Sound(w) /\ Grown(s, w)
    BY <2>1, SameIsSound, SameIsGrown
  <2>3. Selected(w, p)
    BY <1>3, <2>2, SelectFilteredIs
  <2> QED BY <2>2, <2>3 DEF Selected, Grown
<1>4. CASE good # {} /\ p = Picked([r EXCEPT !.pend = @ \cup {q[i]}], q[i],
                                   "ifnobetter", {q[i]})
  <2>1. q \in Seq(Guards) /\ In(q) \subseteq In(s.sample)
    BY <1>2, OnlyIs DEF ConfirmedToTry, BySample, Listed, Selections
  <2>2. good \subseteq DOMAIN q /\ DOMAIN q \subseteq Nat
    BY <2>1
  <2>3. i \in good
    <3> HIDE DEF good
    <3>1. PICK k \in good : \A j \in good : k <= j
      <4>1. good \subseteq Nat /\ good # {}
        BY <1>4, <2>2
      <4> QED BY <4>1, LeastOf
    <3> QED BY <3>1
  <2> HIDE DEF i
  <2>4. Listed(r) /\ SameLists(s, r)
    BY <1>2, ConsiderRetryIs
  <2> HIDE DEF r
  <2>5. Sound(r) /\ Grown(s, r)
    BY <2>4, SameIsSound, SameIsGrown
  <2>6. q[i] \in In(r.sample)
    BY <2>1, <2>2, <2>3, <2>4 DEF In, SameLists
  <2> HIDE DEF q, good
  <2> QED BY <1>4, <2>5, <2>6, TriedIsSelected
<1> QED BY <1>1, <1>3, <1>4

\* select_entry_guard_for_circuit
LEMMA SelectIs ==
  ASSUME GuardAssumption, listed \subseteq Guards, NEW s, Sound(s), NEW rst,
         NEW p \in Select(s, rst)
  PROVE  Selected(s, p)
<1>1. PICK t \in UpToDate(s) :
        LET scan == PrimaryScan(t, rst)
            r == ConsiderRetry(t, scan.seen)
        IN  \/ \E g \in scan.use : p = Picked(r, g, "oncompletion", scan.use)
            \/ p \in SelectConfirmed(r, rst)
  BY DEF Select
<1>2. Sound(t) /\ Grown(s, t) /\ t.utd = TRUE
  BY UpToDateIs
<1> DEFINE scan == PrimaryScan(t, rst)
           r == ConsiderRetry(t, scan.seen)
<1>3. scan.use \subseteq In(t.sample)
  <2>1. scan.use \subseteq In(t.prim)
    BY DEF PrimaryScan, In
  <2>2. t.prim = BySample(t, In(t.prim) \cap t.filt) /\ t.sample \in Seq(Guards)
    BY <1>2 DEF Sound, Listed, InOrder, Selections
  <2>3. In(BySample(t, In(t.prim) \cap t.filt)) \subseteq In(t.sample)
    BY <2>2, OnlyIs DEF BySample
  <2> QED BY <2>1, <2>2, <2>3
<1>4. \/ \E g \in scan.use : p = Picked(r, g, "oncompletion", scan.use)
      \/ p \in SelectConfirmed(r, rst)
  BY <1>1
<1> HIDE DEF scan
<1>5. Listed(r) /\ SameLists(t, r)
  BY <1>2, ConsiderRetryIs DEF Sound
<1> HIDE DEF r
<1>6. Sound(r) /\ Grown(s, r)
  BY <1>2, <1>5, SameIsSound, SameIsGrown, GrownTransitive
<1>7. CASE \E g \in scan.use : p = Picked(r, g, "oncompletion", scan.use)
  <2>1. PICK g \in scan.use : p = Picked(r, g, "oncompletion", scan.use)
    BY <1>7
  <2>2. p.gs = r /\ p.g = g /\ p.st = "oncompletion"
    BY <2>1 DEF Picked
  <2>3. g \in In(r.sample)
    BY <1>3, <1>5, <2>1 DEF SameLists
  <2> QED BY <1>6, <2>2, <2>3 DEF Selected, Grown
<1>8. CASE p \in SelectConfirmed(r, rst)
  <2>1. Selected(r, p)
    BY <1>6, <1>8, SelectConfirmedIs
  <2> QED BY <1>6, <2>1 DEF Selected, Grown
<1> QED BY <1>4, <1>7, <1>8

-----------------------------------------------------------------------------
(* The circuits.                                                            *)

Statuses == {"none", "oncompletion", "ifnobetter", "waiting", "complete", "dead"}

CircTypes ==
  circ \in [Circs -> [st : Statuses, g : Guards \cup {Gone},
                      rst : Restrictions \cup {{}}]]

\* A circuit's guard is sampled, as long as it has not been freed.
GuardIsSampled ==
  \A c \in Circs : circ[c].g # Gone => circ[c].g \in In(gs.sample)

\* The guard of a circuit that waits has been confirmed.
WaitsForBetter ==
  \A c \in Circs : circ[c].st = "waiting" /\ circ[c].g # Gone
                   => circ[c].g \in Confirmed(gs)

\* The state file can be loaded.
SavedIsSound ==
  /\ saved.sample \in Seq(Guards) /\ saved.conf \in Seq(Guards)
  /\ Distinct(saved.sample) /\ In(saved.conf) \subseteq In(saved.sample)

GuardInv ==
  /\ Sound(gs) /\ listed \subseteq Guards
  /\ CircTypes /\ GuardIsSampled /\ WaitsForBetter /\ PendingIsTried
  /\ SavedIsSound

\* A sound selection has the properties of the guards' lists.
LEMMA GuardSuffices ==
  ASSUME GuardInv
  PROVE  FlagsAgree /\ PrimaryIsBest /\ PendingIsTried
BY DEF GuardInv, Sound, Listed, InOrder, FlagsAgree, PrimaryIsBest

\* What a circuit has, whichever it is.
LEMMA CircFacts ==
  ASSUME GuardInv, NEW c \in Circs
  PROVE  /\ circ[c] \in [st : Statuses, g : Guards \cup {Gone},
                         rst : Restrictions \cup {{}}]
         /\ circ[c].g \in Guards \cup {Gone}
BY DEF GuardInv, CircTypes

\* Steps that leave the circuits alone and only let the selection grow.
LEMMA GrowthKeeps ==
  ASSUME GuardInv, Sound(gs'), Grown(gs, gs'), listed' \subseteq Guards,
         UNCHANGED <<circ, saved>>
  PROVE  GuardInv'
<1>1. /\ In(gs.sample) \subseteq In(gs'.sample) /\ gs'.conf = gs.conf
      /\ gs'.pend = gs.pend /\ circ' = circ /\ saved' = saved
  BY DEF Grown
<1>2. CircTypes' /\ GuardIsSampled' /\ WaitsForBetter' /\ PendingIsTried'
  BY <1>1 DEF GuardInv, CircTypes, GuardIsSampled, WaitsForBetter, PendingIsTried,
     Confirmed
<1>3. SavedIsSound'
  BY <1>1 DEF GuardInv, SavedIsSound
<1> QED BY <1>2, <1>3 DEF GuardInv

\* entry_guard_pick_for_circuit
LEMMA PickGuardKeeps ==
  ASSUME GuardAssumption, GuardInv, NEW c \in Circs, NEW rst \in Restrictions,
         PickGuard(c, rst)
  PROVE  GuardInv'
<1>1. PICK p \in Select(gs, rst) :
        /\ gs' = p.gs
        /\ circ' = IF p.g = Gone THEN circ
                   ELSE [circ EXCEPT ![c] = [st |-> p.st, g |-> p.g, rst |-> rst]]
  BY DEF PickGuard
<1>2. circ[c].st = "none" /\ listed' = listed /\ saved' = saved
  BY DEF PickGuard
<1>3. Selected(gs, p)
  BY SelectIs DEF GuardInv
<1>4. Sound(gs') /\ In(gs.sample) \subseteq In(gs'.sample) /\ gs'.conf = gs.conf
  BY <1>1, <1>3 DEF Selected
<1>5. CASE p.g = Gone
  <2>1. gs'.pend = gs.pend
    <3>1. Gone \notin In(gs'.sample)
      BY <1>4, InGuards DEF Sound, Listed, Selections, Gone, GuardAssumption
    <3> QED BY <1>1, <1>3, <1>5, <3>1 DEF Selected
  <2> QED BY <1>1, <1>2, <1>4, <1>5, <2>1, GrowthKeeps DEF Grown, GuardInv
<1>6. CASE p.g # Gone
  <2> DEFINE k == [st |-> p.st, g |-> p.g, rst |-> rst]
  <2>1. /\ p.g \in In(gs'.sample) /\ p.st \in {"oncompletion", "ifnobetter"}
        /\ \/ gs'.pend = gs.pend
           \/ p.st = "ifnobetter" /\ gs'.pend = gs.pend \cup {p.g}
    BY <1>1, <1>3, <1>6 DEF Selected
  <2>2. p.g \in Guards
    BY <1>4, <2>1, InGuards DEF Sound, Listed, Selections
  <2>3. k \in [st : Statuses, g : Guards \cup {Gone}, rst : Restrictions \cup {{}}]
    BY <2>1, <2>2 DEF Statuses
  <2>4. k.st = p.st /\ k.g = p.g
    OBVIOUS
  <2>5. circ' = [circ EXCEPT ![c] = k]
    BY <1>1, <1>6
  <2> HIDE DEF k
  <2>6. /\ CircTypes' /\ circ'[c] = k
        /\ \A d \in Circs : d # c => circ'[d] = circ[d]
    BY <2>3, <2>5 DEF GuardInv, CircTypes
  <2>7. GuardIsSampled'
    BY <1>4, <2>1, <2>4, <2>6 DEF GuardInv, GuardIsSampled
  <2>8. WaitsForBetter'
    BY <1>4, <2>1, <2>4, <2>6 DEF GuardInv, WaitsForBetter, Confirmed
  <2>9. PendingIsTried'
    <3> SUFFICES ASSUME NEW g \in gs'.pend
                 PROVE  \E d \in Circs : circ'[d].st = "ifnobetter" /\ circ'[d].g = g
      BY DEF PendingIsTried
    <3>1. CASE g \in gs.pend
      <4>1. PICK d \in Circs : circ[d].st = "ifnobetter" /\ circ[d].g = g
        BY <3>1 DEF GuardInv, PendingIsTried
      <4>2. d # c
        BY <1>2, <4>1
      <4> QED BY <2>6, <4>1, <4>2
    <3>2. CASE g \notin gs.pend
      <4>1. p.st = "ifnobetter" /\ g = p.g
        BY <2>1, <3>2
      <4> QED BY <2>4, <2>6, <4>1
    <3> QED BY <3>1, <3>2
  <2>10. SavedIsSound' /\ listed' \subseteq Guards
    BY <1>2 DEF GuardInv, SavedIsSound
  <2> QED BY <1>4, <2>6, <2>7, <2>8, <2>9, <2>10 DEF GuardInv
<1> QED BY <1>5, <1>6

\* make_guard_confirmed, of a sampled guard.
LEMMA ConfirmIs ==
  ASSUME GuardAssumption, listed \subseteq Guards, NEW s, Sound(s),
         NEW g \in In(s.sample), NEW v \in Confirm(s, g)
  PROVE  /\ Sound(v) /\ In(s.sample) \subseteq In(v.sample) /\ v.pend = s.pend
         /\ Confirmed(s) \subseteq Confirmed(v) /\ g \in Confirmed(v)
<1>0. /\ s \in Selections /\ s.conf \in Seq(Guards) /\ s.sample \in Seq(Guards)
      /\ In(s.conf) \subseteq In(s.sample)
  BY DEF Sound, Listed, Selections
<1>1. CASE g \in Confirmed(s)
  <2>1. v = s
    BY <1>1 DEF Confirm
  <2> QED BY <1>1, <2>1
<1>2. CASE g \notin Confirmed(s)
  <2> DEFINE cf == Append(s.conf, g)
             t == [s EXCEPT !.conf = cf, !.utd = FALSE]
  <2>1. v \in UpToDate(t)
    BY <1>2 DEF Confirm
  <2>2. g \in Guards
    BY <1>0, InGuards
  <2>3. cf = s.conf \o <<g>> /\ <<g>> \in Seq(Guards) /\ In(<<g>>) = {g}
    BY <1>0, <2>2 DEF In
  <2>4. cf \in Seq(Guards) /\ In(cf) = In(s.conf) \cup {g}
    <3> DEFINE one == <<g>>
    <3>0. one \in Seq(Guards) /\ In(one) = {g} /\ cf = s.conf \o one
      BY <2>3
    <3> HIDE DEF one, cf
    <3> QED BY <1>0, <3>0, Joined
  <2> HIDE DEF cf
  <2>5. /\ t \in Selections /\ t.sample = s.sample /\ t.conf = cf
        /\ t.prim = s.prim /\ t.flag = s.flag /\ t.filt = s.filt
        /\ t.usable = s.usable /\ t.pend = s.pend /\ t.reach = s.reach
        /\ t.utd = FALSE
    BY <1>0, <2>4 DEF Selections
  <2> HIDE DEF t
  <2>6. In(t.conf) \subseteq In(t.sample)
    BY <1>0, <2>4, <2>5
  <2>7. Sound(t)
    BY <2>5, <2>6 DEF Sound, Listed
  <2>8. Sound(v) /\ Grown(t, v)
    BY <2>1, <2>7, UpToDateIs
  <2> QED BY <2>4, <2>5, <2>8 DEF Grown, Confirmed
<1> QED BY <1>1, <1>2

\* A guard's reachability, and what is pending, may change without harm to the
\* lists.
LEMMA MarkedIsSound ==
  ASSUME NEW s, Sound(s), NEW t \in Selections, t.sample = s.sample,
         t.conf = s.conf, t.prim = s.prim, t.flag = s.flag, t.filt = s.filt,
         t.utd = s.utd, t.usable = {g \in t.filt : t.reach[g] # "no"},
         \A g \in Guards : g \notin In(t.sample) => t.reach[g] # "no"
  PROVE  Sound(t)
<1>1. t.utd => InOrder(t)
  BY SameOrder DEF Sound, Listed
<1> QED BY <1>1 DEF Sound, Listed

\* entry_guard_succeeded, when the last hop of a circuit is there.
LEMMA BuiltKeeps ==
  ASSUME GuardAssumption, GuardInv, NEW c \in Circs, Built(c)
  PROVE  GuardInv'
<1> DEFINE g == circ[c].g
           re == [gs.reach EXCEPT ![g] = "yes"]
           pd == gs.pend \ {g}
           us == gs.usable \cup ({g} \cap gs.filt)
           up == [gs EXCEPT !.reach = re, !.pend = pd, !.usable = us]
<1>0. /\ circ[c].st \in {"oncompletion", "ifnobetter"} /\ g # Gone
      /\ listed' = listed /\ saved' = saved
  BY DEF Built
<1>1. PICK s \in Confirm(up, g) :
        /\ circ' = [circ EXCEPT ![c].st =
                      IF @ = "oncompletion" \/ g \in s.flag THEN "complete"
                      ELSE "waiting"]
        /\ \/ gs' = s
           \/ \E t \in UpToDate(s) : gs' = MarkMaybe(t, In(t.prim))
  BY DEF Built
<1>2. /\ gs \in Selections /\ gs.reach \in [Guards -> {"maybe", "yes", "no"}]
      /\ gs.usable = {h \in gs.filt : gs.reach[h] # "no"}
      /\ gs.filt \subseteq Guards /\ gs.pend \subseteq Guards
      /\ \A h \in Guards : h \notin In(gs.sample) => gs.reach[h] # "no"
  BY DEF GuardInv, Sound, Listed, Selections
<1>3. g \in In(gs.sample) /\ g \in Guards
  BY <1>0, CircFacts DEF GuardInv, GuardIsSampled
<1>4. /\ re \in [Guards -> {"maybe", "yes", "no"}] /\ pd \in SUBSET Guards
      /\ us \in SUBSET Guards
      /\ \A h \in Guards : re[h] # "no" <=> h = g \/ gs.reach[h] # "no"
  BY <1>2, <1>3
<1>5. us = {h \in gs.filt : re[h] # "no"}
  BY <1>2, <1>4
<1> HIDE DEF re, pd, us
<1>6. /\ up \in Selections /\ up.sample = gs.sample /\ up.conf = gs.conf
      /\ up.prim = gs.prim /\ up.flag = gs.flag /\ up.filt = gs.filt
      /\ up.usable = us /\ up.pend = pd /\ up.reach = re /\ up.utd = gs.utd
  BY <1>2, <1>4 DEF Selections
<1> HIDE DEF up
<1>7. Sound(up)
  BY <1>2, <1>4, <1>5, <1>6, MarkedIsSound DEF GuardInv
<1>8. /\ Sound(s) /\ In(up.sample) \subseteq In(s.sample) /\ s.pend = pd
      /\ Confirmed(up) \subseteq Confirmed(s) /\ g \in Confirmed(s)
  BY <1>1, <1>3, <1>6, <1>7, ConfirmIs DEF GuardInv
<1>9. Sound(gs') /\ Grown(s, gs')
  <2>1. CASE gs' = s
    BY <1>8, <2>1 DEF Grown
  <2>2. CASE \E t \in UpToDate(s) : gs' = MarkMaybe(t, In(t.prim))
    <3>1. PICK t \in UpToDate(s) : gs' = MarkMaybe(t, In(t.prim))
      BY <2>2
    <3>2. Sound(t) /\ Grown(s, t)
      BY <1>8, UpToDateIs DEF GuardInv
    <3>3. Listed(gs') /\ SameLists(t, gs')
      BY <3>1, <3>2, MarkMaybeIs DEF Sound
    <3> QED BY <3>2, <3>3, SameIsSound, SameIsGrown, GrownTransitive
  <2> QED BY <1>1, <2>1, <2>2
<1>10. /\ In(gs.sample) \subseteq In(gs'.sample) /\ gs'.pend = gs.pend \ {g}
       /\ Confirmed(gs) \subseteq Confirmed(gs') /\ g \in Confirmed(gs')
  BY <1>6, <1>8, <1>9 DEF Grown, Confirmed, pd
<1> DEFINE st == IF circ[c].st = "oncompletion" \/ g \in s.flag THEN "complete"
                 ELSE "waiting"
<1>11. circ' = [circ EXCEPT ![c].st = st] /\ st \in {"complete", "waiting"}
  BY <1>1
<1> HIDE DEF st
<1>12. /\ CircTypes' /\ circ'[c].st = st /\ circ'[c].g = circ[c].g
       /\ \A d \in Circs : d # c => circ'[d] = circ[d]
  BY <1>11 DEF GuardInv, CircTypes, Statuses
<1>13. GuardIsSampled'
  BY <1>10, <1>12 DEF GuardInv, GuardIsSampled
<1>14. WaitsForBetter'
  BY <1>10, <1>12 DEF GuardInv, WaitsForBetter
<1>15. PendingIsTried'
  <2> SUFFICES ASSUME NEW h \in gs'.pend
               PROVE  \E d \in Circs : circ'[d].st = "ifnobetter" /\ circ'[d].g = h
    BY DEF PendingIsTried
  <2>1. PICK d \in Circs : circ[d].st = "ifnobetter" /\ circ[d].g = h
    BY <1>10 DEF GuardInv, PendingIsTried
  <2>2. d # c
    BY <1>10, <2>1
  <2> QED BY <1>12, <2>1, <2>2
<1> QED BY <1>0, <1>9, <1>12, <1>13, <1>14, <1>15 DEF GuardInv, SavedIsSound

\* entry_guard_failed
LEMMA FailedKeeps ==
  ASSUME GuardAssumption, GuardInv, NEW S \in SUBSET Circs, Failed(S)
  PROVE  GuardInv'
<1>1. PICK g \in Guards :
        /\ \A c \in S : circ[c].g = g /\ circ[c].st \in {"oncompletion", "ifnobetter"}
        /\ gs' = [gs EXCEPT !.reach[g] = "no", !.usable = @ \ {g}, !.pend = @ \ {g}]
  BY DEF Failed
<1>0. /\ listed' = listed /\ saved' = saved /\ S # {}
      /\ circ' = [c \in Circs |-> IF c \in S THEN [circ[c] EXCEPT !.st = "dead"]
                                  ELSE circ[c]]
  BY DEF Failed
<1>2. /\ gs \in Selections /\ gs.reach \in [Guards -> {"maybe", "yes", "no"}]
      /\ gs.usable = {h \in gs.filt : gs.reach[h] # "no"}
      /\ gs.filt \subseteq Guards /\ gs.pend \subseteq Guards
      /\ \A h \in Guards : h \notin In(gs.sample) => gs.reach[h] # "no"
  BY DEF GuardInv, Sound, Listed, Selections
<1>3. g \in In(gs.sample)
  <2>1. PICK c \in S : TRUE
    BY <1>0
  <2>2. circ[c].g = g /\ g # Gone
    BY <1>1 DEF GuardAssumption, Gone
  <2> QED BY <2>1, <2>2 DEF GuardInv, GuardIsSampled
<1> DEFINE re == [gs.reach EXCEPT ![g] = "no"]
           pd == gs.pend \ {g}
           us == gs.usable \ {g}
           up == [gs EXCEPT !.reach = re, !.usable = us, !.pend = pd]
<1>4. /\ re \in [Guards -> {"maybe", "yes", "no"}] /\ pd \in SUBSET Guards
      /\ us \in SUBSET Guards
      /\ \A h \in Guards : re[h] # "no" <=> h # g /\ gs.reach[h] # "no"
  BY <1>2
<1>5. us = {h \in gs.filt : re[h] # "no"}
  BY <1>2, <1>4
<1>5a. gs' = up
  BY <1>1
<1> HIDE DEF re, pd, us
<1>6. /\ up \in Selections /\ up.sample = gs.sample /\ up.conf = gs.conf
      /\ up.prim = gs.prim /\ up.flag = gs.flag /\ up.filt = gs.filt
      /\ up.usable = us /\ up.pend = pd /\ up.reach = re /\ up.utd = gs.utd
  BY <1>2, <1>4 DEF Selections
<1> HIDE DEF up
<1>7. Sound(gs')
  BY <1>2, <1>3, <1>4, <1>5, <1>5a, <1>6, MarkedIsSound DEF GuardInv
<1>8. gs'.sample = gs.sample /\ gs'.conf = gs.conf /\ gs'.pend = gs.pend \ {g}
  BY <1>5a, <1>6 DEF pd
<1>9. \A c \in Circs : /\ circ'[c].g = circ[c].g
                       /\ c \notin S => circ'[c] = circ[c]
                       /\ c \in S => circ'[c].st = "dead"
  BY <1>0 DEF GuardInv, CircTypes
<1>10. CircTypes'
  BY <1>0 DEF GuardInv, CircTypes, Statuses
<1>11. GuardIsSampled' /\ WaitsForBetter'
  BY <1>8, <1>9 DEF GuardInv, GuardIsSampled, WaitsForBetter, Confirmed
<1>12. PendingIsTried'
  <2> SUFFICES ASSUME NEW h \in gs'.pend
               PROVE  \E d \in Circs : circ'[d].st = "ifnobetter" /\ circ'[d].g = h
    BY DEF PendingIsTried
  <2>1. PICK d \in Circs : circ[d].st = "ifnobetter" /\ circ[d].g = h
    BY <1>8 DEF GuardInv, PendingIsTried
  <2>2. d \notin S
    BY <1>1, <1>8, <2>1
  <2> QED BY <1>9, <2>1, <2>2
<1> QED BY <1>0, <1>7, <1>10, <1>11, <1>12 DEF GuardInv, SavedIsSound

\* A circuit is freed: entry_guard_cancel
LEMMA CloseKeeps ==
  ASSUME GuardAssumption, GuardInv, NEW c \in Circs, Close(c)
  PROVE  GuardInv'
<1> DEFINE pd == gs.pend \ {circ[c].g}
           up == [gs EXCEPT !.pend = pd]
<1>0. /\ listed' = listed /\ saved' = saved /\ circ' = [circ EXCEPT ![c] = NoCirc]
      /\ gs' = up
  BY DEF Close, Cancel
<1>2. /\ gs \in Selections /\ gs.usable = {h \in gs.filt : gs.reach[h] # "no"}
      /\ pd \in SUBSET Guards
      /\ \A h \in Guards : h \notin In(gs.sample) => gs.reach[h] # "no"
  BY DEF GuardInv, Sound, Listed, Selections
<1> HIDE DEF pd
<1>6. /\ up \in Selections /\ up.sample = gs.sample /\ up.conf = gs.conf
      /\ up.prim = gs.prim /\ up.flag = gs.flag /\ up.filt = gs.filt
      /\ up.usable = gs.usable /\ up.pend = pd /\ up.reach = gs.reach
      /\ up.utd = gs.utd
  BY <1>2 DEF Selections
<1> HIDE DEF up
<1>7. Sound(gs')
  BY <1>0, <1>2, <1>6, MarkedIsSound DEF GuardInv
<1>8. gs'.sample = gs.sample /\ gs'.conf = gs.conf /\ gs'.pend = gs.pend \ {circ[c].g}
  BY <1>0, <1>6 DEF pd
<1>9. /\ NoCirc \in [st : Statuses, g : Guards \cup {Gone}, rst : Restrictions \cup {{}}]
      /\ NoCirc.g = Gone
  BY DEF NoCirc, Statuses
<1>10. /\ CircTypes' /\ circ'[c] = NoCirc
       /\ \A d \in Circs : d # c => circ'[d] = circ[d]
  BY <1>0, <1>9 DEF GuardInv, CircTypes
<1>11. GuardIsSampled' /\ WaitsForBetter'
  BY <1>8, <1>9, <1>10 DEF GuardInv, GuardIsSampled, WaitsForBetter, Confirmed
<1>12. PendingIsTried'
  <2> SUFFICES ASSUME NEW h \in gs'.pend
               PROVE  \E d \in Circs : circ'[d].st = "ifnobetter" /\ circ'[d].g = h
    BY DEF PendingIsTried
  <2>1. PICK d \in Circs : circ[d].st = "ifnobetter" /\ circ[d].g = h
    BY <1>8 DEF GuardInv, PendingIsTried
  <2>2. d # c
    BY <1>8, <2>1
  <2> QED BY <1>10, <2>1, <2>2
<1> QED BY <1>0, <1>7, <1>10, <1>11, <1>12 DEF GuardInv, SavedIsSound

\* A new selection: nothing is filtered, primary or down yet.
LEMMA EmptyIs ==
  /\ Empty \in Selections /\ Empty.sample = <<>> /\ Empty.conf = <<>>
  /\ Empty.prim = <<>> /\ Empty.flag = {} /\ Empty.utd = FALSE
  /\ Empty.filt = {} /\ Empty.usable = {} /\ Empty.pend = {}
  /\ In(<<>>) = {} /\ \A g \in Guards : Empty.reach[g] # "no"
<1> DEFINE re == [g \in Guards |-> "maybe"]
<1>1. /\ re \in [Guards -> {"maybe", "yes", "no"}]
      /\ \A g \in Guards : re[g] # "no"
  OBVIOUS
<1>2. Empty = [sample |-> <<>>, conf |-> <<>>, prim |-> <<>>, flag |-> {},
               utd |-> FALSE, filt |-> {}, usable |-> {}, pend |-> {}, reach |-> re]
  BY DEF Empty
<1> HIDE DEF re
<1>3. /\ Empty.sample = <<>> /\ Empty.conf = <<>> /\ Empty.prim = <<>>
      /\ Empty.flag = {} /\ Empty.utd = FALSE /\ Empty.filt = {}
      /\ Empty.usable = {} /\ Empty.pend = {} /\ Empty.reach = re
  BY <1>2
<1>4. Empty \in Selections
  BY <1>1, <1>2 DEF Selections
<1>5. In(<<>>) = {}
  BY DEF In
<1> QED BY <1>1, <1>3, <1>4, <1>5

\* A selection with the lists of a state file is sound.
LEMMA LoadedIsSound ==
  ASSUME NEW t \in Selections, Distinct(t.sample), In(t.conf) \subseteq In(t.sample),
         t.prim = <<>>, t.flag = {}, t.utd = FALSE, t.filt = {}, t.usable = {},
         t.reach = Empty.reach
  PROVE  Sound(t)
<1>1. In(t.prim) = {}
  BY EmptyIs
<1>2. \A g \in Guards : t.reach[g] # "no"
  BY EmptyIs
<1>3. t.usable = {g \in t.filt : t.reach[g] # "no"} /\ t.filt \subseteq In(t.sample)
  OBVIOUS
<1> QED BY <1>1, <1>2, <1>3 DEF Sound, Listed

\* entry_guards_load_guards_from_state
LEMMA RestartKeeps ==
  ASSUME GuardAssumption, GuardInv, Restart
  PROVE  GuardInv'
<1> DEFINE t == [Empty EXCEPT !.sample = saved.sample, !.conf = saved.conf]
           ch == FALSE
<1>0. /\ listed' = listed /\ saved' = saved /\ circ' = [c \in Circs |-> NoCirc]
      /\ gs' \in UpdateAll(t, {}, ch, listed, listed \cap allowed)
      /\ listed \in SUBSET Guards /\ {} \in SUBSET Guards
  BY DEF Restart, GuardInv
<1>1. Sound(t) /\ t.pend = {}
  <2>1. /\ t \in Selections /\ t.sample = saved.sample /\ t.conf = saved.conf
        /\ t.prim = <<>> /\ t.flag = {} /\ t.utd = FALSE /\ t.filt = {}
        /\ t.usable = {} /\ t.pend = {} /\ t.reach = Empty.reach
    BY EmptyIs DEF GuardInv, SavedIsSound, Selections
  <2> HIDE DEF t
  <2>2. Distinct(t.sample) /\ In(t.conf) \subseteq In(t.sample)
    BY <2>1 DEF GuardInv, SavedIsSound
  <2> QED BY <2>1, <2>2, LoadedIsSound
<1> HIDE DEF t, ch
<1>2. Sound(gs') /\ gs'.pend = t.pend \ {}
  <2>1. Updated(t, {}, gs')
    BY <1>0, <1>1, UpdateAllIs
  <2> QED BY <2>1 DEF Updated
<1>3. /\ NoCirc \in [st : Statuses, g : Guards \cup {Gone}, rst : Restrictions \cup {{}}]
      /\ NoCirc.g = Gone
  BY DEF NoCirc, Statuses
<1>4. CircTypes' /\ GuardIsSampled' /\ WaitsForBetter'
  BY <1>0, <1>3 DEF CircTypes, GuardIsSampled, WaitsForBetter
<1>5. PendingIsTried'
  BY <1>1, <1>2 DEF PendingIsTried
<1> QED BY <1>0, <1>2, <1>4, <1>5 DEF GuardInv, SavedIsSound

\* A new consensus, with R obsolete.
LEMMA NewConsensusKeeps ==
  ASSUME GuardAssumption, GuardInv, NEW g \in Guards, NEW R \in SUBSET Guards,
         NewConsensus(g, R)
  PROVE  GuardInv'
<1> DEFINE now == IF g \in listed THEN listed \ {g} ELSE listed \cup {g}
           ch == g \in In(gs.sample)
<1>0. /\ listed' = now /\ saved' = saved
      /\ gs' \in UpdateAll(gs, R, ch, now, now \cap allowed)
      /\ circ' = [c \in Circs |-> IF circ[c].g \in R
                                  THEN [circ[c] EXCEPT !.g = Gone] ELSE circ[c]]
  BY DEF NewConsensus
<1>1. now \in SUBSET Guards /\ Sound(gs)
  BY DEF GuardInv
<1> HIDE DEF now, ch
<1>2. /\ Sound(gs') /\ In(gs.sample) \ R \subseteq In(gs'.sample)
      /\ Confirmed(gs) \ R = Confirmed(gs') /\ gs'.pend = gs.pend \ R
  <2>1. Updated(gs, R, gs')
    BY <1>0, <1>1, UpdateAllIs
  <2> QED BY <2>1 DEF Updated
<1>3. \A c \in Circs : /\ circ'[c].st = circ[c].st
                       /\ circ[c].g \in R => circ'[c].g = Gone
                       /\ circ[c].g \notin R => circ'[c] = circ[c]
  BY <1>0 DEF GuardInv, CircTypes
<1>4. CircTypes'
  BY <1>0 DEF GuardInv, CircTypes
<1>5. GuardIsSampled' /\ WaitsForBetter'
  BY <1>2, <1>3 DEF GuardInv, GuardIsSampled, WaitsForBetter
<1>6. PendingIsTried'
  BY <1>2, <1>3 DEF GuardInv, PendingIsTried
<1> QED BY <1>0, <1>1, <1>2, <1>4, <1>5, <1>6 DEF GuardInv, SavedIsSound

\* options_act, when the filter changes.
LEMMA NewOptionsKeeps ==
  ASSUME GuardAssumption, GuardInv, NEW g \in Guards, NewOptions(g)
  PROVE  GuardInv'
<1> DEFINE now == IF g \in allowed THEN allowed \ {g} ELSE allowed \cup {g}
           ch == FALSE
<1>0. /\ listed' = listed /\ saved' = saved /\ circ' = circ
      /\ gs' \in UpdateAll(gs, {}, ch, listed, listed \cap now)
      /\ listed \in SUBSET Guards /\ {} \in SUBSET Guards /\ Sound(gs)
  BY DEF NewOptions, GuardInv
<1> HIDE DEF now, ch
<1>2. /\ Sound(gs') /\ In(gs.sample) \ {} \subseteq In(gs'.sample)
      /\ Confirmed(gs) \ {} = Confirmed(gs') /\ gs'.pend = gs.pend \ {}
  <2>1. Updated(gs, {}, gs')
    BY <1>0, UpdateAllIs
  <2> QED BY <2>1 DEF Updated
<1>3. CircTypes' /\ GuardIsSampled' /\ WaitsForBetter' /\ PendingIsTried'
  BY <1>0, <1>2 DEF GuardInv, CircTypes, GuardIsSampled, WaitsForBetter,
     PendingIsTried
<1> QED BY <1>0, <1>2, <1>3 DEF GuardInv, SavedIsSound

\* guards_retry_optimistic, time and the state file.
LEMMA OthersKeep ==
  ASSUME GuardAssumption, GuardInv,
         RetryOptimistic \/ Time \/ Save \/ UNCHANGED vars
  PROVE  GuardInv'
<1>1. CASE RetryOptimistic
  <2>1. PICK t \in UpToDate(gs) : gs' = MarkMaybe(t, In(t.prim))
    BY <1>1 DEF RetryOptimistic
  <2>2. Sound(t) /\ Grown(gs, t)
    BY UpToDateIs DEF GuardInv
  <2>3. Listed(gs') /\ SameLists(t, gs')
    BY <2>1, <2>2, MarkMaybeIs DEF Sound
  <2>4. Sound(gs') /\ Grown(gs, gs')
    BY <2>2, <2>3, SameIsSound, SameIsGrown, GrownTransitive
  <2>5. UNCHANGED <<circ, saved>> /\ listed' \subseteq Guards
    BY <1>1 DEF RetryOptimistic, GuardInv
  <2> QED BY <2>4, <2>5, GrowthKeeps
<1>2. CASE Time \/ UNCHANGED vars
  <2>1. gs' = gs /\ listed' = listed /\ UNCHANGED <<circ, saved>>
    BY <1>2 DEF Time, vars
  <2>2. Sound(gs') /\ Grown(gs, gs') /\ listed' \subseteq Guards
    BY <2>1 DEF GuardInv, Grown
  <2> QED BY <2>1, <2>2, GrowthKeeps
<1>3. CASE Save
  <2>1. /\ gs' = gs /\ circ' = circ /\ listed' = listed
        /\ saved'.sample = gs.sample /\ saved'.conf = gs.conf
    BY <1>3 DEF Save
  <2>2. SavedIsSound'
    BY <2>1 DEF GuardInv, SavedIsSound, Sound, Listed, Selections
  <2>3. CircTypes' /\ GuardIsSampled' /\ WaitsForBetter' /\ PendingIsTried'
    BY <2>1 DEF GuardInv, CircTypes, GuardIsSampled, WaitsForBetter, PendingIsTried
  <2> QED BY <2>1, <2>2, <2>3 DEF GuardInv
<1> QED BY <1>1, <1>2, <1>3

-----------------------------------------------------------------------------
(* entry_guards_upgrade_waiting_circuits.                                   *)

\* How entry_guards_upgrade_waiting_circuits may leave the circuits: as they
\* were, or with the waiting ones that share the best one's fate complete.
LEMMA UpgradeIs ==
  ASSUME GuardAssumption, GuardInv, Upgrade
  PROVE  /\ Sound(gs') /\ Grown(gs, gs') /\ listed' = listed /\ saved' = saved
         /\ \/ circ' = circ
            \/ \E b \in Waiting :
                 /\ Best(gs', b) /\ ~Blocked(gs', b)
                 /\ circ' = [c \in Circs |->
                               IF c \in Upgraded(gs', b)
                               THEN [circ[c] EXCEPT !.st = "complete"]
                               ELSE circ[c]]
<1>0. listed' = listed /\ saved' = saved
  BY DEF Upgrade
<1>1. PICK t \in UpToDate(gs) :
        LET s == ConsiderRetry(t, In(t.prim)) IN
        /\ gs' = s
        /\ \/ circ' = circ
           \/ \E b \in Waiting :
                /\ Best(s, b) /\ ~Blocked(s, b)
                /\ circ' = [c \in Circs |->
                              IF c \in Upgraded(s, b)
                              THEN [circ[c] EXCEPT !.st = "complete"]
                              ELSE circ[c]]
  BY DEF Upgrade
<1>2. Sound(t) /\ Grown(gs, t)
  BY UpToDateIs DEF GuardInv
<1>3. Listed(gs') /\ SameLists(t, gs')
  BY <1>1, <1>2, ConsiderRetryIs DEF Sound
<1>4. Sound(gs') /\ Grown(gs, gs')
  BY <1>2, <1>3, SameIsSound, SameIsGrown, GrownTransitive
<1>5. \/ circ' = circ
      \/ \E b \in Waiting :
           /\ Best(gs', b) /\ ~Blocked(gs', b)
           /\ circ' = [c \in Circs |->
                         IF c \in Upgraded(gs', b)
                         THEN [circ[c] EXCEPT !.st = "complete"]
                         ELSE circ[c]]
  BY <1>1
<1> QED BY <1>0, <1>4, <1>5

\* The upgrade keeps what holds of the lists and of the circuits.
LEMMA UpgradeKeeps ==
  ASSUME GuardAssumption, GuardInv, Upgrade
  PROVE  GuardInv'
<1>1. CASE circ' = circ
  BY <1>1, UpgradeIs, GrowthKeeps DEF GuardInv
<1>2. CASE circ' # circ
  <2>1. PICK b \in Waiting :
          circ' = [c \in Circs |-> IF c \in Upgraded(gs', b)
                                   THEN [circ[c] EXCEPT !.st = "complete"]
                                   ELSE circ[c]]
    BY <1>2, UpgradeIs
  <2>2. CircTypes'
    BY <2>1 DEF GuardInv, CircTypes, Statuses
  <2>3. \A c \in Circs : /\ circ'[c].g = circ[c].g
                         /\ c \notin Waiting => circ'[c] = circ[c]
                         /\ circ'[c] = circ[c] \/ circ'[c].st = "complete"
    BY <2>1 DEF GuardInv, CircTypes, Upgraded
  <2>4. /\ Sound(gs') /\ listed' = listed /\ saved' = saved
        /\ In(gs.sample) \subseteq In(gs'.sample) /\ gs'.conf = gs.conf
        /\ gs'.pend = gs.pend
    BY UpgradeIs DEF Grown
  <2>5. GuardIsSampled'
    BY <2>3, <2>4 DEF GuardInv, GuardIsSampled
  <2>6. WaitsForBetter'
    BY <2>3, <2>4 DEF GuardInv, WaitsForBetter, Confirmed
  <2>7. PendingIsTried'
    <3> SUFFICES ASSUME NEW g \in gs'.pend
                 PROVE  \E d \in Circs : circ'[d].st = "ifnobetter" /\ circ'[d].g = g
      BY DEF PendingIsTried
    <3>1. PICK d \in Circs : circ[d].st = "ifnobetter" /\ circ[d].g = g
      BY <2>4 DEF GuardInv, PendingIsTried
    <3>2. d \notin Waiting
      BY <3>1 DEF Waiting
    <3> QED BY <2>3, <3>1, <3>2
  <2>8. SavedIsSound' /\ listed' \subseteq Guards
    BY <2>4 DEF GuardInv, SavedIsSound
  <2> QED BY <2>2, <2>4, <2>5, <2>6, <2>7, <2>8 DEF GuardInv
<1> QED BY <1>1, <1>2

\* Where a guard was confirmed.
Pos(q, g) == CHOOSE i \in DOMAIN q : q[i] = g

\* A confirmed guard has a confirmed_idx, and priority goes by it.
LEMMA HigherIs ==
  ASSUME NEW s, s.conf \in Seq(Guards), NEW a, NEW b
  PROVE  /\ Higher(s, a, b) <=> /\ a # b /\ a \in Confirmed(s)
                                /\ Pos(s.conf, a) < Pos(s.conf, b)
         /\ a \in Confirmed(s) => Pos(s.conf, a) \in Nat
<1> DEFINE q == s.conf
<1>1. DOMAIN q \subseteq Nat
  OBVIOUS
<1>2. a \in Confirmed(s) => Pos(q, a) \in DOMAIN q
  <2> SUFFICES ASSUME a \in Confirmed(s)
               PROVE  Pos(q, a) \in DOMAIN q
    OBVIOUS
  <2> HIDE DEF q
  <2>1. PICK i \in DOMAIN q : q[i] = a
    BY DEF Confirmed, In, q
  <2> QED BY <2>1 DEF Pos
<1>3. Higher(s, a, b) <=> a # b /\ a \in Confirmed(s) /\ Pos(q, a) < Pos(q, b)
  BY DEF Higher, Pos
<1> HIDE DEF q
<1>4. a \in Confirmed(s) => Pos(q, a) \in Nat
  BY <1>1, <1>2
<1> QED BY <1>3, <1>4 DEF q

\* A circuit is put to use by the upgrade only when those with better guards
\* are not in the way.
LEMMA UpgradeIsInOrder ==
  ASSUME GuardAssumption, GuardInv, Upgrade
  PROVE  UpgradesBest
<1> SUFFICES ASSUME NEW b \in Circs, NEW c \in Circs,
                    circ[b].st = "waiting", circ'[b].st = "complete",
                    Live(c), Higher(gs, circ[c].g, circ[b].g)
             PROVE  \/ circ[c].g \in circ[b].rst
                    \/ circ[c].st \in {"dead", "oncompletion", "none"}
                    \/ circ[c].st = "ifnobetter" /\ c \in late
  BY DEF UpgradesBest
<1>1. circ' # circ
  OBVIOUS
<1>2. PICK b0 \in Waiting :
        /\ Best(gs', b0) /\ ~Blocked(gs', b0)
        /\ circ' = [d \in Circs |-> IF d \in Upgraded(gs', b0)
                                    THEN [circ[d] EXCEPT !.st = "complete"]
                                    ELSE circ[d]]
  BY <1>1, UpgradeIs
<1>3. b \in Upgraded(gs', b0)
  BY <1>2
<1> DEFINE q == gs.conf
           pb == Pos(q, circ[b].g)
           pc == Pos(q, circ[c].g)
           p0 == Pos(q, circ[b0].g)
<1>4. gs'.conf = gs.conf /\ gs.conf \in Seq(Guards) /\ Confirmed(gs') = Confirmed(gs)
  BY UpgradeIs DEF Grown, GuardInv, Sound, Listed, Selections, Confirmed
<1>5. circ[b].g \in Confirmed(gs) /\ circ[b0].g \in Confirmed(gs)
  BY <1>3 DEF GuardInv, WaitsForBetter, Upgraded, Waiting, Live
<1>6. circ[c].g \in Confirmed(gs) /\ pc < pb
  BY <1>4, HigherIs
<1>7. pb \in Nat /\ pc \in Nat /\ p0 \in Nat
  BY <1>4, <1>5, <1>6, HigherIs
<1>8. ~(circ[b0].g # circ[b].g /\ p0 < pb)
  <2>1. ~Higher(gs', circ[b0].g, circ[b].g)
    BY <1>3 DEF Upgraded
  <2> QED BY <1>4, <1>5, <2>1, HigherIs
<1>9. pc < p0
  <2>1. circ[b0].g = circ[b].g => p0 = pb
    OBVIOUS
  <2> HIDE DEF p0, pb, pc
  <2> QED BY <1>6, <1>7, <1>8, <2>1
<1>10. circ[c].g # circ[b0].g
  <2>1. circ[c].g = circ[b0].g => pc = p0
    OBVIOUS
  <2> HIDE DEF p0, pb, pc
  <2> QED BY <1>7, <1>9, <2>1
<1>11. Higher(gs', circ[c].g, circ[b0].g)
  BY <1>4, <1>6, <1>9, <1>10, HigherIs
<1>12. c \notin Waiting
  BY <1>2, <1>11 DEF Best
<1>13. circ[c].st # "waiting"
  BY <1>12 DEF Waiting
<1>14. circ[c].st = "complete" \/ (circ[c].st = "ifnobetter" /\ c \notin late)
       => circ[c].g \in circ[b0].rst
  BY <1>2, <1>11 DEF Blocked, Blocks
<1>15. circ[c].g \in circ[b0].rst => circ[c].g \in circ[b].rst
  <2>1. b = b0 \/ circ[b0].rst = {}
    BY <1>3 DEF Upgraded
  <2> QED BY <2>1
<1>16. circ[c].st \in Statuses
  BY CircFacts
<1> QED BY <1>13, <1>14, <1>15, <1>16 DEF Statuses

-----------------------------------------------------------------------------
(* The theorems.                                                            *)

\* entry_guards_load_guards_from_state when there is no state file.
LEMMA GuardInitially ==
  ASSUME GuardAssumption, Init
  PROVE  GuardInv
<1>0. /\ listed = Guards /\ gs \in UpdatePrimary(Empty, Guards, Guards)
      /\ saved.sample = <<>> /\ saved.conf = <<>> /\ circ = [c \in Circs |-> NoCirc]
  BY DEF Init
<1>1. <<>> \in Seq(Guards) /\ Distinct(<<>>)
  BY DEF Distinct
<1>2. Sound(Empty)
  BY <1>1, EmptyIs, LoadedIsSound
<1>4. Sound(gs) /\ Grown(Empty, gs)
  <2>1. Guards \in SUBSET Guards
    OBVIOUS
  <2> QED BY <1>0, <1>2, <2>1, UpdatePrimaryIs
<1>5. gs.pend = {}
  BY <1>4, EmptyIs DEF Grown
<1>6. /\ NoCirc \in [st : Statuses, g : Guards \cup {Gone}, rst : Restrictions \cup {{}}]
      /\ NoCirc.g = Gone
  BY DEF NoCirc, Statuses
<1>7. CircTypes /\ GuardIsSampled /\ WaitsForBetter
  BY <1>0, <1>6 DEF CircTypes, GuardIsSampled, WaitsForBetter
<1>8. PendingIsTried
  BY <1>5 DEF PendingIsTried
<1>9. SavedIsSound
  BY <1>0, <1>1 DEF SavedIsSound
<1> QED BY <1>0, <1>4, <1>7, <1>8, <1>9 DEF GuardInv

\* Every step keeps the invariant.
LEMMA GuardStep ==
  ASSUME GuardAssumption, GuardInv, [Next]_vars
  PROVE  GuardInv'
<1>1. ASSUME NEW c \in Circs, NEW r \in Restrictions, PickGuard(c, r)
      PROVE  GuardInv'
  BY <1>1, PickGuardKeeps
<1>2. ASSUME NEW c \in Circs, Built(c) \/ Close(c)
      PROVE  GuardInv'
  BY <1>2, BuiltKeeps, CloseKeeps
<1>3. ASSUME NEW S \in SUBSET Circs, Failed(S)
      PROVE  GuardInv'
  BY <1>3, FailedKeeps
<1>4. ASSUME NEW g \in Guards, NewOptions(g)
      PROVE  GuardInv'
  BY <1>4, NewOptionsKeeps
<1>5. ASSUME NEW g \in Guards, NEW R \in SUBSET Guards, NewConsensus(g, R)
      PROVE  GuardInv'
  BY <1>5, NewConsensusKeeps
<1>6. CASE Upgrade
  BY <1>6, UpgradeKeeps
<1>7. CASE Restart
  BY <1>7, RestartKeeps
<1>8. CASE RetryOptimistic \/ Time \/ Save \/ UNCHANGED vars
  BY <1>8, OthersKeep
<1> QED BY <1>1, <1>2, <1>3, <1>4, <1>5, <1>6, <1>7, <1>8 DEF Next

\* Only the upgrade puts a waiting circuit to use.
LEMMA StepInOrder ==
  ASSUME GuardAssumption, GuardInv, [Next]_vars
  PROVE  [UpgradesBest]_vars
<1> DEFINE Stays(b) == circ[b].st = "waiting" => circ'[b].st # "complete"
<1>0. ASSUME \A b \in Circs : Stays(b)
      PROVE  UpgradesBest
  BY <1>0 DEF UpgradesBest
<1>1. ASSUME NEW c \in Circs, NEW r \in Restrictions, PickGuard(c, r)
      PROVE  UpgradesBest
  <2>1. \A b \in Circs : b # c => circ'[b] = circ[b]
    BY <1>1 DEF PickGuard, GuardInv, CircTypes
  <2>2. circ[c].st = "none"
    BY <1>1 DEF PickGuard
  <2> QED BY <1>0, <2>1, <2>2
<1>2. ASSUME NEW c \in Circs, Built(c) \/ Close(c)
      PROVE  UpgradesBest
  <2>1. \A b \in Circs : b # c => circ'[b] = circ[b]
    BY <1>2 DEF Built, Close, GuardInv, CircTypes
  <2>2. circ[c].st # "waiting" \/ circ'[c] = NoCirc
    BY <1>2 DEF Built, Close, GuardInv, CircTypes
  <2>3. NoCirc.st # "complete"
    BY DEF NoCirc
  <2> QED BY <1>0, <2>1, <2>2, <2>3
<1>3. ASSUME NEW S \in SUBSET Circs, Failed(S)
      PROVE  UpgradesBest
  <2>1. \A b \in Circs : circ'[b] = circ[b] \/ circ'[b].st = "dead"
    BY <1>3 DEF Failed, GuardInv, CircTypes
  <2> QED BY <1>0, <2>1
<1>4. ASSUME NEW g \in Guards, NewOptions(g)
      PROVE  UpgradesBest
  BY <1>0, <1>4 DEF NewOptions
<1>5. ASSUME NEW g \in Guards, NEW R \in SUBSET Guards, NewConsensus(g, R)
      PROVE  UpgradesBest
  <2>1. \A b \in Circs : circ'[b].st = circ[b].st
    BY <1>5 DEF NewConsensus, GuardInv, CircTypes
  <2> QED BY <1>0, <2>1
<1>6. CASE Upgrade
  BY <1>6, UpgradeIsInOrder
<1>7. CASE Restart
  <2>1. \A b \in Circs : circ'[b].st = "none"
    BY <1>7 DEF Restart, NoCirc
  <2> QED BY <1>0, <2>1
<1>8. CASE RetryOptimistic \/ Time \/ Save
  BY <1>0, <1>8 DEF RetryOptimistic, Time, Save
<1> QED BY <1>1, <1>2, <1>3, <1>4, <1>5, <1>6, <1>7, <1>8 DEF Next

\* The invariant holds in every state.
LEMMA GuardAlways ==
  ASSUME GuardAssumption
  PROVE  Spec => []GuardInv
<1>1. Init => GuardInv
  BY GuardInitially
<1>2. GuardInv /\ [Next]_vars => GuardInv'
  BY GuardStep
<1> QED BY <1>1, <1>2, PTL DEF Spec

\* is_primary and is_usable_filtered_guard agree with the lists and the
\* reachability of the guards, whatever was sampled, confirmed, filtered,
\* pruned or loaded in between.
THEOREM FlagsAlwaysAgree ==
  ASSUME GuardAssumption
  PROVE  Spec => []FlagsAgree
<1>1. GuardInv => FlagsAgree
  BY GuardSuffices
<1> QED BY <1>1, GuardAlways, PTL

\* A primary list that counts as up to date is one that
\* entry_guards_update_primary could have made.
THEOREM PrimaryAlwaysBest ==
  ASSUME GuardAssumption
  PROVE  Spec => []PrimaryIsBest
<1>1. GuardInv => PrimaryIsBest
  BY GuardSuffices
<1> QED BY <1>1, GuardAlways, PTL

\* is_pending is set only while a circuit tries the guard: every way for the
\* circuit to end clears it.
THEOREM PendingAlwaysTried ==
  ASSUME GuardAssumption
  PROVE  Spec => []PendingIsTried
<1>1. GuardInv => PendingIsTried
  BY GuardSuffices
<1> QED BY <1>1, GuardAlways, PTL

\* entry_guards_upgrade_waiting_circuits lets no circuit overtake one with a
\* better guard that is in use, waits or is still being built.
THEOREM UpgradesAlwaysInOrder ==
  ASSUME GuardAssumption
  PROVE  Spec => UpgradeInOrder
<1>1. GuardInv /\ [Next]_vars => [UpgradesBest]_vars
  BY StepInOrder
<1> QED BY <1>1, GuardAlways, PTL DEF Spec, UpgradeInOrder

-----------------------------------------------------------------------------
(* The conflux sets: their RTTs.                                            *)

\* What holds of the options and of the sets, whichever are linked.
PoolTypes ==
  /\ config \in Config /\ rtts \in [Sets -> LegRtts]
  /\ pool \in Seq(Sets) /\ Distinct(pool)
  /\ open \in [Sets -> Nat] /\ total \in [Sets -> Nat] /\ turn \in [Sets -> Nat]
  /\ counter \in Nat /\ attached \in Nat /\ links \in Nat /\ calm \in BOOLEAN

\* conflux_set_best_rtt is a number.
LEMMA BestRttIs ==
  ASSUME SelectAssumption, PoolTypes, NEW s \in Sets
  PROVE  BestRtt(s) \in Nat
<1> DEFINE M == rtts[s] \ {0}
<1>1. rtts[s] \subseteq 0 .. Unmeasured /\ Unmeasured \in Nat
  BY DEF SelectAssumption, PoolTypes
<1>2. M \in SUBSET Nat
  BY <1>1
<1> HIDE DEF M
<1>3. CASE M = {}
  BY <1>1, <1>3 DEF BestRtt, M
<1>4. CASE M # {}
  <2>1. \E k \in M : \A j \in M : k <= j
    BY <1>2, <1>4, LeastOf
  <2>2. (CHOOSE k \in M : \A j \in M : k <= j) \in M
    BY <2>1
  <2> QED BY <1>2, <1>4, <2>2 DEF BestRtt, M
<1> QED BY <1>3, <1>4

-----------------------------------------------------------------------------
(* The filters.                                                             *)

\* How many of the positions K come from i on.
RankFrom(K, i) == Cardinality({k \in K : k >= i})

\* A larger position is nearer to the end.
LEMMA RankFalls ==
  ASSUME NEW K, IsFiniteSet(K), K \subseteq Nat, NEW i \in K, NEW k \in K, i < k
  PROVE  RankFrom(K, k) < RankFrom(K, i)
<1> DEFINE A == {j \in K : j >= k}
           B == {j \in K : j >= i}
<1>0. k \in Nat /\ i \in Nat /\ ~(i >= k) /\ \A j \in Nat : j >= k => j >= i
  OBVIOUS
<1>1. A \subseteq B /\ i \in B /\ i \notin A
  <2>1. \A j \in K : j \in Nat
    OBVIOUS
  <2>2. A \subseteq B
    BY <1>0, <2>1
  <2>3. i \in B /\ i \notin A
    BY <1>0
  <2> QED BY <2>2, <2>3
<1>2. IsFiniteSet(B)
  BY FS_Subset
<1> HIDE DEF A, B
<1>3. Cardinality(A) <= Cardinality(B) /\ IsFiniteSet(A) /\ A # B
  BY <1>1, <1>2, FS_Subset
<1>4. Cardinality(A) # Cardinality(B)
  BY <1>1, <1>2, <1>3, FS_Subset
<1>5. Cardinality(A) \in Nat /\ Cardinality(B) \in Nat
  BY <1>2, <1>3, FS_CardinalityType
<1> QED BY <1>3, <1>4, <1>5 DEF RankFrom, A, B

\* The ranks from the end are 1 to the number of positions, each once.
LEMMA RanksFrom ==
  ASSUME NEW K, IsFiniteSet(K), K \subseteq Nat
  PROVE  /\ Cardinality(K) \in Nat
         /\ \A i \in K : RankFrom(K, i) \in 1 .. Cardinality(K)
         /\ \A n \in 1 .. Cardinality(K) : \E i \in K : RankFrom(K, i) = n
<1> DEFINE c == Cardinality(K)
           f == [i \in K |-> RankFrom(K, i)]
<1>1. c \in Nat
  BY FS_CardinalityType
<1>2. \A i \in K : RankFrom(K, i) \in 1 .. c
  <2> TAKE i \in K
  <2> DEFINE A == {j \in K : j >= i}
  <2>1. A \subseteq K /\ i \in A
    OBVIOUS
  <2> HIDE DEF A
  <2>2. IsFiniteSet(A) /\ Cardinality(A) <= c
    BY <2>1, FS_Subset
  <2>3. Cardinality(A) \in Nat /\ Cardinality(A) # 0
    BY <2>1, <2>2, FS_CardinalityType, FS_EmptySet
  <2> QED BY <1>1, <2>2, <2>3 DEF RankFrom, A
<1>3. f \in Injection(K, 1 .. c)
  <2>1. f \in [K -> 1 .. c]
    BY <1>2
  <2>2. \A i, k \in K : f[i] = f[k] => i = k
    <3> TAKE i, k \in K
    <3>1. i \in Nat /\ k \in Nat /\ RankFrom(K, i) \in Nat /\ RankFrom(K, k) \in Nat
      BY <1>1, <1>2
    <3>2. i < k => RankFrom(K, k) < RankFrom(K, i)
      BY RankFalls
    <3>3. k < i => RankFrom(K, i) < RankFrom(K, k)
      BY RankFalls
    <3> QED BY <3>1, <3>2, <3>3
  <2> QED BY <2>1, <2>2, Fun_IsInj
<1>4. IsFiniteSet(1 .. c) /\ Cardinality(1 .. c) = c
  BY <1>1, Numbered
<1>5. f \in Surjection(K, 1 .. c)
  <2> HIDE DEF f
  <2> QED BY <1>3, <1>4, FS_Injection
<1>6. \A n \in 1 .. c : \E i \in K : f[i] = n
  BY <1>5 DEF Surjection
<1> QED BY <1>1, <1>2, <1>6

-----------------------------------------------------------------------------
(* What a list is filled up with.                                           *)

\* The parts of a finite set inside and outside another add up to it.
LEMMA SplitCard ==
  ASSUME NEW A, NEW B, IsFiniteSet(A)
  PROVE  /\ IsFiniteSet(A \cap B) /\ IsFiniteSet(A \ B)
         /\ Cardinality(A \cap B) \in Nat /\ Cardinality(A \ B) \in Nat
         /\ Cardinality(A) = Cardinality(A \cap B) + Cardinality(A \ B)
<1> DEFINE X == A \cap B
           Y == A \ B
<1>1. IsFiniteSet(X) /\ IsFiniteSet(Y)
  <2>1. X \subseteq A /\ Y \subseteq A
    OBVIOUS
  <2> QED BY <2>1, FS_Subset
<1>2. X \cup Y = A /\ X \cap Y = {}
  OBVIOUS
<1> HIDE DEF X, Y
<1>3. Cardinality(X \cup Y) = Cardinality(X) + Cardinality(Y) - Cardinality(X \cap Y)
  BY <1>1, FS_Union
<1>4. Cardinality({}) = 0
  BY FS_EmptySet
<1>5. Cardinality(X) \in Nat /\ Cardinality(Y) \in Nat
  BY <1>1, FS_CardinalityType
<1>6. Cardinality(X \cup Y) = Cardinality(A) /\ Cardinality(X \cap Y) = 0
  BY <1>2, <1>4, Zenon
<1>7. Cardinality(A) = Cardinality(X) + Cardinality(Y)
  BY <1>3, <1>5, <1>6
<1> QED BY <1>1, <1>5, <1>7 DEF X, Y

\* The holes below the number of positions are as many as the positions above.
LEMMA Holes ==
  ASSUME NEW K, IsFiniteSet(K), K \subseteq Nat \ {0}, NEW k \in Nat, k = Cardinality(K)
  PROVE  /\ IsFiniteSet((1 .. k) \ K) /\ IsFiniteSet(K \ (1 .. k))
         /\ Cardinality((1 .. k) \ K) \in Nat
         /\ Cardinality((1 .. k) \ K) = Cardinality(K \ (1 .. k))
<1> DEFINE D == 1 .. k
<1>1. IsFiniteSet(D) /\ Cardinality(D) = k
  BY Numbered
<1> HIDE DEF D
<1>2. /\ IsFiniteSet(D \ K) /\ Cardinality(D \ K) \in Nat
      /\ Cardinality(D \cap K) \in Nat
      /\ Cardinality(D) = Cardinality(D \cap K) + Cardinality(D \ K)
  BY <1>1, SplitCard
<1>3. /\ IsFiniteSet(K \ D) /\ Cardinality(K \ D) \in Nat
      /\ Cardinality(K) = Cardinality(K \cap D) + Cardinality(K \ D)
  BY SplitCard
<1>4. Cardinality(D \cap K) = Cardinality(K \cap D)
  <2>1. D \cap K = K \cap D
    OBVIOUS
  <2> QED BY <2>1, Zenon
<1>5. Cardinality(D \ K) = Cardinality(K \ D)
  <2> DEFINE a == Cardinality(D \ K)
             b == Cardinality(K \ D)
             x == Cardinality(D \cap K)
  <2>1. a \in Nat /\ b \in Nat /\ x \in Nat /\ k = x + a /\ k = x + b
    BY <1>1, <1>2, <1>3, <1>4, Zenon
  <2> HIDE DEF a, b, x
  <2>2. a = b
    BY <2>1
  <2> QED BY <2>2 DEF a, b
<1> QED BY <1>2, <1>3, <1>5 DEF D

\* The hole at i is filled from the positions above.
Hole(K, i) == Cardinality((1 .. i) \ K)
Filler(K, n) == CHOOSE j \in K : RankFrom(K, j) = n
Source(K, i) == IF i \in K THEN i ELSE Filler(K, Hole(K, i))

\* A hole's number is its rank among the holes,
LEMMA HoleIs ==
  ASSUME NEW K, IsFiniteSet(K), K \subseteq Nat \ {0}, NEW k \in Nat, k = Cardinality(K),
         NEW i \in (1 .. k) \ K
  PROVE  /\ Hole(K, i) = RankIn((1 .. k) \ K, i)
         /\ Hole(K, i) \in 1 .. Cardinality(K \ (1 .. k))
<1> DEFINE H == (1 .. k) \ K
<1>1. /\ IsFiniteSet(H) /\ H \subseteq Nat /\ i \in H
      /\ Cardinality(H) = Cardinality(K \ (1 .. k))
  <2>1. H \subseteq Nat /\ i \in H
    OBVIOUS
  <2>2. IsFiniteSet(H) /\ Cardinality(H) = Cardinality(K \ (1 .. k))
    BY Holes, Zenon
  <2> QED BY <2>1, <2>2
<1>2. (1 .. i) \ K = {j \in H : j <= i}
  OBVIOUS
<1>3. Hole(K, i) = RankIn(H, i)
  BY <1>2 DEF Hole, RankIn
<1> HIDE DEF H
<1>4. RankIn(H, i) \in 1 .. Cardinality(H)
  BY <1>1, Ranks
<1> QED BY <1>1, <1>3, <1>4 DEF H

\* and the position that fills it comes after all that stay.
LEMMA FillerIs ==
  ASSUME NEW K, IsFiniteSet(K), K \subseteq Nat \ {0}, NEW k \in Nat, k = Cardinality(K),
         NEW n \in 1 .. Cardinality(K \ (1 .. k))
  PROVE  /\ Filler(K, n) \in K /\ RankFrom(K, Filler(K, n)) = n
         /\ Filler(K, n) \notin 1 .. k
<1> DEFINE U == K \ (1 .. k)
           j == Filler(K, n)
<1>1. IsFiniteSet(U) /\ U \subseteq K /\ Cardinality(U) \in Nat
  BY Holes
<1>2. Cardinality(U) <= Cardinality(K)
  <2> HIDE DEF U
  <2> QED BY <1>1, FS_Subset
<1>3. n \in 1 .. Cardinality(K)
  BY <1>1, <1>2
<1>4. j \in K /\ RankFrom(K, j) = n
  BY <1>3, RanksFrom DEF Filler
<1>5. ASSUME j \in 1 .. k
      PROVE  FALSE
  <2> HIDE DEF j
  <2> DEFINE A == {x \in K : x >= j}
  <2>1. \A x \in U : x \in K /\ x > k
    OBVIOUS
  <2>0. j \in Nat /\ j <= k /\ \A x \in K : x \in Nat
    BY <1>5
  <2>2. U \subseteq A /\ j \in A /\ j \notin U /\ A \subseteq K
    <3>1. \A x \in U : x >= j
      BY <2>0, <2>1
    <3>2. j \notin U /\ j >= j
      BY <1>5, <2>0
    <3> QED BY <1>4, <2>1, <3>1, <3>2
  <2> HIDE DEF A, U
  <2>3. IsFiniteSet(A)
    BY <2>2, FS_Subset
  <2>4. Cardinality(U) <= Cardinality(A) /\ Cardinality(A) # Cardinality(U)
    BY <2>2, <2>3, FS_Subset
  <2>5. Cardinality(A) = n
    BY <1>4 DEF RankFrom, A
  <2> QED BY <1>1, <2>4, <2>5 DEF U
<1> QED BY <1>4, <1>5

\* So the positions that are taken are those of K, each once.
LEMMA SourceIs ==
  ASSUME NEW K, IsFiniteSet(K), K \subseteq Nat \ {0}, NEW k \in Nat, k = Cardinality(K)
  PROVE  /\ \A i \in 1 .. k : Source(K, i) \in K
         /\ \A i, j \in 1 .. k : Source(K, i) = Source(K, j) => i = j
         /\ \A x \in K : \E i \in 1 .. k : Source(K, i) = x
<1> DEFINE H == (1 .. k) \ K
           f == [i \in 1 .. k |-> Source(K, i)]
<1>1. \A i \in 1 .. k : Hole(K, i) = Hole(K, i) /\ (i \notin K => i \in H)
  OBVIOUS
<1>2. ASSUME NEW i \in H
      PROVE  /\ Source(K, i) = Filler(K, Hole(K, i))
             /\ Hole(K, i) = RankIn(H, i) /\ Hole(K, i) \in Nat
             /\ Source(K, i) \in K /\ Source(K, i) \notin 1 .. k
             /\ RankFrom(K, Source(K, i)) = RankIn(H, i)
  <2>1. /\ Hole(K, i) = RankIn(H, i)
        /\ Hole(K, i) \in 1 .. Cardinality(K \ (1 .. k))
    BY HoleIs
  <2>2. Source(K, i) = Filler(K, Hole(K, i))
    BY DEF Source
  <2>3. /\ Filler(K, Hole(K, i)) \in K /\ RankFrom(K, Filler(K, Hole(K, i))) = Hole(K, i)
        /\ Filler(K, Hole(K, i)) \notin 1 .. k
    BY <2>1, FillerIs
  <2> QED BY <2>1, <2>2, <2>3
<1>3. \A i \in 1 .. k : i \in K => Source(K, i) = i
  BY DEF Source
<1>4. \A i \in 1 .. k : Source(K, i) \in K
  BY <1>1, <1>2, <1>3
<1>5. ASSUME NEW i \in H, NEW j \in H, Source(K, i) = Source(K, j)
      PROVE  i = j
  <2>1. RankIn(H, i) = RankIn(H, j) /\ RankIn(H, i) \in Nat
    BY <1>2, <1>5
  <2>2. IsFiniteSet(H) /\ H \subseteq Nat /\ i \in Nat /\ j \in Nat
    <3>1. IsFiniteSet(H)
      BY Holes, Zenon
    <3> QED BY <3>1
  <2> HIDE DEF H
  <2>3. i < j => RankIn(H, i) < RankIn(H, j)
    BY <2>2, RankGrows
  <2>4. j < i => RankIn(H, j) < RankIn(H, i)
    BY <2>2, RankGrows
  <2> QED BY <2>1, <2>2, <2>3, <2>4
<1>6. \A i, j \in 1 .. k : Source(K, i) = Source(K, j) => i = j
  <2> TAKE i, j \in 1 .. k
  <2>1. CASE i \in K /\ j \in K
    BY <1>3, <2>1
  <2>2. CASE i \in H /\ j \in H
    BY <1>5, <2>2
  <2>3. CASE i \in K /\ j \in H
    BY <1>2, <1>3, <2>3
  <2>4. CASE i \in H /\ j \in K
    BY <1>2, <1>3, <2>4
  <2> QED BY <2>1, <2>2, <2>3, <2>4
<1>7. f \in Injection(1 .. k, K)
  BY <1>4, <1>6, Fun_IsInj
<1>8. IsFiniteSet(1 .. k) /\ Cardinality(1 .. k) = k
  BY Numbered
<1>9. f \in Surjection(1 .. k, K)
  <2> DEFINE D == 1 .. k
  <2>1. f \in Injection(D, K) /\ IsFiniteSet(D) /\ Cardinality(D) = Cardinality(K)
    BY <1>7, <1>8
  <2> HIDE DEF f, D
  <2>2. f \in Surjection(D, K)
    BY <2>1, FS_Injection
  <2> QED BY <2>2 DEF D
<1>10. \A x \in K : \E i \in 1 .. k : f[i] = x
  BY <1>9 DEF Surjection
<1> QED BY <1>4, <1>6, <1>10

\* The ConfluxSetRttMax filter leaves the fast sets, each once, in some order.
LEMMA DropSlowIs ==
  ASSUME NEW c \in Seq(Sets), Distinct(c)
  PROVE  /\ DropSlow(c) \in Seq(Sets) /\ Distinct(DropSlow(c))
         /\ In(DropSlow(c)) = {s \in In(c) : BestRtt(s) < config.rttMax}
<1> DEFINE K == {i \in DOMAIN c : BestRtt(c[i]) < config.rttMax}
           k == Cardinality(K)
           r == DropSlow(c)
<1>1. DOMAIN c = 1 .. Len(c) /\ Len(c) \in Nat /\ \A i \in DOMAIN c : c[i] \in Sets
  OBVIOUS
<1>2. K \subseteq 1 .. Len(c) /\ K \subseteq Nat \ {0}
  BY <1>1
<1>3. r = [i \in 1 .. k |-> IF i \in K THEN c[i] ELSE c[Filler(K, Hole(K, i))]]
  BY DEF DropSlow, Filler, Hole, RankFrom
<1>4. \A i \in K : i \in DOMAIN c /\ BestRtt(c[i]) < config.rttMax
  OBVIOUS
<1>5. \A i \in DOMAIN c : BestRtt(c[i]) < config.rttMax => i \in K
  OBVIOUS
<1> HIDE DEF K, k, r
<1>6. IsFiniteSet(K) /\ k \in Nat
  <2>1. IsFiniteSet(1 .. Len(c))
    BY <1>1, Numbered
  <2>2. IsFiniteSet(K)
    BY <1>2, <2>1, FS_Subset
  <2> QED BY <2>2, FS_CardinalityType DEF k
<1>7. /\ \A i \in 1 .. k : Source(K, i) \in K
      /\ \A i, j \in 1 .. k : Source(K, i) = Source(K, j) => i = j
      /\ \A x \in K : \E i \in 1 .. k : Source(K, i) = x
  BY <1>2, <1>6, SourceIs DEF k
<1>8. DOMAIN r = 1 .. k /\ \A i \in 1 .. k : r[i] = c[Source(K, i)]
  BY <1>3 DEF Source
<1>9. r \in Seq(Sets)
  <2>1. \A i \in 1 .. k : r[i] \in Sets
    BY <1>1, <1>4, <1>7, <1>8
  <2>2. r = [i \in 1 .. k |-> r[i]]
    BY <1>3
  <2>3. r \in [1 .. k -> Sets]
    BY <2>1, <2>2
  <2> QED BY <1>6, <2>3
<1>10. Distinct(r)
  BY <1>4, <1>7, <1>8 DEF Distinct
<1>11. In(r) \subseteq {s \in In(c) : BestRtt(s) < config.rttMax}
  BY <1>4, <1>7, <1>8 DEF In
<1>12. {s \in In(c) : BestRtt(s) < config.rttMax} \subseteq In(r)
  <2> SUFFICES ASSUME NEW x \in DOMAIN c, BestRtt(c[x]) < config.rttMax
               PROVE  c[x] \in In(r)
    BY DEF In
  <2>1. x \in K
    BY <1>5
  <2>2. PICK i \in 1 .. k : Source(K, i) = x
    BY <1>7, <2>1
  <2> QED BY <1>8, <2>2 DEF In
<1> QED BY <1>9, <1>10, <1>11, <1>12 DEF r

\* Sorting keeps the elements and puts one of the fastest first.
LEMMA SortedIs ==
  ASSUME SelectAssumption, PoolTypes, NEW c \in Seq(Sets), Distinct(c), Len(c) > 0,
         NEW q \in Sorted(c)
  PROVE  /\ q \in Seq(Sets) /\ Len(q) = Len(c) /\ Distinct(q) /\ In(q) = In(c)
         /\ \A t \in In(c) : BestRtt(q[1]) <= BestRtt(t)
<1> DEFINE D == 1 .. Len(c)
<1>1. /\ q \in [D -> In(c)] /\ IsInjective(q)
      /\ \A i, j \in D : i < j => BestRtt(q[i]) <= BestRtt(q[j])
  BY DEF Sorted
<1>2. Len(c) \in Nat /\ DOMAIN c = D /\ In(c) \subseteq Sets
  BY DEF In
<1>3. q \in [D -> Sets]
  BY <1>1, <1>2
<1>4. q \in Seq(Sets) /\ Len(q) = Len(c) /\ DOMAIN q = D
  BY <1>2, <1>3
<1>5. Distinct(q)
  BY <1>1, <1>4 DEF IsInjective, Distinct
<1>6. IsFiniteSet(D) /\ Cardinality(D) = Len(c)
  BY <1>2, Numbered
<1>7. IsFiniteSet(In(c)) /\ Cardinality(In(c)) = Len(c)
  BY DistinctCard
<1>8. q \in Surjection(D, In(c))
  <2>1. q \in Injection(D, In(c))
    <3>1. \A i, j \in D : q[i] = q[j] => i = j
      BY <1>4, <1>5 DEF Distinct
    <3> QED BY <1>1, <3>1, Fun_IsInj
  <2> HIDE DEF D
  <2> QED BY <1>6, <1>7, <2>1, FS_Injection
<1>9. In(q) = In(c)
  BY <1>1, <1>4, <1>8 DEF Surjection, In
<1>10. ASSUME NEW t \in In(c)
       PROVE  BestRtt(q[1]) <= BestRtt(t)
  <2>1. PICK i \in D : q[i] = t
    BY <1>8 DEF Surjection
  <2>2. 1 \in D /\ q[1] \in Sets /\ i \in Nat
    BY <1>2, <1>3
  <2>3. BestRtt(q[1]) \in Nat
    BY <2>2, BestRttIs
  <2>4. CASE i = 1
    BY <2>1, <2>3, <2>4
  <2>5. CASE i # 1
    <3>1. 1 < i
      BY <2>5
    <3> QED BY <1>1, <2>1, <2>2, <3>1
  <2> QED BY <2>4, <2>5
<1> QED BY <1>4, <1>5, <1>9, <1>10

\* Without a loss of the fastest: what a filter leaves has one at least as fast
\* as each of the sets it was given.
KeepsFastest(c, r) ==
  /\ r \in Seq(Sets) /\ Distinct(r) /\ In(r) \subseteq In(c)
  /\ r # <<>> => \A t \in In(c) : \E s \in In(r) : BestRtt(s) <= BestRtt(t)

\* A list that is empty has no element.
LEMMA EmptyHasNone ==
  ASSUME NEW c \in Seq(Sets)
  PROVE  c = <<>> <=> In(c) = {}
<1>1. c # <<>> => 1 \in DOMAIN c
  OBVIOUS
<1>2. DOMAIN c # {} => c # <<>>
  OBVIOUS
<1> QED BY <1>1, <1>2 DEF In

\* No filter: all are left.
LEMMA SameKeepsFastest ==
  ASSUME SelectAssumption, PoolTypes, NEW c \in Seq(Sets), Distinct(c)
  PROVE  KeepsFastest(c, c)
<1>1. ASSUME NEW t \in In(c)
      PROVE  BestRtt(t) <= BestRtt(t)
  <2>1. t \in Sets
    BY DEF In
  <2>2. BestRtt(t) \in Nat
    BY <2>1, BestRttIs
  <2> QED BY <2>2
<1> QED BY <1>1 DEF KeepsFastest

\* The ConfluxSetRttMax filter: all the fast ones are left, or it is not on or
\* there is but one set.
LEMMA RttMaxIs ==
  ASSUME SelectAssumption, PoolTypes, NEW c \in Seq(Sets), Distinct(c)
  PROVE  /\ KeepsFastest(c, RttMaxFilter(c))
         /\ config.rttMax > 0 /\ Len(c) > 1 =>
              \A s \in In(RttMaxFilter(c)) : BestRtt(s) < config.rttMax
         /\ RttMaxFilter(c) = <<>> =>
              \A t \in In(c) : TooSlow(t) /\ Len(c) > 1
<1> DEFINE r == DropSlow(c)
<1>1. CASE config.rttMax > 0 /\ Len(c) > 1
  <2>1. RttMaxFilter(c) = r
    BY <1>1 DEF RttMaxFilter
  <2>2. /\ r \in Seq(Sets) /\ Distinct(r)
        /\ In(r) = {s \in In(c) : BestRtt(s) < config.rttMax}
    BY DropSlowIs
  <2> HIDE DEF r
  <2>3. ASSUME NEW t \in In(c), r # <<>>
        PROVE  \E s \in In(r) : BestRtt(s) <= BestRtt(t)
    <3>1. t \in Sets /\ In(r) \subseteq Sets
      BY <2>2 DEF In
    <3>2. BestRtt(t) \in Nat
      BY <3>1, BestRttIs
    <3>3. CASE t \in In(r)
      BY <3>2, <3>3
    <3>4. CASE t \notin In(r)
      <4>1. ~(BestRtt(t) < config.rttMax)
        BY <2>2, <3>4
      <4>2. 1 \in DOMAIN r
        BY <2>2, <2>3
      <4>3. r[1] \in In(r)
        BY <4>2 DEF In
      <4>4. BestRtt(r[1]) < config.rttMax /\ BestRtt(r[1]) \in Nat
        BY <2>2, <3>1, <4>3, BestRttIs
      <4>5. config.rttMax \in Nat
        BY DEF PoolTypes, Config
      <4>6. BestRtt(r[1]) <= BestRtt(t)
        BY <3>2, <4>1, <4>4, <4>5
      <4> QED BY <4>3, <4>6
    <3> QED BY <3>3, <3>4
  <2>4. KeepsFastest(c, r)
    BY <2>2, <2>3 DEF KeepsFastest
  <2>5. ASSUME r = <<>>, NEW t \in In(c)
        PROVE  TooSlow(t)
    <3>1. t \notin In(r)
      BY <2>2, <2>5, EmptyHasNone
    <3>2. ~(BestRtt(t) < config.rttMax) /\ t \in Sets
      BY <2>2, <3>1 DEF In
    <3>3. BestRtt(t) \in Nat /\ config.rttMax \in Nat
      BY <3>2, BestRttIs DEF PoolTypes, Config
    <3> QED BY <1>1, <3>2, <3>3 DEF TooSlow
  <2> QED BY <1>1, <2>1, <2>2, <2>4, <2>5
<1>2. CASE ~(config.rttMax > 0 /\ Len(c) > 1)
  <2>1. RttMaxFilter(c) = c
    BY <1>2 DEF RttMaxFilter
  <2> QED BY <1>2, <2>1, SameKeepsFastest, EmptyHasNone
<1> QED BY <1>1, <1>2

\* The ConfluxSetRttPct filter: one of the fastest is always left.
LEMMA RttPctIs ==
  ASSUME SelectAssumption, PoolTypes, NEW c \in Seq(Sets), Distinct(c),
         NEW r \in RttPctFilter(c)
  PROVE  KeepsFastest(c, r) /\ (r = <<>> => c = <<>>)
<1>1. CASE config.rttPct > 0 /\ Len(c) > 1
  <2> DEFINE keep == (Len(c) * config.rttPct) \div 100
             n == IF keep = 0 THEN 1 ELSE keep
  <2>1. config.rttPct \in Nat /\ Len(c) \in Nat
    <3>1. config \in Config /\ Len(c) \in Nat
      BY DEF PoolTypes
    <3>2. config.rttPct \in 0 .. 100
      BY <3>1 DEF Config
    <3>3. ASSUME NEW x \in 0 .. 100
          PROVE  x \in Nat
      OBVIOUS
    <3>4. config.rttPct \in Nat
      BY <3>2, <3>3
    <3> QED BY <3>1, <3>4
  <2>2. Len(c) * config.rttPct \in Nat
    BY <2>1
  <2>3. keep \in Nat
    BY <2>2
  <2>4. n \in Nat /\ n >= 1 /\ n \in Int
    <3> HIDE DEF keep
    <3> QED BY <2>3
  <2>5. PICK q \in Sorted(c) : r = Upto(q, n)
    BY <1>1 DEF RttPctFilter
  <2> HIDE DEF n
  <2>6. /\ q \in Seq(Sets) /\ Len(q) = Len(c) /\ Distinct(q) /\ In(q) = In(c)
        /\ \A t \in In(c) : BestRtt(q[1]) <= BestRtt(t)
    BY <1>1, SortedIs
  <2>7. r \in Seq(Sets) /\ Distinct(r) /\ In(r) \subseteq In(q)
    BY <2>4, <2>5, <2>6, UptoIs, UptoDistinct
  <2>8. 1 \in DOMAIN r /\ r[1] = q[1]
    BY <1>1, <2>1, <2>4, <2>5, <2>6 DEF Upto
  <2>9. q[1] \in In(r)
    BY <2>8 DEF In
  <2>10. r # <<>>
    BY <2>8
  <2> QED BY <2>6, <2>7, <2>9, <2>10 DEF KeepsFastest
<1>2. CASE ~(config.rttPct > 0 /\ Len(c) > 1)
  <2>1. r = c
    BY <1>2 DEF RttPctFilter
  <2> QED BY <2>1, SameKeepsFastest
<1> QED BY <1>1, <1>2

\* Both, one after the other.
LEMMA FiltersAre ==
  ASSUME SelectAssumption, PoolTypes, NEW c \in Seq(Sets), Distinct(c),
         NEW r \in RttPctFilter(RttMaxFilter(c))
  PROVE  /\ KeepsFastest(c, r)
         /\ config.rttMax > 0 /\ Len(c) > 1 =>
              \A s \in In(r) : BestRtt(s) < config.rttMax
         /\ r = <<>> => \A t \in In(c) : TooSlow(t) /\ Len(c) > 1
<1> DEFINE b == RttMaxFilter(c)
<1>1. /\ KeepsFastest(c, b)
      /\ config.rttMax > 0 /\ Len(c) > 1 =>
           \A s \in In(b) : BestRtt(s) < config.rttMax
      /\ b = <<>> => \A t \in In(c) : TooSlow(t) /\ Len(c) > 1
  BY RttMaxIs
<1> HIDE DEF b
<1>2. b \in Seq(Sets) /\ Distinct(b)
  BY <1>1 DEF KeepsFastest
<1>3. KeepsFastest(b, r) /\ (r = <<>> => b = <<>>)
  BY <1>2, RttPctIs DEF b
<1>4. In(r) \subseteq In(b) /\ In(b) \subseteq In(c) /\ In(c) \subseteq Sets
  <2>1. \A x \in In(c) : x \in Sets
    BY DEF In
  <2>2. In(r) \subseteq In(b) /\ In(b) \subseteq In(c)
    BY <1>1, <1>3 DEF KeepsFastest
  <2> QED BY <2>1, <2>2
<1>5. ASSUME r # <<>>, NEW t \in In(c)
      PROVE  \E s \in In(r) : BestRtt(s) <= BestRtt(t)
  <2>1. b # <<>>
    <3>1. 1 \in DOMAIN r
      BY <1>3, <1>5 DEF KeepsFastest
    <3>2. r[1] \in In(b)
      BY <1>4, <3>1 DEF In
    <3> QED BY <3>2 DEF In
  <2>2. PICK u \in In(b) : BestRtt(u) <= BestRtt(t)
    BY <1>1, <2>1 DEF KeepsFastest
  <2>3. PICK s \in In(r) : BestRtt(s) <= BestRtt(u)
    BY <1>3, <1>5 DEF KeepsFastest
  <2>4. s \in Sets /\ u \in Sets /\ t \in Sets
    BY <1>4
  <2>5. BestRtt(s) \in Nat /\ BestRtt(u) \in Nat /\ BestRtt(t) \in Nat
    BY <2>4, BestRttIs
  <2> QED BY <2>2, <2>3, <2>5
<1>6. KeepsFastest(c, r)
  BY <1>3, <1>4, <1>5 DEF KeepsFastest
<1> QED BY <1>1, <1>3, <1>4, <1>6

-----------------------------------------------------------------------------
(* The picks.                                                               *)

\* Where the first of the lowest stands.
LeastAt(c, f, i) ==
  /\ i \in DOMAIN c /\ FirstLeast(c, f) = c[i]
  /\ \A j \in DOMAIN c : f[c[i]] <= f[c[j]]
  /\ \A j \in DOMAIN c : j < i => f[c[i]] < f[c[j]]

\* A list that is not empty has one.
LEMMA FirstLeastIs ==
  ASSUME NEW c \in Seq(Sets), c # <<>>, NEW f \in [Sets -> Nat]
  PROVE  \E i \in DOMAIN c : LeastAt(c, f, i)
<1> DEFINE V == {f[c[i]] : i \in DOMAIN c}
           low == {i \in DOMAIN c : \A j \in DOMAIN c : f[c[i]] <= f[c[j]]}
<1>1. /\ 1 \in DOMAIN c /\ DOMAIN c \subseteq Nat
      /\ \A i \in DOMAIN c : c[i] \in Sets /\ f[c[i]] \in Nat
  OBVIOUS
<1>2. V \in SUBSET Nat /\ V # {}
  BY <1>1
<1>3. PICK v \in V : \A w \in V : v <= w
  <2> HIDE DEF V
  <2> QED BY <1>2, LeastOf
<1>4. PICK m \in DOMAIN c : f[c[m]] = v
  OBVIOUS
<1>5. low \in SUBSET Nat /\ low # {}
  <2>1. m \in low
    BY <1>3, <1>4
  <2> QED BY <1>1, <2>1
<1> DEFINE i == CHOOSE k \in low : \A j \in low : k <= j
<1>6. FirstLeast(c, f) = c[i]
  BY DEF FirstLeast
<1>7. i \in low /\ \A j \in low : i <= j
  <2> HIDE DEF low
  <2>1. \E k \in low : \A j \in low : k <= j
    BY <1>5, LeastOf
  <2> QED BY <2>1
<1> HIDE DEF i
<1>8. i \in DOMAIN c /\ \A j \in DOMAIN c : f[c[i]] <= f[c[j]]
  BY <1>7
<1>9. ASSUME NEW j \in DOMAIN c, j < i
      PROVE  f[c[i]] < f[c[j]]
  <2>1. j \notin low
    BY <1>1, <1>7, <1>8, <1>9
  <2>2. PICK k \in DOMAIN c : ~(f[c[j]] <= f[c[k]])
    BY <2>1
  <2> QED BY <1>1, <1>8, <2>2
<1> QED BY <1>6, <1>8, <1>9 DEF LeastAt

\* The policies pick from the list, and "fastest" one of the fastest.
LEMMA PickIs ==
  ASSUME SelectAssumption, PoolTypes, NEW c \in Seq(Sets), c # <<>>
  PROVE  /\ PickByPolicy(c) \in In(c)
         /\ config.policy = "fastest" =>
              \A t \in In(c) : BestRtt(PickByPolicy(c)) <= BestRtt(t)
         /\ config.policy = "round_robin" =>
              PickByPolicy(c) = c[(counter % Len(c)) + 1]
<1>1. /\ DOMAIN c = 1 .. Len(c) /\ Len(c) \in Nat /\ Len(c) > 0 /\ 1 \in DOMAIN c
      /\ \A i \in DOMAIN c : c[i] \in In(c) /\ c[i] \in Sets
  BY DEF In
<1>2. CASE config.policy = "round_robin"
  <2>1. counter \in Nat
    BY DEF PoolTypes
  <2>2. counter % Len(c) \in 0 .. Len(c) - 1
    BY <1>1, <2>1
  <2>3. (counter % Len(c)) + 1 \in DOMAIN c
    <3> DEFINE x == counter % Len(c)
    <3> HIDE DEF x
    <3>1. x \in 0 .. Len(c) - 1
      BY <2>2 DEF x
    <3>2. x + 1 \in 1 .. Len(c)
      BY <1>1, <3>1
    <3> QED BY <1>1, <3>2 DEF x
  <2>4. PickByPolicy(c) = c[(counter % Len(c)) + 1]
    BY <1>2 DEF PickByPolicy
  <2> QED BY <1>1, <1>2, <2>3, <2>4
<1>3. CASE config.policy = "least_streams"
  <2>1. PickByPolicy(c) = FirstLeast(c, open) /\ open \in [Sets -> Nat]
    BY <1>3 DEF PickByPolicy, PoolTypes
  <2>2. PICK i \in DOMAIN c : LeastAt(c, open, i)
    BY <2>1, FirstLeastIs
  <2>3. FirstLeast(c, open) = c[i]
    BY <2>2 DEF LeastAt
  <2> QED BY <1>1, <1>3, <2>1, <2>3
<1>4. CASE config.policy = "fastest"
  <2> DEFINE f == [s \in Sets |-> BestRtt(s)]
  <2>1. f \in [Sets -> Nat]
    BY BestRttIs
  <2>2. PickByPolicy(c) = FirstLeast(c, f)
    BY <1>4 DEF PickByPolicy
  <2>3. \A s \in Sets : f[s] = BestRtt(s)
    OBVIOUS
  <2> HIDE DEF f
  <2>4. PICK i \in DOMAIN c : LeastAt(c, f, i)
    BY <2>1, FirstLeastIs
  <2>5. FirstLeast(c, f) = c[i] /\ \A j \in DOMAIN c : f[c[i]] <= f[c[j]]
    BY <2>4 DEF LeastAt
  <2>6. \A j \in DOMAIN c : BestRtt(c[i]) <= BestRtt(c[j])
    BY <1>1, <2>3, <2>5
  <2>7. \A t \in In(c) : BestRtt(c[i]) <= BestRtt(t)
    BY <2>6 DEF In
  <2> QED BY <1>1, <1>4, <2>2, <2>5, <2>7
<1>5. CASE config.policy \notin {"round_robin", "least_streams", "fastest"}
  <2>1. PickByPolicy(c) = c[1]
    BY <1>5 DEF PickByPolicy
  <2> QED BY <1>1, <1>5, <2>1
<1> QED BY <1>2, <1>3, <1>4, <1>5

\* A keep-alive's pick: first among the lowest totals.
LEMMA KeepaliveIs ==
  ASSUME PoolTypes, NEW c \in Seq(Sets), c # <<>>
  PROVE  \E i \in DOMAIN c : LeastAt(c, total, i) /\ PickKeepalive(c) = c[i]
<1>1. total \in [Sets -> Nat]
  BY DEF PoolTypes
<1>2. PICK i \in DOMAIN c : LeastAt(c, total, i)
  BY <1>1, FirstLeastIs
<1>3. PickKeepalive(c) = c[i]
  BY <1>2 DEF PickKeepalive, LeastAt
<1> QED BY <1>2, <1>3

\* What a request does with the list c, of which s is the pick.
Answers(keepalive, acc, c, s) ==
  /\ c \in Seq(Sets) /\ Distinct(c)
  /\ s = IF c = <<>> THEN NoPick
         ELSE IF keepalive THEN PickKeepalive(c) ELSE PickByPolicy(c)
  /\ c # <<>> => s \in Sets /\ s # NoPick /\ s \in In(c)
  /\ keepalive => c = Only(pool, acc)
  /\ IF s = NoPick THEN UNCHANGED <<open, total>> ELSE LinkApconn(s)
  /\ CountRotation(keepalive, c)
  /\ Note(keepalive, acc, c, s)
  /\ attached' = attached + 1
  /\ UNCHANGED <<config, pool, rtts, links>>

\* A request is answered from what the filters leave of the pool.
LEMMA AttachIs ==
  ASSUME SelectAssumption, PoolTypes, NEW keepalive \in BOOLEAN,
         NEW acc \in SUBSET Sets, AttachStream(keepalive, acc)
  PROVE  \E c, s : /\ Answers(keepalive, acc, c, s)
                   /\ ~keepalive => c \in RttPctFilter(RttMaxFilter(Only(pool, acc)))
<1> DEFINE all == Only(pool, acc)
<1>1. pool \in Seq(Sets) /\ Distinct(pool)
  BY DEF PoolTypes
<1>2. all \in Seq(Sets) /\ Distinct(all)
  BY <1>1, OnlyIs, OnlyDistinct
<1>3. PICK c \in (IF keepalive THEN {all} ELSE RttPctFilter(RttMaxFilter(all))) :
        LET s == IF c = <<>> THEN NoPick
                 ELSE IF keepalive THEN PickKeepalive(c) ELSE PickByPolicy(c)
        IN
        /\ IF s = NoPick THEN UNCHANGED <<open, total>> ELSE LinkApconn(s)
        /\ CountRotation(keepalive, c)
        /\ Note(keepalive, acc, c, s)
  BY DEF AttachStream
<1>4. attached' = attached + 1 /\ UNCHANGED <<config, pool, rtts, links>>
  BY DEF AttachStream
<1> HIDE DEF all
<1> DEFINE s == IF c = <<>> THEN NoPick
                ELSE IF keepalive THEN PickKeepalive(c) ELSE PickByPolicy(c)
<1>5. c \in Seq(Sets) /\ Distinct(c)
  <2>1. CASE keepalive
    BY <1>2, <1>3, <2>1
  <2>2. CASE ~keepalive
    <3>1. c \in RttPctFilter(RttMaxFilter(all))
      BY <1>3, <2>2
    <3>2. KeepsFastest(all, c)
      BY <1>2, <3>1, FiltersAre
    <3> QED BY <3>2 DEF KeepsFastest
  <2> QED BY <2>1, <2>2
<1>6. ASSUME c # <<>>
      PROVE  s \in Sets /\ s # NoPick /\ s \in In(c)
  <2>1. \A x \in In(c) : x \in Sets /\ x # NoPick
    BY <1>5 DEF In, SelectAssumption
  <2>2. s \in In(c)
    <3>1. CASE keepalive
      <4>1. PICK i \in DOMAIN c : PickKeepalive(c) = c[i]
        BY <1>5, <1>6, KeepaliveIs
      <4>2. s = c[i]
        BY <1>6, <3>1, <4>1
      <4> QED BY <4>2 DEF In
    <3>2. CASE ~keepalive
      <4>1. PickByPolicy(c) \in In(c)
        BY <1>5, <1>6, PickIs
      <4>2. s = PickByPolicy(c)
        BY <1>6, <3>2
      <4> QED BY <4>1, <4>2
    <3> QED BY <3>1, <3>2
  <2> HIDE DEF s
  <2> QED BY <2>1, <2>2
<1>7. Answers(keepalive, acc, c, s)
  BY <1>3, <1>4, <1>5, <1>6 DEF Answers, all
<1>8. ~keepalive => c \in RttPctFilter(RttMaxFilter(all))
  BY <1>3
<1> QED BY <1>7, <1>8 DEF all

\* A list of one set has it as its only element.
LEMMA OneElement ==
  ASSUME NEW c \in Seq(Sets), NEW s \in In(c), ~(Len(c) > 1)
  PROVE  In(c) = {s}
<1>1. PICK i \in DOMAIN c : c[i] = s
  BY DEF In
<1>2. DOMAIN c = 1 .. Len(c) /\ Len(c) \in Nat
  OBVIOUS
<1>3. Len(c) = 1
  BY <1>1, <1>2
<1>4. \A j \in 1 .. 1 : j = 1
  OBVIOUS
<1>5. \A j \in DOMAIN c : c[j] = s
  BY <1>1, <1>2, <1>3, <1>4
<1> QED BY <1>1, <1>5 DEF In

\* A request's answer is in bounds.
LEMMA AttachInBounds ==
  ASSUME SelectAssumption, PoolTypes, NEW keepalive \in BOOLEAN,
         NEW acc \in SUBSET Sets, AttachStream(keepalive, acc)
  PROVE  PicksInBounds
<1> DEFINE all == Only(pool, acc)
<1>1. PICK c, s : /\ Answers(keepalive, acc, c, s)
                  /\ ~keepalive => c \in RttPctFilter(RttMaxFilter(all))
  BY AttachIs
<1>2. last' = [keepalive |-> keepalive, acc |-> acc \cap In(pool), picked |-> s]
  BY <1>1 DEF Answers, Note
<1>3. last'.keepalive = keepalive /\ last'.acc = acc \cap In(pool) /\ last'.picked = s
  BY <1>2
<1>4. pool \in Seq(Sets) /\ Distinct(pool)
  BY DEF PoolTypes
<1>5. all \in Seq(Sets) /\ Distinct(all) /\ In(all) = acc \cap In(pool)
  <2>1. all \in Seq(Sets) /\ In(all) = In(pool) \cap acc
    BY <1>4, OnlyIs
  <2>2. Distinct(all)
    BY <1>4, OnlyDistinct
  <2> QED BY <2>1, <2>2
<1> HIDE DEF all
<1>6. ASSUME ~keepalive, s # NoPick
      PROVE  AnsweredWell(s, In(all))
  <2>1. c # <<>> /\ s = PickByPolicy(c) /\ c \in Seq(Sets) /\ s \in In(c) /\ s \in Sets
    BY <1>1, <1>6 DEF Answers
  <2>2. /\ KeepsFastest(all, c)
        /\ config.rttMax > 0 /\ Len(all) > 1 =>
             \A u \in In(c) : BestRtt(u) < config.rttMax
    BY <1>1, <1>5, <1>6, FiltersAre
  <2>3. s \in In(all)
    BY <2>1, <2>2 DEF KeepsFastest
  <2>4. BestRtt(s) \in Nat /\ config.rttMax \in Nat
    BY <2>1, BestRttIs DEF PoolTypes, Config
  <2>5. ASSUME TooSlow(s)
        PROVE  In(all) = {s}
    <3>1. config.rttMax > 0 /\ ~(BestRtt(s) < config.rttMax)
      BY <2>4, <2>5 DEF TooSlow
    <3>2. ~(Len(all) > 1)
      BY <2>1, <2>2, <3>1
    <3> QED BY <1>5, <2>3, <3>2, OneElement
  <2>6. ASSUME config.policy = "fastest", NEW t \in In(all)
        PROVE  BestRtt(s) <= BestRtt(t)
    <3>1. PICK u \in In(c) : BestRtt(u) <= BestRtt(t)
      BY <2>1, <2>2 DEF KeepsFastest
    <3>2. BestRtt(s) <= BestRtt(u)
      BY <2>1, <2>6, PickIs
    <3>3. u \in Sets /\ t \in Sets
      BY <1>5, <2>1 DEF In
    <3>4. BestRtt(u) \in Nat /\ BestRtt(t) \in Nat
      BY <3>3, BestRttIs
    <3> QED BY <2>4, <3>1, <3>2, <3>4
  <2>7. TooSlow(s) => \A t \in In(all) : TooSlow(t)
    BY <2>5
  <2> QED BY <1>6, <2>3, <2>6, <2>7 DEF AnsweredWell
<1>7. ASSUME ~keepalive, s = NoPick
      PROVE  AnsweredWell(s, In(all))
  <2>1. c = <<>>
    BY <1>1, <1>7 DEF Answers
  <2>2. \A t \in In(all) : TooSlow(t) /\ Len(all) > 1
    BY <1>1, <1>5, <1>7, <2>1, FiltersAre
  <2>3. ASSUME NEW t \in In(all)
        PROVE  In(all) # {t}
    <3>1. 1 \in DOMAIN all /\ 2 \in DOMAIN all
      BY <1>5, <2>2, <2>3
    <3>2. all[1] \in In(all) /\ all[2] \in In(all) /\ all[1] # all[2]
      BY <1>5, <3>1 DEF In, Distinct
    <3> QED BY <3>2
  <2> QED BY <1>7, <2>2, <2>3 DEF AnsweredWell
<1> QED BY <1>3, <1>5, <1>6, <1>7 DEF PicksInBounds

\* A set put in at place i: no set is in the list twice, and the others keep
\* their order.
LEMMA Inserted ==
  ASSUME NEW q \in Seq(Sets), Distinct(q), NEW s \in Sets, s \notin In(q),
         NEW i \in 1 .. Len(q) + 1, NEW r,
         r = [k \in 1 .. Len(q) + 1 |->
                IF k < i THEN q[k] ELSE IF k = i THEN s ELSE q[k - 1]]
  PROVE  r \in Seq(Sets) /\ Distinct(r)
<1> DEFINE n == Len(q)
<1>1. n \in Nat /\ DOMAIN q = 1 .. n /\ i \in Nat /\ \A k \in 1 .. n : q[k] \in Sets
  OBVIOUS
<1> HIDE DEF n
<1>2. DOMAIN r = 1 .. n + 1
  BY DEF n
<1>3. \A k \in 1 .. n + 1 :
        /\ k < i => k \in 1 .. n /\ r[k] = q[k]
        /\ k = i => r[k] = s
        /\ k > i => k - 1 \in 1 .. n /\ r[k] = q[k - 1]
  BY <1>1 DEF n
<1>4. r \in [1 .. n + 1 -> Sets]
  <2>1. \A k \in 1 .. n + 1 : r[k] \in Sets
    <3> TAKE k \in 1 .. n + 1
    <3>1. k < i \/ k = i \/ k > i
      BY <1>1
    <3> QED BY <1>1, <1>3, <3>1
  <2> QED BY <1>2, <2>1
<1>5. r \in Seq(Sets)
  <2>1. n + 1 \in Nat
    BY <1>1
  <2> QED BY <1>4, <2>1
<1>6. \A k \in 1 .. n : q[k] # s
  BY <1>1 DEF In
<1>7. \A j, k \in 1 .. n : q[j] = q[k] => j = k
  BY <1>1 DEF Distinct
<1>8. ASSUME NEW j \in 1 .. n + 1, NEW k \in 1 .. n + 1, r[j] = r[k]
      PROVE  j = k
  <2>1. CASE j = i
    BY <1>1, <1>3, <1>6, <1>8, <2>1
  <2>2. CASE k = i
    BY <1>1, <1>3, <1>6, <1>8, <2>2
  <2>3. CASE j < i /\ k < i
    <3>1. j \in 1 .. n /\ r[j] = q[j]
      BY <1>3, <2>3
    <3>2. k \in 1 .. n /\ r[k] = q[k]
      BY <1>3, <2>3
    <3>3. q[j] = q[k]
      BY <1>8, <3>1, <3>2
    <3>4. j = k
      BY <1>7, <3>1, <3>2, <3>3
    <3> QED BY <1>1, <2>3, <3>4
  <2>4. CASE j > i /\ k > i
    <3>1. j - 1 \in 1 .. n /\ r[j] = q[j - 1]
      BY <1>3, <2>4
    <3>2. k - 1 \in 1 .. n /\ r[k] = q[k - 1]
      BY <1>3, <2>4
    <3>3. q[j - 1] = q[k - 1]
      BY <1>8, <3>1, <3>2
    <3>4. j - 1 = k - 1
      BY <1>7, <3>1, <3>2, <3>3
    <3> QED BY <1>1, <2>4, <3>4
  <2>5. CASE j < i /\ k > i
    <3>1. j \in 1 .. n /\ r[j] = q[j]
      BY <1>3, <2>5
    <3>2. k - 1 \in 1 .. n /\ r[k] = q[k - 1]
      BY <1>3, <2>5
    <3>3. q[j] = q[k - 1]
      BY <1>8, <3>1, <3>2
    <3>4. j = k - 1
      BY <1>7, <3>1, <3>2, <3>3
    <3> QED BY <1>1, <2>5, <3>4
  <2>6. CASE j > i /\ k < i
    <3>1. j - 1 \in 1 .. n /\ r[j] = q[j - 1]
      BY <1>3, <2>6
    <3>2. k \in 1 .. n /\ r[k] = q[k]
      BY <1>3, <2>6
    <3>3. q[j - 1] = q[k]
      BY <1>8, <3>1, <3>2
    <3>4. j - 1 = k
      BY <1>7, <3>1, <3>2, <3>3
    <3> QED BY <1>1, <2>6, <3>4
  <2> QED BY <1>1, <2>1, <2>2, <2>3, <2>4, <2>5, <2>6
<1>9. Distinct(r)
  BY <1>2, <1>8 DEF Distinct
<1> QED BY <1>5, <1>9

\* A request keeps the types.
LEMMA AttachTypes ==
  ASSUME SelectAssumption, PoolTypes, NEW keepalive \in BOOLEAN,
         NEW acc \in SUBSET Sets, AttachStream(keepalive, acc)
  PROVE  PoolTypes'
<1>1. PICK c, s : Answers(keepalive, acc, c, s)
  BY AttachIs
<1>2. c = <<>> \/ s \in Sets
  BY <1>1 DEF Answers
<1>3. s = NoPick \/ s \in Sets
  BY <1>1, <1>2 DEF Answers
<1>4. open' \in [Sets -> Nat] /\ total' \in [Sets -> Nat]
  <2>1. CASE s = NoPick
    BY <1>1, <2>1 DEF Answers, PoolTypes
  <2>2. CASE s # NoPick
    <3>1. LinkApconn(s) /\ s \in Sets
      BY <1>1, <1>3, <2>2 DEF Answers
    <3>2. open[s] \in Nat /\ total[s] \in Nat
      BY <3>1 DEF PoolTypes
    <3> QED BY <3>1, <3>2 DEF LinkApconn, PoolTypes
  <2> QED BY <2>1, <2>2
<1>5. counter' \in Nat
  <2>1. counter' = counter \/ counter' = counter + 1
    BY <1>1 DEF Answers, CountRotation
  <2> QED BY <2>1 DEF PoolTypes
<1>6. turn' \in [Sets -> Nat]
  <2>1. turn' = turn \/ turn' = [t \in Sets |-> IF t = s THEN 0 ELSE turn[t] + 1]
    BY <1>1 DEF Answers, Note
  <2>2. turn \in [Sets -> Nat]
    BY DEF PoolTypes
  <2>3. \A t \in Sets : turn[t] + 1 \in Nat
    BY <2>2
  <2> QED BY <2>1, <2>2, <2>3
<1>7. calm' \in BOOLEAN
  BY <1>1 DEF Answers, Note
<1>8. attached' \in Nat
  BY <1>1 DEF Answers, PoolTypes
<1>9. UNCHANGED <<config, pool, rtts, links>>
  BY <1>1 DEF Answers
<1> QED BY <1>4, <1>5, <1>6, <1>7, <1>8, <1>9 DEF PoolTypes

\* A set that is linked keeps them.
LEMMA LinkTypes ==
  ASSUME SelectAssumption, PoolTypes, NEW s \in Sets, NEW R \in LegRtts, LinkSet(s, R)
  PROVE  PoolTypes'
<1>1. PICK i \in 1 .. Len(pool) + 1 :
        pool' = [k \in 1 .. Len(pool) + 1 |->
                   IF k < i THEN pool[k] ELSE IF k = i THEN s ELSE pool[k - 1]]
  BY DEF LinkSet
<1>2. pool \in Seq(Sets) /\ Distinct(pool) /\ s \notin In(pool)
  BY DEF LinkSet, PoolTypes
<1>3. pool' \in Seq(Sets) /\ Distinct(pool')
  BY <1>1, <1>2, Inserted
<1>4. total' \in [Sets -> Nat]
  <2>1. PICK n \in {0, total[s]} : total' = [total EXCEPT ![s] = n]
    BY DEF LinkSet
  <2>2. total \in [Sets -> Nat]
    BY DEF PoolTypes
  <2>3. n \in Nat
    BY <2>2
  <2> QED BY <2>1, <2>2, <2>3
<1>5. rtts' \in [Sets -> LegRtts] /\ turn' \in [Sets -> Nat] /\ links' \in Nat
  BY DEF LinkSet, PoolTypes
<1>6. UNCHANGED <<config, open, counter, attached, calm>>
  BY DEF LinkSet
<1>7. Distinct(pool)'
  BY <1>3
<1> QED BY <1>3, <1>4, <1>5, <1>6, <1>7 DEF PoolTypes

\* The other steps keep them.
LEMMA CloseTypes ==
  ASSUME SelectAssumption, PoolTypes, NEW s \in Sets,
         \/ CloseStream(s) \/ CloseSet(s)
         \/ \E R \in LegRtts : UpdateRtt(s, R)
  PROVE  PoolTypes'
<1>0. pool \in Seq(Sets) /\ Distinct(pool)
  BY DEF PoolTypes
<1>1. CASE CloseStream(s)
  <2>1. open' \in [Sets -> Nat]
    <3>1. open[s] \in Nat /\ open[s] > 0 /\ open \in [Sets -> Nat]
      BY <1>1 DEF CloseStream, PoolTypes
    <3>2. open[s] - 1 \in Nat
      BY <3>1
    <3> QED BY <1>1, <3>1, <3>2 DEF CloseStream
  <2>2. UNCHANGED <<config, pool, rtts, total, counter, attached, links, turn, calm>>
    BY <1>1 DEF CloseStream, ghosts
  <2> QED BY <2>1, <2>2 DEF PoolTypes, Distinct
<1>2. CASE CloseSet(s)
  <2>1. pool' = Only(pool, Sets \ {s})
    BY <1>2 DEF CloseSet
  <2>2. pool' \in Seq(Sets) /\ Distinct(pool')
    BY <1>0, <2>1, OnlyIs, OnlyDistinct
  <2>3. open' \in [Sets -> Nat]
    BY <1>2 DEF CloseSet, PoolTypes
  <2>4. UNCHANGED <<config, rtts, total, counter, attached, links, turn, calm>>
    BY <1>2 DEF CloseSet, ghosts
  <2>5. Distinct(pool)'
    BY <2>2
  <2> QED BY <2>2, <2>3, <2>4, <2>5 DEF PoolTypes
<1>3. CASE \E R \in LegRtts : UpdateRtt(s, R)
  <2>1. rtts' \in [Sets -> LegRtts]
    BY <1>3 DEF UpdateRtt, PoolTypes
  <2>2. UNCHANGED <<config, pool, open, total, counter, attached, links, turn, calm>>
    BY <1>3 DEF UpdateRtt, ghosts
  <2> QED BY <2>1, <2>2 DEF PoolTypes, Distinct
<1> QED BY <1>1, <1>2, <1>3

\* The types hold from the start on.
LEMMA SelectInitTypes ==
  ASSUME SelectAssumption, SelectInit
  PROVE  PoolTypes
<1>1. InitSets \in Seq(Sets) /\ Distinct(InitSets)
  BY DEF SelectAssumption, IsInjective, Distinct
<1>2. config \in Config
  BY DEF SelectAssumption, SelectInit
<1> QED BY <1>1, <1>2 DEF SelectInit, PoolTypes

\* Every step keeps the types.
LEMMA SelectStepTypes ==
  ASSUME SelectAssumption, PoolTypes, [SelectNext]_selectVars
  PROVE  PoolTypes'
<1>1. CASE UNCHANGED selectVars
  BY <1>1 DEF selectVars, PoolTypes, Distinct
<1>2. ASSUME NEW keepalive \in BOOLEAN, NEW acc \in SUBSET Sets,
             AttachStream(keepalive, acc)
      PROVE  PoolTypes'
  BY <1>2, AttachTypes
<1>3. ASSUME NEW s \in Sets, CloseStream(s) \/ CloseSet(s)
      PROVE  PoolTypes'
  BY <1>3, CloseTypes
<1>4. ASSUME NEW s \in Sets, NEW R \in LegRtts, UpdateRtt(s, R) \/ LinkSet(s, R)
      PROVE  PoolTypes'
  <2>1. CASE UpdateRtt(s, R)
    BY <2>1, CloseTypes
  <2>2. CASE LinkSet(s, R)
    BY <2>2, LinkTypes
  <2> QED BY <1>4, <2>1, <2>2
<1> QED BY <1>1, <1>2, <1>3, <1>4 DEF SelectNext

\* Only a request counts as one.
LEMMA SelectStepInBounds ==
  ASSUME SelectAssumption, PoolTypes, [SelectNext]_selectVars
  PROVE  [PicksInBounds]_selectVars
<1>1. CASE UNCHANGED selectVars
  BY <1>1
<1>2. ASSUME NEW keepalive \in BOOLEAN, NEW acc \in SUBSET Sets,
             AttachStream(keepalive, acc)
      PROVE  PicksInBounds
  BY <1>2, AttachInBounds
<1>3. ASSUME attached' = attached
      PROVE  PicksInBounds
  <2>1. ~(attached' > attached)
    BY <1>3 DEF PoolTypes
  <2> QED BY <2>1 DEF PicksInBounds
<1>4. ASSUME NEW s \in Sets, CloseStream(s) \/ CloseSet(s)
      PROVE  PicksInBounds
  BY <1>3, <1>4 DEF CloseStream, CloseSet
<1>5. ASSUME NEW s \in Sets, NEW R \in LegRtts, UpdateRtt(s, R) \/ LinkSet(s, R)
      PROVE  PicksInBounds
  BY <1>3, <1>5 DEF UpdateRtt, LinkSet
<1> QED BY <1>1, <1>2, <1>4, <1>5 DEF SelectNext

\* Whatever the options, the RTTs and the sets that come and go, no stream of
\* the user goes to a set at or above ConfluxSetRttMax unless every set it may
\* use is, none that may use a faster set, or has only one to use, is left
\* without, and "fastest" is the fastest (conflux_get_circ_for_conn).
THEOREM PicksAlwaysInBounds ==
  ASSUME SelectAssumption
  PROVE  SelectSpec => FailoverPick
<1>1. SelectInit => PoolTypes
  BY SelectInitTypes
<1>2. PoolTypes /\ [SelectNext]_selectVars => PoolTypes'
  BY SelectStepTypes
<1>3. PoolTypes /\ [SelectNext]_selectVars => [PicksInBounds]_selectVars
  BY SelectStepInBounds
<1> QED BY <1>1, <1>2, <1>3, PTL DEF SelectSpec, FailoverPick

-----------------------------------------------------------------------------
(* Round robin.                                                             *)

\* Fewer than n steps apart, two numbers leave different remainders.
LEMMA ModDiffers ==
  ASSUME NEW n \in Nat, n > 0, NEW a \in Nat, NEW b \in Nat, a < b, b < a + n
  PROVE  a % n # b % n
<1> DEFINE p == a \div n
           q == b \div n
           x == a % n
           y == b % n
<1>1. p \in Int /\ x \in Int /\ a = n * p + x
  OBVIOUS
<1>2. q \in Int /\ y \in Int /\ b = n * q + y
  OBVIOUS
<1> HIDE DEF p, q, x, y
<1>3. ASSUME x = y PROVE FALSE
  <2> DEFINE d == q - p
  <2>1. d \in Int /\ q = p + d
    BY <1>1, <1>2
  <2> HIDE DEF d
  <2>2. n * q = n * p + n * d
    BY <1>1, <2>1
  <2>3. n * p \in Int /\ n * q \in Int /\ n * d \in Int
    BY <1>1, <1>2, <2>1
  <2>4. b - a = n * d
    BY <1>1, <1>2, <1>3, <2>2, <2>3
  <2>5. CASE d <= 0
    <3>1. n * d <= 0
      BY <2>1, <2>5
    <3> QED BY <2>3, <2>4, <3>1
  <2>6. CASE d >= 1
    <3>1. n * d >= n
      BY <2>1, <2>6
    <3> QED BY <2>3, <2>4, <3>1
  <2> QED BY <2>1, <2>5, <2>6
<1> QED BY <1>3 DEF x, y

\* The list l, and the picks p made of it one after the other, the last of them
\* before the counter reached n.
Rotated(l, p, n) ==
  /\ l \in Seq(Sets) /\ Distinct(l) /\ p \in Seq(Sets) /\ Len(p) <= n
  /\ \A i \in DOMAIN p :
       Len(l) > 0 /\ p[i] = l[((n - Len(p) + i - 1) % Len(l)) + 1]

\* One more pick.
LEMMA RotatesOn ==
  ASSUME NEW l, NEW p, NEW n \in Nat, Rotated(l, p, n), Len(l) > 0,
         l[(n % Len(l)) + 1] \in Sets
  PROVE  Rotated(l, p \o <<l[(n % Len(l)) + 1]>>, n + 1)
<1> DEFINE s == l[(n % Len(l)) + 1]
           w == p \o <<s>>
<1>1. p \in Seq(Sets) /\ s \in Sets /\ Len(p) <= n /\ Len(p) \in Nat
  BY DEF Rotated
<1>2. /\ \A i \in DOMAIN p : p[i] = l[((n - Len(p) + i - 1) % Len(l)) + 1]
      /\ l \in Seq(Sets) /\ Distinct(l)
  BY DEF Rotated
<1>3. s = l[(n % Len(l)) + 1]
  OBVIOUS
<1> HIDE DEF s
<1>4. /\ w \in Seq(Sets) /\ Len(w) = Len(p) + 1 /\ DOMAIN w = 1 .. Len(p) + 1
      /\ DOMAIN p = 1 .. Len(p)
      /\ \A i \in 1 .. Len(p) : w[i] = p[i]
      /\ w[Len(p) + 1] = s
  BY <1>1
<1> HIDE DEF w
<1>5. ASSUME NEW i \in DOMAIN w
      PROVE  w[i] = l[((n + 1 - Len(w) + i - 1) % Len(l)) + 1]
  <2>1. CASE i \in 1 .. Len(p)
    <3>1. n + 1 - Len(w) + i - 1 = n - Len(p) + i - 1
      BY <1>1, <1>4, <2>1
    <3>2. w[i] = p[i] /\ i \in DOMAIN p
      BY <1>4, <2>1
    <3> QED BY <1>2, <3>1, <3>2
  <2>2. CASE i = Len(p) + 1
    <3>1. n + 1 - Len(w) + i - 1 = n
      BY <1>1, <1>4, <2>2
    <3> QED BY <1>3, <1>4, <2>2, <3>1
  <2> QED BY <1>1, <1>4, <1>5, <2>1, <2>2
<1>6. Len(w) <= n + 1
  BY <1>1, <1>4
<1>7. Rotated(l, w, n + 1)
  BY <1>2, <1>4, <1>5, <1>6 DEF Rotated
<1> QED BY <1>7 DEF s, w

\* Picks fewer than a whole round apart differ.
LEMMA RotatedDiffers ==
  ASSUME NEW l, NEW p, NEW n \in Nat, Rotated(l, p, n),
         NEW i \in DOMAIN p, NEW j \in DOMAIN p, i < j, j - i < Len(l)
  PROVE  p[i] # p[j]
<1> DEFINE m == Len(l)
           a == n - Len(p) + i - 1
           b == n - Len(p) + j - 1
<1>1. /\ l \in Seq(Sets) /\ p \in Seq(Sets) /\ Len(p) <= n
      /\ Distinct(l) /\ m > 0
      /\ p[i] = l[(a % m) + 1] /\ p[j] = l[(b % m) + 1]
  BY DEF Rotated
<1>2. m \in Nat /\ Len(p) \in Nat /\ i \in 1 .. Len(p) /\ j \in 1 .. Len(p)
  <2>1. DOMAIN p = 1 .. Len(p) /\ Len(p) \in Nat /\ Len(l) \in Nat
    BY <1>1
  <2> QED BY <2>1
<1>3. a \in Nat /\ b \in Nat /\ a < b /\ b < a + m
  <2> DEFINE k == Len(p)
  <2>1. k \in Nat /\ k <= n /\ i \in 1 .. k /\ j \in 1 .. k /\ j - i < m /\ m \in Nat
    BY <1>1, <1>2
  <2>2. a = n - k + i - 1 /\ b = n - k + j - 1
    OBVIOUS
  <2> HIDE DEF k, m, a, b
  <2> QED BY <2>1, <2>2
<1>4. DOMAIN l = 1 .. m
  BY <1>1
<1> HIDE DEF m, a, b
<1>5. a % m # b % m
  BY <1>1, <1>2, <1>3, ModDiffers
<1>6. a % m \in 0 .. m - 1 /\ b % m \in 0 .. m - 1
  BY <1>1, <1>2, <1>3
<1> DEFINE x == a % m
           y == b % m
<1> HIDE DEF x, y
<1>7. x \in 0 .. m - 1 /\ y \in 0 .. m - 1 /\ x # y
  BY <1>5, <1>6 DEF x, y
<1>8. x + 1 \in 1 .. m /\ y + 1 \in 1 .. m /\ x + 1 # y + 1
  BY <1>2, <1>7
<1>9. l[x + 1] # l[y + 1]
  BY <1>1, <1>4, <1>8 DEF Distinct
<1> QED BY <1>1, <1>9 DEF x, y

\* The picks since the candidates changed.
RoundInv == Rotated(round.list, round.picks, counter)

\* Nothing has been picked.
LEMMA NotRotated ==
  ASSUME NEW l \in Seq(Sets), Distinct(l), NEW n \in Nat
  PROVE  Rotated(l, <<>>, n)
<1>1. <<>> \in Seq(Sets) /\ Len(<<>>) = 0 /\ DOMAIN <<>> = {}
  OBVIOUS
<1> QED BY <1>1 DEF Rotated

\* A request of the user's adds a pick, a keep-alive none.
LEMMA AttachRound ==
  ASSUME SelectAssumption, PoolTypes, RoundInv, NEW keepalive \in BOOLEAN,
         NEW acc \in SUBSET Sets, AttachStream(keepalive, acc)
  PROVE  RoundInv'
<1>1. PICK c, s : Answers(keepalive, acc, c, s)
  BY AttachIs
<1>2. counter \in Nat
  BY DEF PoolTypes
<1>3. CASE Rotates(keepalive, c)
  <2> DEFINE p == IF round.list = c THEN round.picks ELSE <<>>
  <2>1. round' = [list |-> c, picks |-> p \o <<s>>]
    BY <1>1, <1>3 DEF Answers, Note
  <2>2. counter' = counter + 1
    BY <1>1, <1>3 DEF Answers, CountRotation
  <2>3. ~keepalive /\ c # <<>> /\ config.policy = "round_robin"
    BY <1>3 DEF Rotates
  <2>4. c \in Seq(Sets) /\ Distinct(c) /\ s = PickByPolicy(c) /\ s \in Sets
    BY <1>1, <2>3 DEF Answers
  <2>5. s = c[(counter % Len(c)) + 1]
    BY <2>3, <2>4, PickIs
  <2>6. Rotated(c, p, counter)
    <3>1. CASE round.list = c
      BY <3>1 DEF RoundInv
    <3>2. CASE round.list # c
      BY <1>2, <2>4, <3>2, NotRotated
    <3> QED BY <3>1, <3>2
  <2> HIDE DEF p
  <2>7. Len(c) > 0
    BY <2>3, <2>4
  <2>8. Rotated(c, p \o <<s>>, counter + 1)
    BY <1>2, <2>4, <2>5, <2>6, <2>7, RotatesOn
  <2>9. round'.list = c /\ round'.picks = p \o <<s>>
    BY <2>1
  <2>10. Rotated(round'.list, round'.picks, counter')
    BY <2>2, <2>8, <2>9
  <2> QED BY <2>10 DEF RoundInv, Rotated, Distinct
<1>4. CASE ~Rotates(keepalive, c)
  <2>1. round' = round /\ counter' = counter
    BY <1>1, <1>4 DEF Answers, Note, CountRotation
  <2> QED BY <2>1 DEF RoundInv, Rotated, Distinct
<1> QED BY <1>3, <1>4

\* Every step keeps the rotation.
LEMMA RoundStep ==
  ASSUME SelectAssumption, PoolTypes, RoundInv, [SelectNext]_selectVars
  PROVE  RoundInv'
<1>1. ASSUME UNCHANGED <<round, counter>>
      PROVE  RoundInv'
  BY <1>1 DEF RoundInv, Rotated, Distinct
<1>2. CASE UNCHANGED selectVars
  BY <1>1, <1>2 DEF selectVars
<1>3. ASSUME NEW keepalive \in BOOLEAN, NEW acc \in SUBSET Sets,
             AttachStream(keepalive, acc)
      PROVE  RoundInv'
  BY <1>3, AttachRound
<1>4. ASSUME NEW s \in Sets, CloseStream(s) \/ CloseSet(s)
      PROVE  RoundInv'
  BY <1>1, <1>4 DEF CloseStream, CloseSet, ghosts
<1>5. ASSUME NEW s \in Sets, NEW R \in LegRtts, UpdateRtt(s, R) \/ LinkSet(s, R)
      PROVE  RoundInv'
  BY <1>1, <1>5 DEF UpdateRtt, LinkSet, ghosts
<1> QED BY <1>2, <1>3, <1>4, <1>5 DEF SelectNext

\* The rotation gives every set its turn.
LEMMA RoundTurns ==
  ASSUME PoolTypes, RoundInv
  PROVE  RoundRobinTurns
<1>1. counter \in Nat /\ Rotated(round.list, round.picks, counter)
  BY DEF PoolTypes, RoundInv
<1> QED BY <1>1, RotatedDiffers DEF RoundRobinTurns

-----------------------------------------------------------------------------
(* Keep-alives.                                                             *)

\* s was linked before t, at the start.
Before(s, t) ==
  \E i, j \in DOMAIN InitSets : i < j /\ InitSets[i] = s /\ InitSets[j] = t

\* The list keeps the order of the start.
FirstOrder(q) ==
  /\ In(q) \subseteq In(InitSets)
  /\ \A i, j \in DOMAIN q : i < j => Before(q[i], q[j])

\* The totals differ by one at most, and the higher ones come first.
Even ==
  \A s, u \in In(pool) : /\ total[s] <= total[u] + 1
                         /\ total[s] = total[u] + 1 => Before(s, u)

\* The sets that had a keep-alive since s.
Ahead(s) ==
  {t \in In(InitSets) :
     t # s /\ (total[t] > total[s] \/ (total[t] = total[s] /\ Before(s, t)))}

\* Each of them had one.
Waits == \A s \in In(pool) : turn[s] <= Cardinality(Ahead(s))

KeepaliveInv ==
  /\ links = 0 => FirstOrder(pool)
  /\ calm /\ links = 0 => Even /\ Waits

\* Not both of two sets are before the other.
LEMMA BeforeOneWay ==
  ASSUME SelectAssumption, NEW s, NEW t, Before(s, t)
  PROVE  ~Before(t, s)
<1>1. PICK i, j \in DOMAIN InitSets : i < j /\ InitSets[i] = s /\ InitSets[j] = t
  BY DEF Before
<1>2. ASSUME NEW k \in DOMAIN InitSets, NEW m \in DOMAIN InitSets,
             k < m, InitSets[k] = t, InitSets[m] = s
      PROVE  FALSE
  <2>1. k = j /\ m = i
    BY <1>1, <1>2 DEF SelectAssumption, IsInjective
  <2>2. i \in Nat /\ j \in Nat
    BY DEF SelectAssumption
  <2> QED BY <1>1, <1>2, <2>1, <2>2
<1> QED BY <1>2 DEF Before

\* Sets that go leave the order as it was.
LEMMA OnlyFirstOrder ==
  ASSUME NEW q \in Seq(Sets), NEW S, FirstOrder(q)
  PROVE  FirstOrder(Only(q, S))
<1> DEFINE K == Kept(q, S)
           c == Cardinality(K)
           r == Only(q, S)
<1>1. r = [n \in 1 .. c |-> q[From(q, S, n)]]
  BY OnlyDef
<1>2. /\ K \subseteq DOMAIN q /\ K \subseteq Nat /\ IsFiniteSet(K) /\ c \in Nat
      /\ \A n \in 1 .. c : From(q, S, n) \in K /\ RankIn(K, From(q, S, n)) = n
  BY KeptFacts
<1>3. In(r) \subseteq In(InitSets)
  <2>1. In(r) = In(q) \cap S
    BY OnlyIs
  <2> QED BY <2>1 DEF FirstOrder
<1> HIDE DEF K, c, r
<1>4. DOMAIN r = 1 .. c /\ \A n \in 1 .. c : r[n] = q[From(q, S, n)]
  BY <1>1
<1>5. ASSUME NEW m \in 1 .. c, NEW n \in 1 .. c, m < n
      PROVE  Before(r[m], r[n])
  <2> DEFINE i == From(q, S, m)
             j == From(q, S, n)
  <2>1. i \in K /\ j \in K /\ RankIn(K, i) = m /\ RankIn(K, j) = n
    BY <1>2
  <2>2. r[m] = q[i] /\ r[n] = q[j]
    BY <1>4
  <2> HIDE DEF i, j
  <2>3. i \in Nat /\ j \in Nat /\ i \in DOMAIN q /\ j \in DOMAIN q /\ m \in Nat /\ n \in Nat
    BY <1>2, <2>1
  <2>4. i # j
    BY <1>5, <2>1, <2>3
  <2>5. ~(j < i)
    <3>1. j < i => RankIn(K, j) < RankIn(K, i)
      BY <1>2, <2>1, RankGrows
    <3> QED BY <1>5, <2>1, <2>3, <3>1
  <2>6. i < j
    BY <2>3, <2>4, <2>5
  <2> QED BY <2>2, <2>3, <2>6 DEF FirstOrder
<1>6. FirstOrder(r)
  BY <1>3, <1>4, <1>5 DEF FirstOrder
<1> QED BY <1>6 DEF r

\* There are finitely many sets ahead, fewer than there were at the start.
LEMMA AheadIs ==
  ASSUME SelectAssumption, NEW s \in In(InitSets)
  PROVE  /\ IsFiniteSet(Ahead(s)) /\ Cardinality(Ahead(s)) \in Nat
         /\ Cardinality(Ahead(s)) < Len(InitSets)
<1> DEFINE I == In(InitSets)
           A == Ahead(s)
<1>1. InitSets \in Seq(Sets) /\ Distinct(InitSets)
  BY DEF SelectAssumption, IsInjective, Distinct
<1>2. IsFiniteSet(I) /\ Cardinality(I) = Len(InitSets)
  BY <1>1, DistinctCard
<1>3. A \subseteq I /\ s \in I /\ s \notin A
  BY DEF Ahead
<1> HIDE DEF I, A
<1>4. IsFiniteSet(A) /\ Cardinality(A) <= Cardinality(I) /\ Cardinality(A) # Cardinality(I)
  BY <1>2, <1>3, FS_Subset
<1>5. Cardinality(A) \in Nat /\ Cardinality(I) \in Nat
  BY <1>2, <1>4, FS_CardinalityType
<1>6. Cardinality(A) < Cardinality(I)
  BY <1>4, <1>5
<1> QED BY <1>2, <1>4, <1>5, <1>6 DEF A

\* A keep-alive on the first set of the lowest total.
KeptAlive(p) ==
  /\ p \in In(pool)
  /\ \A u \in In(pool) : total[p] <= total[u]
  /\ \A u \in In(pool) : u # p /\ total[u] = total[p] => Before(p, u)
  /\ total' = [total EXCEPT ![p] = @ + 1]
  /\ turn' = [t \in Sets |-> IF t = p THEN 0 ELSE turn[t] + 1]
  /\ pool' = pool

\* In a calm time that is what a keep-alive does, if there is a set.
LEMMA CalmIs ==
  ASSUME SelectAssumption, PoolTypes, FirstOrder(pool), NEW keepalive \in BOOLEAN,
         NEW acc \in SUBSET Sets, AttachStream(keepalive, acc), calm'
  PROVE  /\ calm /\ links' = links /\ pool' = pool
         /\ UNCHANGED <<total, turn>> \/ \E p \in In(pool) : KeptAlive(p)
<1>1. PICK c, s : Answers(keepalive, acc, c, s)
  BY AttachIs
<1>2. calm' = (calm /\ keepalive /\ In(pool) \subseteq acc)
  BY <1>1 DEF Answers, Note
<1>3. calm /\ keepalive /\ In(pool) \subseteq acc
  BY <1>2
<1>4. pool \in Seq(Sets) /\ total \in [Sets -> Nat]
  BY DEF PoolTypes
<1>5. c = pool
  <2>1. Only(pool, acc) = pool
    BY <1>3, <1>4, OnlyAll
  <2> QED BY <1>1, <1>3, <2>1 DEF Answers
<1>6. links' = links /\ pool' = pool
  BY <1>1 DEF Answers
<1>7. CASE c = <<>>
  <2>1. s = NoPick
    BY <1>1, <1>7 DEF Answers
  <2>2. UNCHANGED <<total, turn>>
    BY <1>1, <2>1 DEF Answers, Note
  <2> QED BY <1>3, <1>6, <2>2
<1>8. CASE c # <<>>
  <2>1. s = PickKeepalive(c) /\ s # NoPick /\ s \in In(pool)
    BY <1>1, <1>3, <1>5, <1>8 DEF Answers
  <2>2. total' = [total EXCEPT ![s] = @ + 1]
    BY <1>1, <2>1 DEF Answers, LinkApconn
  <2>3. turn' = [t \in Sets |-> IF t = s THEN 0 ELSE turn[t] + 1]
    BY <1>1, <1>3, <2>1 DEF Answers, Note
  <2>4. PICK i \in DOMAIN pool : LeastAt(pool, total, i) /\ s = pool[i]
    BY <1>4, <1>5, <1>8, <2>1, KeepaliveIs
  <2>5. /\ \A j \in DOMAIN pool : total[s] <= total[pool[j]]
        /\ \A j \in DOMAIN pool : j < i => total[s] < total[pool[j]]
    BY <2>4 DEF LeastAt
  <2>6. \A u \in In(pool) : total[s] <= total[u]
    BY <2>5 DEF In
  <2>7. ASSUME NEW j \in DOMAIN pool, pool[j] # s, total[pool[j]] = total[s]
        PROVE  Before(s, pool[j])
    <3>1. i \in Nat /\ j \in Nat /\ total[s] \in Nat
      BY <1>4, <2>4
    <3>2. ~(j < i)
      BY <2>5, <2>7, <3>1
    <3>3. i < j
      BY <2>4, <2>7, <3>1, <3>2
    <3> QED BY <2>4, <3>3 DEF FirstOrder
  <2>8. \A u \in In(pool) : u # s /\ total[u] = total[s] => Before(s, u)
    BY <2>7 DEF In
  <2>9. KeptAlive(s)
    BY <1>6, <2>1, <2>2, <2>3, <2>6, <2>8 DEF KeptAlive
  <2> QED BY <1>3, <1>6, <2>1, <2>9
<1> QED BY <1>7, <1>8

\* It keeps the totals even,
LEMMA StaysEven ==
  ASSUME PoolTypes, Even, NEW p \in In(pool), KeptAlive(p)
  PROVE  Even'
<1>1. total \in [Sets -> Nat] /\ In(pool) \subseteq Sets /\ pool' = pool
  BY DEF PoolTypes, In, KeptAlive
<1>2. /\ p \in Sets /\ total[p] \in Nat /\ total'[p] = total[p] + 1
      /\ \A t \in Sets : t # p => total'[t] = total[t]
      /\ \A t \in Sets : total[t] \in Nat
  BY <1>1 DEF KeptAlive
<1>3. ASSUME NEW s \in In(pool), NEW u \in In(pool)
      PROVE  total'[s] <= total'[u] + 1 /\ (total'[s] = total'[u] + 1 => Before(s, u))
  <2>1. s \in Sets /\ u \in Sets /\ total[s] \in Nat /\ total[u] \in Nat
    BY <1>1, <1>2
  <2>2. total[s] <= total[u] + 1 /\ (total[s] = total[u] + 1 => Before(s, u))
    BY DEF Even
  <2>3. total[p] <= total[u] /\ (u # p /\ total[u] = total[p] => Before(p, u))
    BY DEF KeptAlive
  <2>4. CASE s = p /\ u = p
    BY <1>2, <2>4
  <2>5. CASE s = p /\ u # p
    BY <1>2, <2>1, <2>3, <2>5
  <2>6. CASE s # p /\ u = p
    BY <1>2, <2>1, <2>2, <2>6
  <2>7. CASE s # p /\ u # p
    BY <1>2, <2>1, <2>2, <2>7
  <2> QED BY <2>4, <2>5, <2>6, <2>7
<1>4. In(pool)' = In(pool)
  BY <1>1 DEF In
<1>5. \A s, u : Before(s, u)' <=> Before(s, u)
  BY DEF Before
<1> QED BY <1>3, <1>4, <1>5 DEF Even

\* and puts the set that got it ahead of each of the others.
LEMMA MovesAhead ==
  ASSUME SelectAssumption, PoolTypes, FirstOrder(pool), Even, Waits,
         NEW p \in In(pool), KeptAlive(p)
  PROVE  Waits'
<1>1. /\ total \in [Sets -> Nat] /\ turn \in [Sets -> Nat] /\ In(pool) \subseteq Sets
      /\ pool' = pool /\ In(pool) \subseteq In(InitSets) /\ In(InitSets) \subseteq Sets
  <2>1. total \in [Sets -> Nat] /\ turn \in [Sets -> Nat] /\ pool' = pool
    BY DEF PoolTypes, KeptAlive
  <2>2. In(pool) \subseteq In(InitSets)
    BY DEF FirstOrder
  <2>3. InitSets \in Seq(Sets)
    BY DEF SelectAssumption
  <2>4. In(InitSets) \subseteq Sets
    BY <2>3 DEF In
  <2> QED BY <2>1, <2>2, <2>4
<1>2. /\ p \in Sets /\ total[p] \in Nat /\ total'[p] = total[p] + 1
      /\ \A t \in Sets : t # p => total'[t] = total[t] /\ turn'[t] = turn[t] + 1
      /\ \A t \in Sets : total[t] \in Nat /\ turn[t] \in Nat
      /\ turn'[p] = 0
  BY <1>1 DEF KeptAlive
<1>3. \A s, u : Before(s, u)' <=> Before(s, u)
  BY DEF Before
<1>4. ASSUME NEW s \in In(pool)
      PROVE  turn'[s] <= Cardinality(Ahead(s)')
  <2> DEFINE A == Ahead(s)
             B == Ahead(s)'
  <2>1. s \in In(InitSets) /\ s \in Sets
    BY <1>1
  <2>2. B = {t \in In(InitSets) :
               t # s /\ (total'[t] > total'[s] \/ (total'[t] = total'[s] /\ Before(s, t)))}
    BY <1>3 DEF Ahead
  <2>3. B \subseteq In(InitSets)
    BY <2>2
  <2>4. IsFiniteSet(In(InitSets))
    BY DistinctCard DEF SelectAssumption
  <2>5. IsFiniteSet(B) /\ Cardinality(B) \in Nat
    <3> HIDE DEF B
    <3> QED BY <2>3, <2>4, FS_Subset, FS_CardinalityType
  <2>6. CASE s = p
    BY <1>2, <2>5, <2>6
  <2>7. CASE s # p
    <3>1. total[s] \in Nat /\ total'[s] = total[s] /\ turn'[s] = turn[s] + 1 /\ turn[s] \in Nat
      BY <1>2, <2>1, <2>7
    <3>2. p \notin A
      <4>1. total[p] <= total[s] /\ (total[s] = total[p] => Before(p, s))
        BY <2>7 DEF KeptAlive
      <4>2. ~(total[p] > total[s])
        BY <1>2, <3>1, <4>1
      <4>3. total[p] = total[s] => ~Before(s, p)
        BY <4>1, BeforeOneWay
      <4> QED BY <4>2, <4>3 DEF Ahead
    <3>3. p \in B
      <4>1. /\ total[p] <= total[s] /\ total[s] <= total[p] + 1
            /\ total[s] = total[p] + 1 => Before(s, p)
        BY DEF KeptAlive, Even
      <4>2. total'[p] > total'[s] \/ (total'[p] = total'[s] /\ Before(s, p))
        BY <1>2, <3>1, <4>1
      <4> QED BY <1>1, <2>2, <2>7, <4>2
    <3>4. A \subseteq B
      <4> SUFFICES ASSUME NEW t \in A
                   PROVE  t \in B
        OBVIOUS
      <4>1. /\ t \in In(InitSets) /\ t # s
            /\ total[t] > total[s] \/ (total[t] = total[s] /\ Before(s, t))
        BY DEF Ahead
      <4>2. t # p /\ t \in Sets
        BY <1>1, <3>2, <4>1
      <4>3. total'[t] = total[t]
        BY <1>2, <4>2
      <4> QED BY <2>2, <3>1, <4>1, <4>3
    <3>5. turn[s] <= Cardinality(A) /\ Cardinality(A) \in Nat
      BY <2>1, AheadIs DEF Waits
    <3> HIDE DEF A, B
    <3>6. Cardinality(A) <= Cardinality(B) /\ Cardinality(A) # Cardinality(B)
      BY <2>5, <3>2, <3>3, <3>4, FS_Subset
    <3>7. turn[s] + 1 <= Cardinality(B)
      BY <2>5, <3>1, <3>5, <3>6
    <3> QED BY <3>1, <3>7 DEF B
  <2> QED BY <2>6, <2>7
<1>5. In(pool)' = In(pool)
  BY <1>1 DEF In
<1> QED BY <1>4, <1>5 DEF Waits

\* A request keeps the invariant of the keep-alives.
LEMMA AttachKeepalive ==
  ASSUME SelectAssumption, PoolTypes, KeepaliveInv, NEW keepalive \in BOOLEAN,
         NEW acc \in SUBSET Sets, AttachStream(keepalive, acc)
  PROVE  KeepaliveInv'
<1>1. links' = links /\ pool' = pool
  BY DEF AttachStream
<1>2. \A s, u : Before(s, u)' <=> Before(s, u)
  BY DEF Before
<1>3. FirstOrder(pool)' <=> FirstOrder(pool)
  BY <1>1, <1>2 DEF FirstOrder, In
<1>4. ASSUME calm', links = 0
      PROVE  Even' /\ Waits'
  <2>1. FirstOrder(pool)
    BY <1>4 DEF KeepaliveInv
  <2>2. calm /\ (UNCHANGED <<total, turn>> \/ \E p \in In(pool) : KeptAlive(p))
    BY <1>4, <2>1, CalmIs
  <2>3. Even /\ Waits
    BY <1>4, <2>2 DEF KeepaliveInv
  <2>4. CASE UNCHANGED <<total, turn>>
    <3>1. Even'
      BY <1>1, <1>2, <2>3, <2>4 DEF Even, In
    <3>2. \A s : Ahead(s)' = Ahead(s)
      BY <1>2, <2>4 DEF Ahead
    <3>3. Waits'
      BY <1>1, <2>3, <2>4, <3>2 DEF Waits, In
    <3> QED BY <3>1, <3>3
  <2>5. CASE \E p \in In(pool) : KeptAlive(p)
    BY <2>1, <2>3, <2>5, StaysEven, MovesAhead
  <2> QED BY <2>2, <2>4, <2>5
<1> QED BY <1>1, <1>3, <1>4 DEF KeepaliveInv

\* So does a set that closes.
LEMMA CloseKeepalive ==
  ASSUME SelectAssumption, PoolTypes, KeepaliveInv, NEW s \in Sets, CloseSet(s)
  PROVE  KeepaliveInv'
<1>1. pool' = Only(pool, Sets \ {s}) /\ UNCHANGED <<links, total, turn, calm>>
  BY DEF CloseSet, ghosts
<1>2. pool \in Seq(Sets)
  BY DEF PoolTypes
<1>3. In(pool') \subseteq In(pool)
  <2>1. In(pool') = In(pool) \cap (Sets \ {s})
    BY <1>1, <1>2, OnlyIs
  <2> QED BY <2>1
<1>4. \A t, u : Before(t, u)' <=> Before(t, u)
  BY DEF Before
<1>5. In(pool)' = In(pool') /\ (FirstOrder(pool)' <=> FirstOrder(pool'))
  BY <1>4 DEF In, FirstOrder
<1>6. ASSUME links = 0
      PROVE  FirstOrder(pool)'
  <2>1. FirstOrder(pool)
    BY <1>6 DEF KeepaliveInv
  <2>2. FirstOrder(pool')
    BY <1>1, <1>2, <2>1, OnlyFirstOrder
  <2> QED BY <1>5, <2>2
<1>7. ASSUME calm, links = 0
      PROVE  Even' /\ Waits'
  <2>1. Even /\ Waits
    BY <1>7 DEF KeepaliveInv
  <2>2. Even'
    BY <1>1, <1>3, <1>4, <1>5, <2>1 DEF Even
  <2>3. \A t : Ahead(t)' = Ahead(t)
    BY <1>1, <1>4 DEF Ahead
  <2>4. Waits'
    BY <1>1, <1>3, <1>5, <2>1, <2>3 DEF Waits
  <2> QED BY <2>2, <2>4
<1> QED BY <1>1, <1>6, <1>7 DEF KeepaliveInv

\* Every step keeps it.
LEMMA KeepaliveStep ==
  ASSUME SelectAssumption, PoolTypes, KeepaliveInv, [SelectNext]_selectVars
  PROVE  KeepaliveInv'
<1>1. ASSUME UNCHANGED <<pool, links, total, turn, calm>>
      PROVE  KeepaliveInv'
  <2>1. \A t, u : Before(t, u)' <=> Before(t, u)
    BY DEF Before
  <2>2. In(pool)' = In(pool) /\ (FirstOrder(pool)' <=> FirstOrder(pool))
    BY <1>1, <2>1 DEF In, FirstOrder
  <2>3. Even' <=> Even
    BY <1>1, <2>1, <2>2 DEF Even
  <2>4. \A t : Ahead(t)' = Ahead(t)
    BY <1>1, <2>1 DEF Ahead
  <2>5. Waits' <=> Waits
    BY <1>1, <2>2, <2>4 DEF Waits
  <2> QED BY <1>1, <2>2, <2>3, <2>5 DEF KeepaliveInv
<1>2. CASE UNCHANGED selectVars
  BY <1>1, <1>2 DEF selectVars
<1>3. ASSUME NEW keepalive \in BOOLEAN, NEW acc \in SUBSET Sets,
             AttachStream(keepalive, acc)
      PROVE  KeepaliveInv'
  BY <1>3, AttachKeepalive
<1>4. ASSUME NEW s \in Sets, CloseStream(s) \/ CloseSet(s)
      PROVE  KeepaliveInv'
  <2>1. CASE CloseStream(s)
    BY <1>1, <2>1 DEF CloseStream, ghosts
  <2>2. CASE CloseSet(s)
    BY <2>2, CloseKeepalive
  <2> QED BY <1>4, <2>1, <2>2
<1>5. ASSUME NEW s \in Sets, NEW R \in LegRtts, UpdateRtt(s, R) \/ LinkSet(s, R)
      PROVE  KeepaliveInv'
  <2>1. CASE UpdateRtt(s, R)
    BY <1>1, <2>1 DEF UpdateRtt, ghosts
  <2>2. CASE LinkSet(s, R)
    <3>1. links \in Nat /\ links' = links + 1
      BY <2>2 DEF LinkSet, PoolTypes
    <3>2. links' # 0
      BY <3>1
    <3> QED BY <3>2 DEF KeepaliveInv
  <2> QED BY <1>5, <2>1, <2>2
<1> QED BY <1>2, <1>3, <1>4, <1>5 DEF SelectNext

\* It holds at the start.
LEMMA KeepaliveInitially ==
  ASSUME SelectAssumption, SelectInit
  PROVE  KeepaliveInv
<1>1. InitSets \in Seq(Sets) /\ pool = InitSets
  BY DEF SelectAssumption, SelectInit
<1>2. FirstOrder(pool)
  BY <1>1 DEF FirstOrder, Before
<1>3. \A s \in In(pool) : s \in Sets /\ total[s] = 0 /\ turn[s] = 0
  BY <1>1 DEF SelectInit, In
<1>4. Even
  BY <1>3 DEF Even
<1>5. Waits
  <2> SUFFICES ASSUME NEW s \in In(pool)
               PROVE  turn[s] <= Cardinality(Ahead(s))
    BY DEF Waits
  <2>1. Cardinality(Ahead(s)) \in Nat
    BY <1>1, AheadIs
  <2> QED BY <1>3, <2>1
<1> QED BY <1>2, <1>4, <1>5 DEF KeepaliveInv

\* No set waits for longer than a round.
LEMMA KeepaliveBound ==
  ASSUME SelectAssumption, PoolTypes, KeepaliveInv
  PROVE  KeepaliveTurns
<1> SUFFICES ASSUME calm, links = 0, NEW s \in In(pool)
             PROVE  turn[s] < Len(InitSets)
  BY DEF KeepaliveTurns
<1>1. FirstOrder(pool) /\ Waits
  BY DEF KeepaliveInv
<1>2. s \in In(InitSets)
  BY <1>1 DEF FirstOrder
<1>3. Cardinality(Ahead(s)) \in Nat /\ Cardinality(Ahead(s)) < Len(InitSets)
  BY <1>2, AheadIs
<1>4. turn[s] <= Cardinality(Ahead(s))
  BY <1>1 DEF Waits
<1>5. pool \in Seq(Sets) /\ turn \in [Sets -> Nat]
  BY DEF PoolTypes
<1>6. turn[s] \in Nat
  BY <1>5 DEF In
<1>7. Len(InitSets) \in Nat
  BY DEF SelectAssumption
<1> QED BY <1>3, <1>4, <1>6, <1>7

\* Round robin comes back to a set only after all the others, and keep-alives
\* reach every set once in as many as there were at the start, sets closing or
\* not, whatever the number of sets (conflux_pick_set_from_candidates).
THEOREM TurnsAlwaysFair ==
  ASSUME SelectAssumption
  PROVE  SelectSpec => []TurnsAreFair
<1> DEFINE SelectInv == PoolTypes /\ RoundInv /\ KeepaliveInv
<1>1. SelectInit => SelectInv
  <2> SUFFICES ASSUME SelectInit
               PROVE  SelectInv
    OBVIOUS
  <2>1. PoolTypes /\ KeepaliveInv
    BY SelectInitTypes, KeepaliveInitially
  <2>2. round.list = <<>> /\ round.picks = <<>> /\ counter = 0
    BY DEF SelectInit
  <2>3. <<>> \in Seq(Sets) /\ Distinct(<<>>)
    BY DEF Distinct
  <2>4. Rotated(<<>>, <<>>, 0)
    BY <2>3, NotRotated
  <2> QED BY <2>1, <2>2, <2>4 DEF RoundInv
<1>2. SelectInv /\ [SelectNext]_selectVars => SelectInv'
  BY SelectStepTypes, RoundStep, KeepaliveStep
<1>3. SelectInv => TurnsAreFair
  BY RoundTurns, KeepaliveBound DEF TurnsAreFair
<1> QED BY <1>1, <1>2, <1>3, PTL DEF SelectSpec

-----------------------------------------------------------------------------
(* The circuit health monitor.                                              *)

\* What tor has in a slot, and the counts.
WatchTypes ==
  /\ leg \in [Legs -> [at : {"none", "unlinked", "linked"},
                       set : WatchSets \cup {0}, rtt : Nat]]
  /\ weakStrikes \in [Legs -> Nat] /\ streak \in [Legs -> Nat]

\* Only measured legs have strikes, and each of a leg's strikes was earned in
\* the latest passes.
StrikesEarned ==
  \A l \in Legs : /\ l \notin Pool => weakStrikes[l] = 0
                  /\ weakStrikes[l] <= streak[l]

WatchInv == WatchTypes /\ StrikesEarned

\* The lower of two numbers is at most each of them.
LEMMA MinOfTwo ==
  ASSUME NEW a \in Int, NEW b \in Int
  PROVE  Min({a, b}) \in Int /\ Min({a, b}) <= a /\ Min({a, b}) <= b
<1>1. \E x \in {a, b} : \A y \in {a, b} : x =< y
  OBVIOUS
<1>2. Min({a, b}) \in {a, b} /\ \A y \in {a, b} : Min({a, b}) =< y
  BY <1>1 DEF Min
<1> QED BY <1>2

\* The legs' facts.
LEMMA LegFacts ==
  ASSUME WatchAssumption, WatchTypes
  PROVE  /\ \A l \in Legs : leg[l].rtt \in Nat
         /\ Pool \subseteq Legs /\ IsFiniteSet(Pool) /\ Cardinality(Pool) \in Nat
         /\ \A l \in Pool : leg[l].at = "linked"
<1>1. \A l \in Legs : leg[l].rtt \in Nat
  BY DEF WatchTypes
<1>2. Pool \subseteq Legs /\ \A l \in Pool : leg[l].at = "linked"
  BY DEF Pool, LinkedLegs
<1>3. IsFiniteSet(Pool)
  BY <1>2, FS_Subset DEF WatchAssumption
<1>4. Cardinality(Pool) \in Nat
  BY <1>3, FS_CardinalityType
<1> QED BY <1>1, <1>2, <1>3, <1>4

\* The legs ranked weak are measured ones, and one of the lowest RTT is not
\* among them.
LEMMA WeakSparesBest ==
  ASSUME WatchAssumption, WatchTypes, NEW weak \in PctWeak
  PROVE  /\ weak \subseteq Pool
         /\ Cardinality(Pool) >= 2 =>
              \E b \in Pool \ weak : \A x \in Pool : leg[b].rtt <= leg[x].rtt
<1> DEFINE n == Cardinality(Pool)
<1>1. CASE n >= 2
  <2>1. weak \in Slowest(Pool, Keep(n))
    BY <1>1 DEF PctWeak
  <2>2. /\ weak \subseteq Pool /\ Cardinality(weak) = Keep(n)
        /\ \A w \in weak, x \in Pool \ weak : leg[w].rtt >= leg[x].rtt
    BY <2>1 DEF Slowest, kSubset
  <2>3. n \in Nat
    BY LegFacts
  <2>4. Keep(n) # n
    <3> DEFINE k == (n * WatchRttPct + 99) \div 100
               a == Max({k, 1})
    <3>1. WatchRttPct \in Nat
      BY DEF WatchAssumption
    <3>2. n * WatchRttPct + 99 \in Nat
      BY <2>3, <3>1
    <3>3. k \in Nat
      BY <3>2
    <3>4. Keep(n) = Min({a, n - 1})
      BY DEF Keep
    <3> HIDE DEF k
    <3>5. a \in Int
      <4>1. \E x \in {k, 1} : \A y \in {k, 1} : x >= y
        BY <3>3
      <4>2. a \in {k, 1}
        BY <4>1 DEF Max
      <4> QED BY <3>3, <4>2
    <3> HIDE DEF a
    <3>6. n - 1 \in Int
      BY <2>3
    <3>7. Min({a, n - 1}) \in Int /\ Min({a, n - 1}) <= n - 1
      BY <3>5, <3>6, MinOfTwo
    <3> QED BY <2>3, <3>4, <3>7
  <2>5. Pool \ weak # {}
    <3>1. weak # Pool
      BY <2>2, <2>4
    <3> QED BY <2>2, <3>1
  <2> DEFINE V == {leg[x].rtt : x \in Pool \ weak}
  <2>6. V \in SUBSET Nat /\ V # {}
    BY <2>5, LegFacts
  <2>7. PICK v \in V : \A w \in V : v <= w
    <3> HIDE DEF V
    <3> QED BY <2>6, LeastOf
  <2>8. PICK b \in Pool \ weak : leg[b].rtt = v
    OBVIOUS
  <2>9. ASSUME NEW x \in Pool
        PROVE  leg[b].rtt <= leg[x].rtt
    <3>1. CASE x \in weak
      <4>1. leg[x].rtt >= leg[b].rtt /\ leg[x].rtt \in Nat /\ leg[b].rtt \in Nat
        BY <2>2, <2>8, <3>1, LegFacts
      <4> QED BY <4>1
    <3>2. CASE x \notin weak
      BY <2>7, <2>8, <3>2
    <3> QED BY <3>1, <3>2
  <2> QED BY <2>2, <2>8, <2>9
<1>2. CASE ~(n >= 2)
  BY <1>2 DEF PctWeak
<1> QED BY <1>1, <1>2

\* What a pass does with the legs it ranks weak.
Passes(weak) ==
  /\ weak \in PctWeak
  /\ \A l \in todo' : \/ l \in weak /\ Strikes(weak, l) >= WatchStrikes
                      \/ leg[l].at = "unlinked"
  /\ weakStrikes' = [l \in Legs |-> Cap(Strikes(weak, l))]
  /\ streak' = [l \in Legs |-> IF l \in weak THEN Cap(streak[l] + 1) ELSE 0]

\* It lists the ones with the strikes, and legs that are not linked.
LEMMA PassIs ==
  ASSUME WatchPass
  PROVE  /\ \E weak \in PctWeak : Passes(weak)
         /\ \E added \in SUBSET (Legs \ LiveLegs) : \E into \in [added -> WatchSets] :
              leg' = [l \in Legs |-> IF l \in added THEN New(into[l]) ELSE leg[l]]
<1> DEFINE struck(weak) == {l \in weak : Strikes(weak, l) >= WatchStrikes}
           stuck == {l \in LiveLegs :
                       /\ leg[l].at = "unlinked" /\ ~warmup /\ grown[l]
                       /\ UnlinkedStrikes(l) >= WatchUnlinkedStrikes}
           room(R) == Min({WatchMaxPerPass - Cardinality(R), Cardinality(stuck)})
<1>1. PICK weak \in PctWeak :
        \E R \in Slowest(struck(weak), Min({WatchMaxPerPass, Cardinality(struck(weak))})) :
        \E S \in kSubset(room(R), stuck) :
          /\ todo' = R \cup S
          /\ weakStrikes' = [l \in Legs |-> Cap(Strikes(weak, l))]
          /\ streak' = [l \in Legs |-> IF l \in weak THEN Cap(streak[l] + 1) ELSE 0]
  BY DEF WatchPass
<1>2. PICK R \in Slowest(struck(weak), Min({WatchMaxPerPass, Cardinality(struck(weak))})) :
        \E S \in kSubset(room(R), stuck) :
          /\ todo' = R \cup S
          /\ weakStrikes' = [l \in Legs |-> Cap(Strikes(weak, l))]
          /\ streak' = [l \in Legs |-> IF l \in weak THEN Cap(streak[l] + 1) ELSE 0]
  BY <1>1
<1>3. PICK S \in kSubset(room(R), stuck) :
          /\ todo' = R \cup S
          /\ weakStrikes' = [l \in Legs |-> Cap(Strikes(weak, l))]
          /\ streak' = [l \in Legs |-> IF l \in weak THEN Cap(streak[l] + 1) ELSE 0]
  BY <1>2
<1>4. R \subseteq struck(weak)
  BY <1>2 DEF Slowest, kSubset
<1>5. S \subseteq stuck
  BY <1>3 DEF kSubset
<1>6. Passes(weak)
  BY <1>3, <1>4, <1>5 DEF Passes
<1>7. \E added \in SUBSET (Legs \ LiveLegs) : \E into \in [added -> WatchSets] :
        leg' = [l \in Legs |-> IF l \in added THEN New(into[l]) ELSE leg[l]]
  BY DEF WatchPass
<1> QED BY <1>6, <1>7

\* So it spares one of the fastest, and what it lists has its strikes in a row.
LEMMA PassIsFair ==
  ASSUME WatchAssumption, WatchInv, WatchPass
  PROVE  SparesBest /\ ListsTheStruck
<1>1. PICK weak \in PctWeak : Passes(weak)
  BY PassIs
<1>2. /\ weak \subseteq Pool
      /\ Cardinality(Pool) >= 2 =>
           \E b \in Pool \ weak : \A x \in Pool : leg[b].rtt <= leg[x].rtt
  BY WeakSparesBest DEF WatchInv
<1>3. Pool \subseteq Legs /\ \A l \in Pool : leg[l].at = "linked"
  BY LegFacts DEF WatchInv
<1>4. SparesBest
  <2> SUFFICES ASSUME Cardinality(Pool) >= 2
               PROVE  \E b \in Pool \ todo' : \A x \in Pool : leg[b].rtt <= leg[x].rtt
    BY DEF SparesBest
  <2>1. PICK b \in Pool \ weak : \A x \in Pool : leg[b].rtt <= leg[x].rtt
    BY <1>2
  <2>2. leg[b].at = "linked"
    BY <1>3
  <2>3. b \notin todo'
    BY <1>1, <2>1, <2>2 DEF Passes
  <2> QED BY <2>1, <2>3
<1>5. ListsTheStruck
  <2> SUFFICES ASSUME NEW l \in todo', leg[l].at = "linked"
               PROVE  streak'[l] >= WatchStrikes
    BY DEF ListsTheStruck
  <2>1. l \in weak /\ Strikes(weak, l) >= WatchStrikes
    BY <1>1 DEF Passes
  <2>2. l \in Legs /\ l \in Pool
    BY <1>2, <1>3, <2>1
  <2>3. l \in LiveLegs
    BY <2>2 DEF LiveLegs
  <2>4. Strikes(weak, l) = weakStrikes[l] + 1
    BY <2>1, <2>3 DEF Strikes
  <2>5. weakStrikes[l] <= streak[l] /\ weakStrikes[l] \in Nat /\ streak[l] \in Nat
    BY <2>2 DEF WatchInv, WatchTypes, StrikesEarned
  <2>6. streak'[l] = Cap(streak[l] + 1)
    BY <1>1, <2>1, <2>2 DEF Passes
  <2>7. WatchStrikes \in Nat
    BY DEF WatchAssumption
  <2> QED BY <2>1, <2>4, <2>5, <2>6, <2>7 DEF Cap
<1> QED BY <1>4, <1>5

\* A pass keeps the invariant.
LEMMA PassKeeps ==
  ASSUME WatchAssumption, WatchInv, WatchPass
  PROVE  WatchInv'
<1>1. PICK weak \in PctWeak : Passes(weak)
  BY PassIs
<1>2. weak \subseteq Pool /\ Pool \subseteq Legs
  BY WeakSparesBest, LegFacts DEF WatchInv
<1>3. PICK added \in SUBSET (Legs \ LiveLegs) : \E into \in [added -> WatchSets] :
        leg' = [l \in Legs |-> IF l \in added THEN New(into[l]) ELSE leg[l]]
  BY PassIs
<1>4. PICK into \in [added -> WatchSets] :
        leg' = [l \in Legs |-> IF l \in added THEN New(into[l]) ELSE leg[l]]
  BY <1>3
<1>5. leg' \in [Legs -> [at : {"none", "unlinked", "linked"},
                         set : WatchSets \cup {0}, rtt : Nat]]
  BY <1>4 DEF WatchInv, WatchTypes, New
<1>6. WatchStrikes \in Nat
  BY DEF WatchAssumption
<1>7. ASSUME NEW l \in Legs
      PROVE  /\ weakStrikes'[l] \in Nat /\ streak'[l] \in Nat
             /\ weakStrikes'[l] <= streak'[l]
             /\ l \notin Pool' => weakStrikes'[l] = 0
  <2>1. /\ weakStrikes[l] \in Nat /\ streak[l] \in Nat /\ weakStrikes[l] <= streak[l]
        /\ l \notin Pool => weakStrikes[l] = 0
    BY DEF WatchInv, WatchTypes, StrikesEarned
  <2>2. /\ weakStrikes'[l] = Cap(Strikes(weak, l))
        /\ streak'[l] = IF l \in weak THEN Cap(streak[l] + 1) ELSE 0
    BY <1>1 DEF Passes
  <2>3. l \in Pool => l \in LiveLegs /\ l \in Pool'
    BY <1>4 DEF Pool, LinkedLegs, LiveLegs
  <2>4. CASE l \in weak
    <3>1. Strikes(weak, l) = weakStrikes[l] + 1 /\ l \in Pool'
      BY <1>2, <2>3, <2>4 DEF Strikes
    <3> QED BY <1>6, <2>1, <2>2, <2>4, <3>1 DEF Cap
  <2>5. CASE l \notin weak
    <3>1. Strikes(weak, l) = 0
      BY <2>1, <2>5 DEF Strikes
    <3> QED BY <1>6, <2>2, <2>5, <3>1 DEF Cap
  <2> QED BY <2>4, <2>5
<1>8. weakStrikes' \in [Legs -> Nat] /\ streak' \in [Legs -> Nat]
  <2>1. /\ weakStrikes' = [l \in Legs |-> Cap(Strikes(weak, l))]
        /\ streak' = [l \in Legs |-> IF l \in weak THEN Cap(streak[l] + 1) ELSE 0]
    BY <1>1 DEF Passes
  <2> QED BY <1>7, <2>1
<1>9. WatchTypes'
  BY <1>5, <1>8 DEF WatchTypes
<1>10. StrikesEarned'
  BY <1>7 DEF StrikesEarned
<1> QED BY <1>9, <1>10 DEF WatchInv

\* The end of a leg keeps it: the next circuit in its slot has no strikes.
LEMMA ClosedKeeps ==
  ASSUME WatchAssumption, WatchInv, NEW l \in Legs, NEW fate, Closed(l, fate)
  PROVE  WatchInv'
<1> DEFINE s == leg[l].set
           gone == IF fate = "teardown" THEN OfSet(s) ELSE {l}
<1>1. PICK fresh \in SUBSET ((Legs \ LiveLegs) \cup {l}) :
        leg' = [k \in Legs |-> IF k \in fresh THEN New(s)
                               ELSE IF k \in gone THEN NoLeg ELSE leg[k]]
  BY DEF Closed
<1>2. /\ weakStrikes' = [k \in Legs |-> IF k \in gone THEN 0 ELSE weakStrikes[k]]
      /\ streak' = [k \in Legs |-> IF k \in gone THEN 0 ELSE streak[k]]
  BY DEF Closed
<1>3. s \in WatchSets \cup {0}
  BY DEF WatchInv, WatchTypes
<1>4. l \in LiveLegs => l \in gone
  BY DEF OfSet
<1> HIDE DEF s, gone
<1>5. leg' \in [Legs -> [at : {"none", "unlinked", "linked"},
                         set : WatchSets \cup {0}, rtt : Nat]]
  BY <1>1, <1>3 DEF WatchInv, WatchTypes, New, NoLeg
<1>6. weakStrikes' \in [Legs -> Nat] /\ streak' \in [Legs -> Nat]
  BY <1>2 DEF WatchInv, WatchTypes
<1>7. ASSUME NEW k \in Legs
      PROVE  /\ k \notin Pool' => weakStrikes'[k] = 0
             /\ weakStrikes'[k] <= streak'[k]
  <2>1. /\ k \notin Pool => weakStrikes[k] = 0
        /\ weakStrikes[k] <= streak[k]
    BY DEF WatchInv, StrikesEarned
  <2>2. CASE k \in gone
    BY <1>2, <2>2
  <2>3. CASE k \notin gone
    <3>1. weakStrikes'[k] = weakStrikes[k] /\ streak'[k] = streak[k]
      BY <1>2, <2>3
    <3>2. CASE k \in fresh
      <4>1. k \notin LiveLegs
        BY <1>1, <1>4, <2>3, <3>2
      <4>2. k \notin Pool
        BY <4>1 DEF Pool, LinkedLegs, LiveLegs
      <4> QED BY <2>1, <3>1, <4>2
    <3>3. CASE k \notin fresh
      <4>1. leg'[k] = leg[k]
        BY <1>1, <2>3, <3>3
      <4>2. k \notin Pool' => k \notin Pool
        BY <4>1 DEF Pool, LinkedLegs
      <4> QED BY <2>1, <3>1, <4>2
    <3> QED BY <3>2, <3>3
  <2> QED BY <2>2, <2>3
<1>8. WatchTypes'
  BY <1>5, <1>6 DEF WatchTypes
<1>9. StrikesEarned'
  BY <1>7 DEF StrikesEarned
<1> QED BY <1>8, <1>9 DEF WatchInv

\* A measurement keeps it: a measured leg stays one.
LEMMA LinksKeeps ==
  ASSUME WatchAssumption, WatchInv, NEW l \in Legs, NEW rtt \in 0 .. MaxRtt,
         rtt = 0 => leg[l].at = "unlinked", LegLinks(l, rtt)
  PROVE  WatchInv'
<1>1. /\ leg' = [leg EXCEPT ![l].at = "linked", ![l].rtt = rtt]
      /\ weakStrikes' = weakStrikes /\ streak' = streak
  BY DEF LegLinks, counts
<1>2. rtt \in Nat
  BY DEF WatchAssumption
<1>3. WatchTypes'
  BY <1>1, <1>2 DEF WatchInv, WatchTypes
<1>4. ASSUME NEW k \in Pool
      PROVE  k \in Pool'
  <2>1. k \in Legs /\ leg[k].at = "linked" /\ leg[k].rtt > 0
    BY DEF Pool, LinkedLegs
  <2>2. CASE k = l
    <3>1. rtt > 0
      BY <1>2, <2>1, <2>2
    <3>2. leg'[k].at = "linked" /\ leg'[k].rtt = rtt
      BY <1>1, <2>2 DEF WatchInv, WatchTypes
    <3> QED BY <2>1, <3>1, <3>2 DEF Pool, LinkedLegs
  <2>3. CASE k # l
    <3>1. leg'[k] = leg[k]
      BY <1>1, <2>1, <2>3 DEF WatchInv, WatchTypes
    <3> QED BY <2>1, <3>1 DEF Pool, LinkedLegs
  <2> QED BY <2>2, <2>3
<1>5. StrikesEarned'
  BY <1>1, <1>4 DEF WatchInv, StrikesEarned
<1> QED BY <1>3, <1>5 DEF WatchInv

\* Nothing is listed outside a pass.
Unlisted == todo = {} => todo' = {}

\* Then nothing is listed unfairly.
LEMMA UnlistedIsFair ==
  ASSUME Unlisted
  PROVE  SparesBest /\ ListsTheStruck
BY DEF Unlisted, SparesBest, ListsTheStruck

\* Steps that move neither legs nor strikes keep the invariant.
LEMMA SameStrikes ==
  ASSUME WatchInv, UNCHANGED <<leg, weakStrikes, streak>>
  PROVE  WatchInv'
BY DEF WatchInv, WatchTypes, StrikesEarned, Pool, LinkedLegs

\* Every step keeps the invariant and is fair.
LEMMA WatchStep ==
  ASSUME WatchAssumption, WatchInv, WatchNext
  PROVE  WatchInv' /\ SparesBest /\ ListsTheStruck
<1>1. CASE WatchPass
  BY <1>1, PassKeeps, PassIsFair
<1>2. ASSUME NEW l \in Legs, NEW fate \in Fates, CloseOne(l, fate) \/ LegCloses(l, fate)
      PROVE  WatchInv' /\ SparesBest /\ ListsTheStruck
  <2>1. Closed(l, fate)
    BY <1>2 DEF CloseOne, LegCloses
  <2>2. WatchInv'
    BY <2>1, ClosedKeeps
  <2>3. Unlisted
    BY <2>1 DEF Closed, Unlisted
  <2> QED BY <2>2, <2>3, UnlistedIsFair
<1>3. ASSUME NEW l \in Legs, NEW rtt \in 0 .. MaxRtt,
             rtt = 0 => leg[l].at = "unlinked", LegLinks(l, rtt)
      PROVE  WatchInv' /\ SparesBest /\ ListsTheStruck
  <2>1. WatchInv'
    BY <1>3, LinksKeeps
  <2>2. Unlisted
    BY <1>3 DEF LegLinks, Unlisted
  <2> QED BY <2>1, <2>2, UnlistedIsFair
<1>4. ASSUME \/ WarmupEnds \/ CooldownEnds
             \/ \E l \in Legs : GraceEnds(l) \/ CurrMoves(l)
      PROVE  WatchInv' /\ SparesBest /\ ListsTheStruck
  <2>1. UNCHANGED <<leg, weakStrikes, streak>> /\ todo' = todo
    BY <1>4 DEF WarmupEnds, CooldownEnds, GraceEnds, CurrMoves, counts
  <2>2. Unlisted
    BY <2>1 DEF Unlisted
  <2> QED BY <2>1, <2>2, SameStrikes, UnlistedIsFair
<1> QED BY <1>1, <1>2, <1>3, <1>4 DEF WatchNext, Monitor

\* At first no leg has strikes.
LEMMA WatchInitially ==
  ASSUME WatchInit
  PROVE  WatchInv
<1>1. leg \in [Legs -> [at : {"none", "unlinked", "linked"},
                        set : WatchSets \cup {0}, rtt : Nat]]
  BY DEF WatchInit, NoLeg, New
<1>2. \A l \in Legs : weakStrikes[l] = 0 /\ streak[l] = 0
  BY DEF WatchInit
<1>3. weakStrikes \in [Legs -> Nat] /\ streak \in [Legs -> Nat]
  BY DEF WatchInit
<1> QED BY <1>1, <1>2, <1>3 DEF WatchInv, WatchTypes, StrikesEarned

\* Whatever the number of legs and sets, the percentage, the strikes it takes
\* and the ways legs end, a pass of CircuitWatchLoop leaves one of the fastest
\* legs alone and lists for its RTT only a leg that was among the slowest in
\* that many passes in a row.
THEOREM AlwaysListsFairly ==
  ASSUME WatchAssumption
  PROVE  WatchSpec => ListsFairly
<1>1. WatchInit => WatchInv
  BY WatchInitially
<1>2. WatchInv /\ [WatchNext]_watchVars => WatchInv'
  <2>1. CASE WatchNext
    BY <2>1, WatchStep
  <2>2. CASE UNCHANGED watchVars
    BY <2>2, SameStrikes DEF watchVars, counts
  <2> QED BY <2>1, <2>2
<1>3. WatchInv /\ [WatchNext]_watchVars => [SparesBest /\ ListsTheStruck]_watchVars
  BY WatchStep
<1> QED BY <1>1, <1>2, <1>3, PTL DEF WatchSpec, ListsFairly
=============================================================================
