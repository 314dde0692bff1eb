------------------------------ MODULE RanksProofs ------------------------------
(* Every rank from one to the size of a finite set of numbers is taken once. *)
EXTENDS Ranks, FiniteSetTheorems, TLAPS

\* The elements of a finite set of numbers have ranks, each from one to their number.
LEMMA RankExists ==
  ASSUME NEW S \in SUBSET Nat, IsFiniteSet(S), NEW j \in 1..Cardinality(S)
  PROVE  Nth(S, j) \in S /\ Cardinality({h \in S : h <= Nth(S, j)}) = j
<1> DEFINE below(k) == {h \in S : h <= k}
           rank == [k \in S |-> Cardinality(below(k))]
<1>1. Cardinality(S) \in Nat /\ IsFiniteSet(1..Cardinality(S)) /\ Cardinality(1..Cardinality(S)) = Cardinality(S)
  BY FS_CardinalityType, FS_Interval
<1>2. ASSUME NEW k \in S
      PROVE  IsFiniteSet(below(k)) /\ Cardinality(below(k)) \in 1..Cardinality(S)
  <2>1. below(k) \in SUBSET S
    OBVIOUS
  <2>2. IsFiniteSet(below(k)) /\ Cardinality(below(k)) <= Cardinality(S)
    BY <2>1, FS_Subset
  <2>3. k \in below(k)
    OBVIOUS
  <2>4. Cardinality(below(k)) \in Nat /\ Cardinality(below(k)) # 0
    BY <2>2, <2>3, FS_CardinalityType, FS_EmptySet
  <2>5. QED
    BY <1>1, <2>2, <2>4
<1>3. ASSUME NEW i \in S, NEW k \in S, i < k PROVE rank[i] # rank[k]
  <2>0. i \in Nat /\ k \in Nat /\ \A h \in S : h \in Nat
    OBVIOUS
  <2>1. below(i) \in SUBSET below(k)
    <3>1. \A h \in S : h <= i => h <= k
      BY <1>3, <2>0
    <3>2. QED
      BY <3>1
  <2>2. k \in below(k) /\ k \notin below(i)
    BY <1>3, <2>0
  <2>3. below(i) # below(k)
    BY <2>2
  <2>4. Cardinality(below(i)) # Cardinality(below(k))
    BY <1>2, <2>1, <2>3, FS_Subset
  <2>5. QED
    BY <2>4
<1>4. \A h, k \in S : h # k => h < k \/ k < h
  OBVIOUS
<1>5. rank \in [S -> 1..Cardinality(S)]
  BY <1>2
<1>6. \A h, k \in S : rank[h] = rank[k] => h = k
  BY <1>3, <1>4
<1> HIDE DEF rank
<1>7. rank \in Injection(S, 1..Cardinality(S))
  BY <1>5, <1>6 DEF Injection, IsInjective
<1>8. rank \in Surjection(S, 1..Cardinality(S))
  BY <1>1, <1>7, FS_Injection
<1>9. PICK k \in S : rank[k] = j
  BY <1>8 DEF Surjection
<1>10. \E i \in S : Cardinality({h \in S : h <= i}) = j
  BY <1>9 DEF rank
<1>11. QED
  BY <1>10 DEF Nth

\* The values a function takes on a finite set are finitely many.
LEMMA ValuesFinite ==
  ASSUME NEW S, IsFiniteSet(S), NEW f
  PROVE  IsFiniteSet({f[x] : x \in S})
<1> DEFINE onto == [x \in S |-> f[x]]
<1>1. onto \in Surjection(S, {f[x] : x \in S})
  BY DEF Surjection
<1> HIDE DEF onto
<1>2. QED
  BY <1>1, FS_Surjection

\* A finite set of numbers has a largest element and a smallest one.
LEMMA LargestExists ==
  ASSUME NEW S \in SUBSET Nat, IsFiniteSet(S), S # {}
  PROVE  /\ Nth(S, Cardinality(S)) \in S /\ \A k \in S : k <= Nth(S, Cardinality(S))
         /\ Nth(S, 1) \in S /\ \A k \in S : Nth(S, 1) <= k
<1>1. Cardinality(S) \in Nat \ {0}
  BY FS_CardinalityType, FS_EmptySet
<1>2. \A k \in 1..Cardinality(S) : Nth(S, k) \in S /\ Cardinality({h \in S : h <= Nth(S, k)}) = k
  BY RankExists
<1> DEFINE max == Nth(S, Cardinality(S))
           min == Nth(S, 1)
<1>3. max \in S /\ Cardinality({h \in S : h <= max}) = Cardinality(S)
  BY <1>1, <1>2
<1>4. min \in S /\ Cardinality({h \in S : h <= min}) = 1
  BY <1>1, <1>2
<1> HIDE DEF max, min
<1>5. {h \in S : h <= max} = S
  <2>1. {h \in S : h <= max} \in SUBSET S
    OBVIOUS
  <2>2. QED
    BY <1>3, <2>1, FS_Subset
<1>6. \A k \in S : min <= k
  <2> SUFFICES ASSUME NEW k \in S, k < min PROVE FALSE
    BY <1>4
  <2>1. {h \in S : h <= min} \in SUBSET S
    OBVIOUS
  <2>2. IsFiniteSet({h \in S : h <= min})
    BY <2>1, FS_Subset
  <2>3. PICK only : {h \in S : h <= min} = {only}
    BY <1>4, <2>2, FS_Singleton
  <2>4. min \in {only} /\ k \in {only}
    BY <1>4, <2>3
  <2>5. QED
    BY <1>4, <2>4
<1>7. QED
  BY <1>3, <1>4, <1>5, <1>6 DEF max, min

\* Among equal values of a sequence one comes first.
LEMMA FirstExists ==
  ASSUME NEW seq, NEW n \in Nat \ {0}
  PROVE  \E m \in 1..n : seq[m] = seq[n] /\ \A h \in 1..(m - 1) : seq[h] # seq[m]
<1> DEFINE S == {m \in 1..n : seq[m] = seq[n]}
<1>1. S \in SUBSET (1..n) /\ S \in SUBSET Nat /\ n \in S
  OBVIOUS
<1> HIDE DEF S
<1>2. IsFiniteSet(S)
  <2>1. IsFiniteSet(1..n)
    BY FS_Interval
  <2>2. QED
    BY <1>1, <2>1, FS_Subset
<1>3. Nth(S, 1) \in S /\ \A k \in S : Nth(S, 1) <= k
  BY <1>1, <1>2, LargestExists
<1>4. PICK m \in S : \A k \in S : m <= k
  BY <1>3
<1>5. m \in 1..n /\ seq[m] = seq[n]
  BY <1>4 DEF S
<1>6. ASSUME NEW h \in 1..(m - 1), seq[h] = seq[m] PROVE FALSE
  <2>1. h \in 1..n /\ h < m
    BY <1>5
  <2>2. h \in S
    BY <1>5, <1>6, <2>1 DEF S
  <2>3. QED
    BY <1>4, <1>5, <2>1, <2>2
<1>7. QED
  BY <1>5, <1>6

\* Keeping places of a sequence keeps each of them once, and nothing else.
LEMMA PickedPlaces ==
  ASSUME NEW seq, NEW S \in SUBSET Nat, IsFiniteSet(S)
  PROVE  /\ Cardinality(S) \in Nat /\ DOMAIN Picked(seq, S) = 1..Cardinality(S)
         /\ \A n \in 1..Cardinality(S) : Nth(S, n) \in S /\ Picked(seq, S)[n] = seq[Nth(S, n)]
         /\ \A k \in S : \E n \in 1..Cardinality(S) : Nth(S, n) = k
         /\ \A m, n \in 1..Cardinality(S) : Nth(S, m) = Nth(S, n) => m = n
<1>1. Cardinality(S) \in Nat
  BY FS_CardinalityType
<1>2. \A n \in 1..Cardinality(S) : Nth(S, n) \in S /\ Cardinality({h \in S : h <= Nth(S, n)}) = n
  BY RankExists
<1>3. \A m, n \in 1..Cardinality(S) : Nth(S, m) = Nth(S, n) => m = n
  BY <1>2
<1> DEFINE nth == [n \in 1..Cardinality(S) |-> Nth(S, n)]
<1>4. nth \in Injection(1..Cardinality(S), S)
  BY <1>2, <1>3 DEF Injection, IsInjective
<1>5. IsFiniteSet(1..Cardinality(S)) /\ Cardinality(1..Cardinality(S)) = Cardinality(S)
  BY <1>1, FS_Interval
<1> HIDE DEF nth
<1>6. nth \in Surjection(1..Cardinality(S), S)
  BY <1>4, <1>5, FS_Injection
<1>7. \A k \in S : \E n \in 1..Cardinality(S) : nth[n] = k
  BY <1>6 DEF Surjection
<1>8. \A k \in S : \E n \in 1..Cardinality(S) : Nth(S, n) = k
  BY <1>7 DEF nth
<1>9. QED
  BY <1>1, <1>2, <1>3, <1>8 DEF Picked

\* R puts any two elements of S into an order.
Ordering(S, R) ==
  /\ \A a, b \in S : a = b \/ <<a, b>> \in R \/ <<b, a>> \in R
  /\ \A a \in S : <<a, a>> \notin R
  /\ \A a, b, c \in S : <<a, b>> \in R /\ <<b, c>> \in R => <<a, c>> \in R

\* f has each element of S at its rank.
RankedBy(f, S, R) ==
  /\ f \in [1..Cardinality(S) -> S]
  /\ \A n \in 1..Cardinality(S) : Cardinality(Preceding(S, R, f[n])) = n - 1

\* Every rank is taken, and elements by their rank come each once, those ahead before the others.
LEMMA RankedOnce ==
  ASSUME NEW S, IsFiniteSet(S), NEW R, Ordering(S, R)
  PROVE  /\ Cardinality(S) \in Nat
         /\ \A n \in 1..Cardinality(S) : \E d \in S : Cardinality(Preceding(S, R, d)) = n - 1
         /\ \A f : RankedBy(f, S, R) =>
              /\ \A d \in S : \E n \in 1..Cardinality(S) : f[n] = d
              /\ \A m, n \in 1..Cardinality(S) : f[m] = f[n] => m = n
              /\ \A m, n \in 1..Cardinality(S) : <<f[m], f[n]>> \in R => m < n
<1> DEFINE ahead(d) == Preceding(S, R, d)
           place == [d \in S |-> Cardinality(ahead(d)) + 1]
<1>1. Cardinality(S) \in Nat /\ IsFiniteSet(1..Cardinality(S)) /\ Cardinality(1..Cardinality(S)) = Cardinality(S)
  BY FS_CardinalityType, FS_Interval
<1>2. ASSUME NEW d \in S
      PROVE  IsFiniteSet(ahead(d)) /\ Cardinality(ahead(d)) \in Nat /\ Cardinality(ahead(d)) < Cardinality(S)
  <2>1. ahead(d) \in SUBSET S /\ d \notin ahead(d)
    BY DEF Ordering, Preceding
  <2>2. ahead(d) # S
    BY <2>1
  <2>3. IsFiniteSet(ahead(d)) /\ Cardinality(ahead(d)) <= Cardinality(S) /\ Cardinality(ahead(d)) # Cardinality(S)
    BY <2>1, <2>2, FS_Subset
  <2>4. Cardinality(ahead(d)) \in Nat
    BY <2>3, FS_CardinalityType
  <2> HIDE DEF ahead
  <2>5. QED
    BY <1>1, <2>3, <2>4
<1>3. ASSUME NEW a \in S, NEW b \in S, <<a, b>> \in R
      PROVE  Cardinality(ahead(a)) < Cardinality(ahead(b))
  <2>1. ahead(a) \in SUBSET ahead(b)
    BY <1>3 DEF Ordering, Preceding
  <2>2. a \in ahead(b) /\ a \notin ahead(a)
    BY <1>3 DEF Ordering, Preceding
  <2>3. ahead(a) # ahead(b)
    BY <2>2
  <2> HIDE DEF ahead
  <2>4. Cardinality(ahead(a)) <= Cardinality(ahead(b)) /\ Cardinality(ahead(a)) # Cardinality(ahead(b))
    BY <1>2, <2>1, <2>3, FS_Subset
  <2>5. QED
    BY <1>2, <2>4
<1>4. ASSUME NEW a \in S, NEW b \in S, Cardinality(ahead(a)) = Cardinality(ahead(b)) PROVE a = b
  <2>1. ~(Cardinality(ahead(a)) < Cardinality(ahead(b))) /\ ~(Cardinality(ahead(b)) < Cardinality(ahead(a)))
    BY <1>2, <1>4
  <2>2. <<a, b>> \notin R /\ <<b, a>> \notin R
    BY <1>3, <2>1
  <2>3. QED
    BY <2>2 DEF Ordering
<1>5. place \in Injection(S, 1..Cardinality(S))
  <2> HIDE DEF ahead
  <2>1. place \in [S -> 1..Cardinality(S)]
    BY <1>1, <1>2
  <2>2. ASSUME NEW a \in S, NEW b \in S, place[a] = place[b] PROVE a = b
    BY <1>2, <1>4, <2>2
  <2>3. QED
    BY <2>1, <2>2 DEF Injection, IsInjective
<1>6. place \in Surjection(S, 1..Cardinality(S))
  <2> HIDE DEF place
  <2>1. QED
    BY <1>1, <1>5, FS_Injection
<1>7. \A n \in 1..Cardinality(S) : \E d \in S : place[d] = n
  BY <1>6 DEF Surjection
<1>8. \A n \in 1..Cardinality(S) : \E d \in S : Cardinality(ahead(d)) = n - 1
  <2> HIDE DEF ahead
  <2>1. QED
    BY <1>2, <1>7
<1>9. ASSUME NEW f, RankedBy(f, S, R)
      PROVE  /\ \A d \in S : \E n \in 1..Cardinality(S) : f[n] = d
             /\ \A m, n \in 1..Cardinality(S) : f[m] = f[n] => m = n
             /\ \A m, n \in 1..Cardinality(S) : <<f[m], f[n]>> \in R => m < n
  <2>1. \A n \in 1..Cardinality(S) : f[n] \in S /\ Cardinality(ahead(f[n])) = n - 1
    BY <1>9 DEF RankedBy
  <2> HIDE DEF ahead
  <2>2. \A m, n \in 1..Cardinality(S) : f[m] = f[n] => m = n
    BY <2>1
  <2>3. ASSUME NEW d \in S PROVE \E n \in 1..Cardinality(S) : f[n] = d
    <3>1. Cardinality(ahead(d)) + 1 \in 1..Cardinality(S)
      BY <1>1, <1>2
    <3>2. PICK n \in 1..Cardinality(S) : n = Cardinality(ahead(d)) + 1
      BY <3>1
    <3>3. Cardinality(ahead(f[n])) = Cardinality(ahead(d))
      BY <1>2, <2>1, <3>2
    <3>4. QED
      BY <1>4, <2>1, <3>3
  <2>4. \A m, n \in 1..Cardinality(S) : <<f[m], f[n]>> \in R => m < n
    BY <1>3, <2>1
  <2>5. QED
    BY <2>2, <2>3, <2>4
<1>10. QED
  BY <1>1, <1>8, <1>9

\* The elements in their order come by their ranks.
LEMMA RankedIsByRank ==
  ASSUME NEW S, IsFiniteSet(S), NEW R, Ordering(S, R)
  PROVE  RankedBy(Ranked(S, R), S, R)
<1> DEFINE ranked == Ranked(S, R)
<1>1. \A n \in 1..Cardinality(S) : \E d \in S : Cardinality(Preceding(S, R, d)) = n - 1
  BY RankedOnce
<1>2. ranked = [n \in 1..Cardinality(S) |-> CHOOSE d \in S : Cardinality(Preceding(S, R, d)) = n - 1]
  BY DEF Ranked
<1> HIDE DEF ranked
<1>3. \A n \in 1..Cardinality(S) : ranked[n] \in S /\ Cardinality(Preceding(S, R, ranked[n])) = n - 1
  BY <1>1, <1>2
<1>4. ranked \in [1..Cardinality(S) -> S]
  BY <1>2, <1>3
<1>5. RankedBy(ranked, S, R)
  BY <1>3, <1>4 DEF RankedBy
<1>6. QED
  BY <1>5 DEF ranked
================================================================================
