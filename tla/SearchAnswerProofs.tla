--------------------------- MODULE SearchAnswerProofs ---------------------------
(***************************************************************************)
(* One question, for any collections, evidence, plans and limits: its       *)
(* search, where what was read is tied to what the collections held while   *)
(* it was read (SearchKept), and its answer, where the events sent are tied *)
(* to the queue they come from (StreamInv) and the numbers of the prompt to *)
(* the places of the citations (CitesKept).                                 *)
(***************************************************************************)
EXTENDS Retrieval, AnswerRequest, RanksProofs, SequenceTheorems

(***************************************************************************)
(* Retrieval: the scores                                                   *)
(***************************************************************************)
\* What the sum of the scores of places takes of a set of them.
Adds(sum, S) ==
  \A s \in SUBSET S : sum[s] = IF s = {} THEN 0
                               ELSE RankScore(CHOOSE i \in s : TRUE) + sum[s \ {CHOOSE i \in s : TRUE}]

\* The sum of the scores is worked out on the subsets of the places.
LEMMA SumWorkedOut ==
  ASSUME NEW S, \E sum : sum = [s \in SUBSET S |-> IF s = {} THEN 0
                               ELSE RankScore(CHOOSE i \in s : TRUE) + sum[s \ {CHOOSE i \in s : TRUE}]]
  PROVE  \E sum : Adds(sum, S) /\ MapThenSumSet(RankScore, S) = sum[S]
<1> DEFINE body(sum) == [s \in SUBSET S |-> IF s = {} THEN 0
                               ELSE RankScore(CHOOSE i \in s : TRUE) + sum[s \ {CHOOSE i \in s : TRUE}]]
           iter == CHOOSE sum : sum = body(sum)
<1>1. MapThenSumSet(RankScore, S) = iter[S]
  BY Zenon DEF MapThenSumSet, MapThenFoldSet
<1>2. iter = body(iter)
  OBVIOUS
<1> HIDE DEF iter
<1>3. Adds(iter, S)
  BY <1>2 DEF Adds
<1>4. QED
  BY <1>1, <1>3

\* A place further down scores no more.
LEMMA ScoresFall ==
  ASSUME NEW i \in Nat, NEW j \in Nat, i < j
  PROVE  RankScore(i) \in Nat /\ RankScore(j) \in Nat /\ RankScore(j) <= RankScore(i)
<1>1. \A n \in Nat : 1000000 \div (60 + n) \in Nat
  OBVIOUS
<1>2. 1000000 \div (60 + j) <= 1000000 \div (60 + i)
  OBVIOUS
<1>3. QED
  BY <1>1, <1>2 DEF RankScore

\* A function that adds up the scores of subsets up to a size.
AddsUpTo(sum, S, n) ==
  \A s \in SUBSET S : Cardinality(s) <= n =>
    sum[s] = IF s = {} THEN 0 ELSE RankScore(CHOOSE i \in s : TRUE) + sum[s \ {CHOOSE i \in s : TRUE}]

\* Such functions are built up by size.
LEMMA SumOneMore ==
  ASSUME NEW S \in SUBSET Nat, IsFiniteSet(S), NEW n \in Nat, \E sum : AddsUpTo(sum, S, n)
  PROVE  \E sum : AddsUpTo(sum, S, n + 1)
<1>1. PICK sum : AddsUpTo(sum, S, n)
  OBVIOUS
<1> DEFINE one(s) == CHOOSE i \in s : TRUE
           more == [s \in SUBSET S |-> IF Cardinality(s) = n + 1 THEN RankScore(one(s)) + sum[s \ {one(s)}] ELSE sum[s]]
<1>2. ASSUME NEW s \in SUBSET S, s # {}
      PROVE  /\ s \ {one(s)} \in SUBSET S /\ Cardinality(s) \in Nat
             /\ Cardinality(s \ {one(s)}) = Cardinality(s) - 1 /\ Cardinality(s) # 0
  <2>1. IsFiniteSet(s)
    BY FS_Subset
  <2>2. one(s) \in s
    BY <1>2
  <2> HIDE DEF one
  <2>3. Cardinality(s \ {one(s)}) = Cardinality(s) - 1
    BY <2>1, <2>2, FS_RemoveElement
  <2>4. Cardinality(s) \in Nat /\ Cardinality(s) # 0
    BY <1>2, <2>1, FS_CardinalityType, FS_EmptySet
  <2>5. QED
    BY <2>3, <2>4
<1>3. Cardinality({}) = 0 /\ {} \in SUBSET S
  BY FS_EmptySet
<1>4. ASSUME NEW s \in SUBSET S, Cardinality(s) <= n + 1
      PROVE  more[s] = IF s = {} THEN 0 ELSE RankScore(one(s)) + more[s \ {one(s)}]
  <2>1. CASE s = {}
    <3>1. more[s] = sum[s]
      <4>1. Cardinality(s) # n + 1
        BY <1>3, <2>1
      <4> HIDE DEF one
      <4>2. QED
        BY <4>1
    <3>2. sum[s] = 0
      <4>1. Cardinality(s) <= n
        BY <1>3, <2>1
      <4>2. QED
        BY <1>1, <2>1, <4>1 DEF AddsUpTo
    <3>3. QED
      BY <2>1, <3>1, <3>2
  <2>2. CASE s # {}
    <3>1. /\ s \ {one(s)} \in SUBSET S /\ Cardinality(s) \in Nat /\ Cardinality(s \ {one(s)}) = Cardinality(s) - 1
      BY <1>2, <2>2
    <3>2. more[s \ {one(s)}] = sum[s \ {one(s)}]
      <4>1. Cardinality(s \ {one(s)}) # n + 1
        BY <1>4, <3>1
      <4> HIDE DEF one
      <4>2. QED
        BY <3>1, <4>1
    <3>3. more[s] = RankScore(one(s)) + sum[s \ {one(s)}]
      <4>1. CASE Cardinality(s) = n + 1
        <5> HIDE DEF one
        <5>1. QED
          BY <4>1
      <4>2. CASE Cardinality(s) # n + 1
        <5>1. Cardinality(s) <= n
          BY <1>4, <3>1, <4>2
        <5>2. more[s] = sum[s]
          BY <4>2
        <5>3. sum[s] = RankScore(one(s)) + sum[s \ {one(s)}]
          BY <1>1, <2>2, <5>1 DEF AddsUpTo
        <5>4. QED
          BY <5>2, <5>3
      <4>3. QED
        BY <4>1, <4>2
    <3> HIDE DEF more, one
    <3>4. QED
      BY <2>2, <3>2, <3>3
  <2>3. QED
    BY <2>1, <2>2
<1>5. AddsUpTo(more, S, n + 1)
  <2> HIDE DEF more
  <2>1. QED
    BY <1>4 DEF AddsUpTo
<1>6. QED
  BY <1>5

\* So there is one for every size, whatever the places.
LEMMA SumExists ==
  ASSUME NEW S \in SUBSET Nat, IsFiniteSet(S)
  PROVE  \E sum : sum = [s \in SUBSET S |-> IF s = {} THEN 0
                               ELSE RankScore(CHOOSE i \in s : TRUE) + sum[s \ {CHOOSE i \in s : TRUE}]]
<1> DEFINE Works(n) == \E sum : AddsUpTo(sum, S, n)
           Fails == {n \in 0..Cardinality(S) : ~Works(n)}
<1>1. Cardinality(S) \in Nat
  BY FS_CardinalityType
<1>2. Works(0)
  <2> DEFINE sum == [s \in SUBSET S |-> 0]
  <2>1. \A s \in SUBSET S : Cardinality(s) <= 0 => s = {}
    <3> TAKE s \in SUBSET S
    <3>1. IsFiniteSet(s)
      BY FS_Subset
    <3>2. Cardinality(s) \in Nat /\ (Cardinality(s) = 0 <=> s = {})
      BY <3>1, FS_CardinalityType, FS_EmptySet
    <3>3. QED
      BY <3>2
  <2>2. AddsUpTo(sum, S, 0)
    BY <2>1 DEF AddsUpTo
  <2>3. QED
    BY <2>2
<1>3. \A n \in Nat : Works(n) => Works(n + 1)
  BY SumOneMore
<1>4. Works(Cardinality(S))
  <2> SUFFICES ASSUME ~Works(Cardinality(S)) PROVE FALSE
    OBVIOUS
  <2> HIDE DEF Works
  <2>1. Cardinality(S) \in Fails /\ Fails \in SUBSET (0..Cardinality(S)) /\ Fails \in SUBSET Nat
    BY <1>1
  <2>2. IsFiniteSet(Fails)
    <3>1. IsFiniteSet(0..Cardinality(S))
      BY <1>1, FS_Interval
    <3> HIDE DEF Fails
    <3>2. QED
      BY <2>1, <3>1, FS_Subset
  <2>3. PICK n \in Fails : \A k \in Fails : n <= k
    <3> HIDE DEF Fails
    <3>1. QED
      BY <2>1, <2>2, LargestExists
  <2>4. n \in Nat /\ n <= Cardinality(S) /\ ~Works(n)
    BY <1>1
  <2>5. n # 0
    BY <1>2, <2>4
  <2>6. n - 1 \in 0..Cardinality(S) /\ n - 1 \in Nat /\ (n - 1) + 1 = n
    BY <1>1, <2>4, <2>5
  <2>7. n - 1 \notin Fails
    BY <2>3, <2>4
  <2>8. Works(n - 1)
    BY <2>6, <2>7
  <2>9. Works((n - 1) + 1)
    BY <1>3, <2>6, <2>8
  <2>10. QED
    BY <2>4, <2>6, <2>9
<1>5. PICK sum : AddsUpTo(sum, S, Cardinality(S))
  BY <1>4
<1> DEFINE body(f) == [s \in SUBSET S |-> IF s = {} THEN 0
                               ELSE RankScore(CHOOSE i \in s : TRUE) + f[s \ {CHOOSE i \in s : TRUE}]]
           whole == [s \in SUBSET S |-> sum[s]]
<1>6. ASSUME NEW s \in SUBSET S
      PROVE  whole[s] = IF s = {} THEN 0 ELSE RankScore(CHOOSE i \in s : TRUE) + whole[s \ {CHOOSE i \in s : TRUE}]
  <2>1. Cardinality(s) <= Cardinality(S)
    BY FS_Subset
  <2>2. s \ {CHOOSE i \in s : TRUE} \in SUBSET S
    OBVIOUS
  <2>3. whole[s] = sum[s] /\ whole[s \ {CHOOSE i \in s : TRUE}] = sum[s \ {CHOOSE i \in s : TRUE}]
    BY <2>2
  <2>4. QED
    BY <1>5, <2>1, <2>3 DEF AddsUpTo
<1>7. whole = body(whole)
  <2>1. whole = [s \in SUBSET S |-> whole[s]]
    OBVIOUS
  <2> HIDE DEF whole
  <2>2. QED
    BY <1>6, <2>1
<1>8. QED
  BY <1>7

\* The sum of the scores is a number, no less than any of them, nothing when there is no
\* place and the score itself when there is one.
LEMMA ScoresSummed ==
  ASSUME NEW S \in SUBSET Nat, IsFiniteSet(S)
  PROVE  /\ MapThenSumSet(RankScore, S) \in Nat
         /\ \A i \in S : RankScore(i) <= MapThenSumSet(RankScore, S)
         /\ S = {} => MapThenSumSet(RankScore, S) = 0
         /\ \A i \in S : S = {i} => MapThenSumSet(RankScore, S) = RankScore(i)
<1>1. PICK sum : Adds(sum, S) /\ MapThenSumSet(RankScore, S) = sum[S]
  BY SumExists, SumWorkedOut
<1> DEFINE one(s) == CHOOSE i \in s : TRUE
           Good(s) == sum[s] \in Nat /\ \A i \in s : RankScore(i) <= sum[s]
           Fails == {n \in 0..Cardinality(S) : \E s \in SUBSET S : Cardinality(s) = n /\ ~Good(s)}
<1>2. \A s \in SUBSET S : sum[s] = IF s = {} THEN 0 ELSE RankScore(one(s)) + sum[s \ {one(s)}]
  BY <1>1 DEF Adds
<1>3. \A s \in SUBSET S : s # {} => one(s) \in s
  OBVIOUS
<1> HIDE DEF one
<1>4. \A i \in Nat : RankScore(i) \in Nat
  BY DEF RankScore
<1>5. ASSUME NEW s \in SUBSET S, s = {} \/ Good(s \ {one(s)}) PROVE Good(s)
  <2>1. CASE s = {}
    BY <1>2, <2>1
  <2>2. CASE s # {}
    <3>1. one(s) \in s /\ RankScore(one(s)) \in Nat
      BY <1>3, <1>4, <2>2
    <3>2. sum[s] = RankScore(one(s)) + sum[s \ {one(s)}] /\ sum[s \ {one(s)}] \in Nat
      BY <1>2, <1>5, <2>2
    <3>3. ASSUME NEW i \in s PROVE RankScore(i) <= sum[s]
      <4>1. i = one(s) \/ i \in s \ {one(s)}
        OBVIOUS
      <4>2. i \in s \ {one(s)} => RankScore(i) <= sum[s \ {one(s)}]
        BY <1>5, <2>2
      <4>3. RankScore(i) \in Nat
        BY <1>4
      <4>4. CASE i = one(s)
        BY <3>1, <3>2, <4>4
      <4>5. CASE i \in s \ {one(s)}
        <5>1. RankScore(i) <= sum[s \ {one(s)}]
          BY <4>2, <4>5
        <5> HIDE DEF Good
        <5>2. QED
          BY <3>1, <3>2, <4>3, <5>1
      <4>6. QED
        BY <4>1, <4>4, <4>5
    <3>4. sum[s] \in Nat
      BY <3>1, <3>2
    <3>5. QED
      BY <3>3, <3>4
  <2>3. QED
    BY <2>1, <2>2
<1>6. Cardinality(S) \in Nat
  BY FS_CardinalityType
<1>7. Fails = {}
  <2> HIDE DEF Good
  <2> SUFFICES ASSUME Fails # {} PROVE FALSE
    OBVIOUS
  <2>1. Fails \in SUBSET (0..Cardinality(S)) /\ Fails \in SUBSET Nat
    BY <1>6
  <2>2. IsFiniteSet(Fails)
    <3>1. IsFiniteSet(0..Cardinality(S))
      BY <1>6, FS_Interval
    <3> HIDE DEF Fails
    <3>2. QED
      BY <2>1, <3>1, FS_Subset
  <2>3. PICK n \in Fails : \A k \in Fails : n <= k
    <3> HIDE DEF Fails
    <3>1. QED
      BY <2>1, <2>2, LargestExists
  <2>4. PICK s \in SUBSET S : Cardinality(s) = n /\ ~Good(s)
    OBVIOUS
  <2>5. s # {} /\ ~Good(s \ {one(s)})
    BY <1>5, <2>4
  <2>6. IsFiniteSet(s)
    BY FS_Subset
  <2>7. one(s) \in s
    BY <1>3, <2>5
  <2>8. Cardinality(s \ {one(s)}) = Cardinality(s) - 1
    BY <2>6, <2>7, FS_RemoveElement
  <2>9. Cardinality(s) \in Nat /\ Cardinality(s) # 0 /\ Cardinality(s) <= Cardinality(S)
    BY <2>5, <2>6, FS_CardinalityType, FS_EmptySet, FS_Subset
  <2>10. n - 1 \in 0..Cardinality(S) /\ n \in Nat
    BY <1>6, <2>4, <2>9
  <2>11. s \ {one(s)} \in SUBSET S /\ Cardinality(s \ {one(s)}) = n - 1
    BY <2>4, <2>8
  <2>12. n - 1 \in Fails
    BY <2>5, <2>10, <2>11
  <2>13. QED
    BY <2>3, <2>10, <2>12
<1>8. Good(S)
  <2> HIDE DEF Good
  <2>1. S \in SUBSET S /\ Cardinality(S) \in 0..Cardinality(S)
    BY <1>6
  <2>2. QED
    BY <1>7, <2>1
<1>9. S = {} => sum[S] = 0
  BY <1>2
<1>10. ASSUME NEW i \in S, S = {i} PROVE sum[S] = RankScore(i)
  <2>1. one(S) = i /\ S \ {one(S)} = {}
    BY <1>3, <1>10
  <2>2. sum[{}] = 0
    BY <1>2
  <2>3. sum[S] = RankScore(i) + sum[{}]
    BY <1>2, <1>10, <2>1
  <2>4. RankScore(i) \in Nat
    BY <1>4
  <2>5. QED
    BY <2>2, <2>3, <2>4
<1>11. QED
  BY <1>1, <1>8, <1>9, <1>10

(***************************************************************************)
(* Retrieval: the fusion of two lists                                      *)
(***************************************************************************)
\* A chunk of a list has a first place there.
LEMMA FirstPlaces ==
  ASSUME NEW list \in Seq(Rows)
  PROVE  /\ IsFiniteSet(IdsOf(list)) /\ DOMAIN list = 1..Len(list) /\ Len(list) \in Nat
         /\ \A i \in DOMAIN list : list[i].id \in IdsOf(list) /\ i \in Places(list, list[i].id)
         /\ \A id : Places(list, id) \in SUBSET Nat /\ IsFiniteSet(Places(list, id)) /\ Places(list, id) \in SUBSET DOMAIN list
         /\ \A id \in IdsOf(list) :
              /\ FirstPlace(list, id) \in Places(list, id) /\ FirstPlace(list, id) \in Nat
              /\ FirstPlace(list, id) \in DOMAIN list /\ list[FirstPlace(list, id)].id = id
              /\ \A j \in Places(list, id) : FirstPlace(list, id) <= j
<1>1. DOMAIN list = 1..Len(list) /\ Len(list) \in Nat
  OBVIOUS
<1>2. IsFiniteSet(DOMAIN list)
  BY <1>1, FS_Interval
<1>3. IsFiniteSet(IdsOf(list))
  <2> DEFINE ids == [i \in DOMAIN list |-> list[i].id]
  <2>1. IdsOf(list) = {ids[i] : i \in DOMAIN list}
    BY DEF IdsOf
  <2> HIDE DEF ids
  <2>2. QED
    BY <1>2, <2>1, ValuesFinite
<1>4. \A i \in DOMAIN list : list[i].id \in IdsOf(list) /\ i \in Places(list, list[i].id)
  BY DEF IdsOf, Places
<1>5. ASSUME NEW id
      PROVE  Places(list, id) \in SUBSET Nat /\ IsFiniteSet(Places(list, id)) /\ Places(list, id) \in SUBSET DOMAIN list
  <2>1. Places(list, id) \in SUBSET DOMAIN list
    BY DEF Places
  <2>2. IsFiniteSet(Places(list, id))
    BY <1>2, <2>1, FS_Subset
  <2>3. QED
    BY <1>1, <2>1, <2>2
<1>6. ASSUME NEW id \in IdsOf(list)
      PROVE  /\ FirstPlace(list, id) \in Places(list, id) /\ FirstPlace(list, id) \in Nat
             /\ FirstPlace(list, id) \in DOMAIN list /\ list[FirstPlace(list, id)].id = id
             /\ \A j \in Places(list, id) : FirstPlace(list, id) <= j
  <2>1. PICK i \in DOMAIN list : list[i].id = id
    BY DEF IdsOf
  <2>2. Places(list, id) # {}
    BY <2>1 DEF Places
  <2>3. \E k \in Places(list, id) : \A j \in Places(list, id) : k <= j
    BY <1>5, <2>2, LargestExists
  <2>4. FirstPlace(list, id) \in Places(list, id) /\ \A j \in Places(list, id) : FirstPlace(list, id) <= j
    BY <2>3 DEF FirstPlace
  <2>5. list[FirstPlace(list, id)].id = id
    BY <2>4 DEF Places
  <2>6. QED
    BY <1>5, <2>4, <2>5
<1>7. QED
  BY <1>1, <1>3, <1>4, <1>5, <1>6

\* A chunk that is above another in a list, where that one comes once at most, scores no less.
LEMMA AboveScores ==
  ASSUME NEW list \in Seq(Rows), NEW a, NEW b, Above(list, a, b)
  PROVE  /\ ListScore(list, a) \in Nat /\ ListScore(list, b) \in Nat /\ ListScore(list, b) <= ListScore(list, a)
<1>1. \A id : Places(list, id) \in SUBSET Nat /\ IsFiniteSet(Places(list, id))
  BY FirstPlaces
<1>2. \A id : /\ ListScore(list, id) \in Nat
              /\ \A i \in Places(list, id) : RankScore(i) <= ListScore(list, id)
              /\ Places(list, id) = {} => ListScore(list, id) = 0
              /\ \A i \in Places(list, id) : Places(list, id) = {i} => ListScore(list, id) = RankScore(i)
  BY <1>1, ScoresSummed DEF ListScore
<1>3. CASE Places(list, b) = {}
  BY <1>2, <1>3
<1>4. CASE Places(list, b) # {}
  <2>1. Cardinality(Places(list, b)) = 1
    <3>1. Cardinality(Places(list, b)) \in Nat /\ Cardinality(Places(list, b)) # 0
      BY <1>1, <1>4, FS_CardinalityType, FS_EmptySet
    <3>2. QED
      BY <3>1 DEF Above
  <2>2. PICK j : Places(list, b) = {j}
    BY <1>1, <2>1, FS_Singleton
  <2>3. PICK i \in Places(list, a) : i < j
    BY <2>2 DEF Above
  <2>4. i \in Nat /\ j \in Nat /\ j \in Places(list, b)
    BY <1>1, <2>2
  <2>5. RankScore(i) \in Nat /\ RankScore(j) \in Nat /\ RankScore(j) <= RankScore(i)
    BY <2>3, <2>4, ScoresFall
  <2>6. ListScore(list, b) = RankScore(j) /\ RankScore(i) <= ListScore(list, a)
    BY <1>2, <2>2, <2>4
  <2>7. QED
    BY <1>2, <2>5, <2>6
<1>5. QED
  BY <1>3, <1>4

\* A product grows with its factors.
LEMMA ProductsGrow ==
  ASSUME NEW a \in Nat, NEW b \in Nat, NEW c \in Nat, NEW d \in Nat, b <= a, d <= c
  PROVE  a * c \in Nat /\ b * d \in Nat /\ b * d <= a * c
<1>1. b * d <= b * c
  OBVIOUS
<1>2. b * c <= a * c
  OBVIOUS
<1>3. a * c \in Nat /\ b * d \in Nat /\ b * c \in Nat
  OBVIOUS
<1>4. QED
  BY <1>1, <1>2, <1>3

\* The scores put the chunks of two lists into an order.
LEMMA ScoresOrder ==
  ASSUME NEW v \in Seq(Rows), NEW w \in Seq(Rows)
  PROVE  /\ v \o w \in Seq(Rows) /\ Ordering(IdsOf(v \o w), ScoreOrder(v, w))
         /\ \A a \in IdsOf(v \o w) : Score(v, w, a) \in Nat /\ Boosted(v, w, a) \in Nat /\ Boost(RowOf(v, w, a)) \in Nat
<1> DEFINE l == v \o w
           ids == IdsOf(l)
<1>1. l \in Seq(Rows)
  OBVIOUS
<1>2. ASSUME NEW a \in ids
      PROVE  Score(v, w, a) \in Nat /\ Boosted(v, w, a) \in Nat /\ Boost(RowOf(v, w, a)) \in Nat /\ FirstPlace(l, a) \in Nat
  <2>1. ListScore(v, a) \in Nat /\ ListScore(w, a) \in Nat
    BY FirstPlaces, ScoresSummed DEF ListScore
  <2>2. Score(v, w, a) \in Nat
    BY <2>1 DEF Score
  <2>3. FirstPlace(l, a) \in Nat /\ FirstPlace(l, a) \in DOMAIN l
    BY <1>1, FirstPlaces
  <2>4. RowOf(v, w, a) \in Rows
    BY <1>1, <2>3 DEF RowOf
  <2>5. MatchesOf[RowOf(v, w, a)] \in Nat
    BY <2>4, RetrievalAssumption
  <2>6. Boost(RowOf(v, w, a)) \in Nat
    BY <2>5 DEF Boost
  <2>7. Score(v, w, a) * Boost(RowOf(v, w, a)) \in Nat
    BY <2>2, <2>6, ProductsGrow
  <2>8. QED
    BY <2>2, <2>3, <2>6, <2>7 DEF Boosted
<1>3. ASSUME NEW a \in ids, NEW b \in ids, FirstPlace(l, a) = FirstPlace(l, b) PROVE a = b
  BY <1>1, <1>3, FirstPlaces
<1>4. \A a, b \in ids : <<a, b>> \in ScoreOrder(v, w) <=> AheadOf(v, w, a, b)
  BY DEF ScoreOrder
<1> HIDE DEF l, ids
<1>5. \A a, b \in ids : AheadOf(v, w, a, b) <=>
         \/ Boosted(v, w, a) > Boosted(v, w, b)
         \/ /\ Boosted(v, w, a) = Boosted(v, w, b)
            /\ \/ Score(v, w, a) > Score(v, w, b)
               \/ Score(v, w, a) = Score(v, w, b) /\ FirstPlace(l, a) < FirstPlace(l, b)
  BY DEF AheadOf, l
<1>6. \A a, b \in ids : a = b \/ AheadOf(v, w, a, b) \/ AheadOf(v, w, b, a)
  BY <1>2, <1>3, <1>5
<1>7. \A a \in ids : ~AheadOf(v, w, a, a)
  BY <1>2, <1>5
<1>8. \A a, b, c \in ids : AheadOf(v, w, a, b) /\ AheadOf(v, w, b, c) => AheadOf(v, w, a, c)
  BY <1>2, <1>5
<1>9. Ordering(ids, ScoreOrder(v, w))
  BY <1>4, <1>6, <1>7, <1>8 DEF Ordering
<1>10. QED
  BY <1>1, <1>2, <1>9 DEF l, ids

IdsInOrder(v, w) == Ranked(IdsOf(v \o w), ScoreOrder(v, w))

\* The chunks are ranked by that order.
LEMMA ChunksRanked ==
  ASSUME NEW v \in Seq(Rows), NEW w \in Seq(Rows)
  PROVE  RankedBy(IdsInOrder(v, w), IdsOf(v \o w), ScoreOrder(v, w))
<1>1. v \o w \in Seq(Rows) /\ Ordering(IdsOf(v \o w), ScoreOrder(v, w))
  BY ScoresOrder
<1>2. IsFiniteSet(IdsOf(v \o w))
  BY <1>1, FirstPlaces
<1>3. QED
  BY <1>1, <1>2, RankedIsByRank DEF IdsInOrder

\* The hits are of the two lists, no chunk twice, and none comes ahead of one that is above
\* it in both lists and whose domains match no worse.
InOrder(v, w, list) ==
  \A i, j \in DOMAIN list :
    /\ Above(v, list[i].id, list[j].id) /\ Above(w, list[i].id, list[j].id)
    /\ Boost(list[i]) >= Boost(list[j])
    => i <= j \/ list[i].id = list[j].id

\* The fusion of two lists has each of their chunks once, in that order.
LEMMA FusedRight ==
  ASSUME NEW v \in Seq(Rows), NEW w \in Seq(Rows), NEW fused, fused = Fused(v, w)
  PROVE  /\ fused \in Seq(Rows)
         /\ \A i \in DOMAIN fused : (\E k \in DOMAIN v : fused[i] = v[k]) \/ (\E k \in DOMAIN w : fused[i] = w[k])
         /\ \A i, j \in DOMAIN fused : fused[i].id = fused[j].id => i = j
         /\ \A k \in DOMAIN v : \E i \in DOMAIN fused : fused[i].id = v[k].id
         /\ InOrder(v, w, fused)
<1> DEFINE l == v \o w
           ids == IdsOf(l)
           R == ScoreOrder(v, w)
           ranked == IdsInOrder(v, w)
           N == Cardinality(ids)
           row(a) == RowOf(v, w, a)
<1>1. l \in Seq(Rows) /\ Ordering(ids, R) /\ IsFiniteSet(ids)
  BY ScoresOrder, FirstPlaces
<1>2. RankedBy(ranked, ids, R)
  BY ChunksRanked
<1>3. fused = [i \in DOMAIN ranked |-> row(ranked[i])]
  BY DEF Fused, IdsInOrder
<1>4. /\ \A i \in 1..Len(v) : i \in DOMAIN l /\ l[i] = v[i]
      /\ \A i \in DOMAIN l : i \in 1..Len(v) \/ (i - Len(v) \in 1..Len(w) /\ l[i] = w[i - Len(v)])
      /\ \A i \in 1..Len(w) : Len(v) + i \in DOMAIN l /\ l[Len(v) + i] = w[i]
      /\ DOMAIN v = 1..Len(v) /\ DOMAIN w = 1..Len(w) /\ Len(v) \in Nat /\ Len(w) \in Nat
  <2>1. /\ Len(l) = Len(v) + Len(w) /\ DOMAIN l = 1..Len(l)
        /\ \A i \in 1..(Len(v) + Len(w)) : l[i] = IF i <= Len(v) THEN v[i] ELSE w[i - Len(v)]
    BY <1>1, ConcatProperties
  <2>2. Len(v) \in Nat /\ Len(w) \in Nat /\ DOMAIN v = 1..Len(v) /\ DOMAIN w = 1..Len(w)
    OBVIOUS
  <2> HIDE DEF l
  <2>3. \A i \in 1..Len(v) : i \in DOMAIN l /\ l[i] = v[i]
    BY <2>1, <2>2
  <2>4. \A i \in DOMAIN l : i \in 1..Len(v) \/ (i - Len(v) \in 1..Len(w) /\ l[i] = w[i - Len(v)])
    BY <2>1, <2>2
  <2>5. ASSUME NEW i \in 1..Len(w) PROVE Len(v) + i \in DOMAIN l /\ l[Len(v) + i] = w[i]
    <3>1. Len(v) + i \in 1..(Len(v) + Len(w)) /\ ~(Len(v) + i <= Len(v)) /\ (Len(v) + i) - Len(v) = i
      BY <2>2
    <3>2. QED
      BY <2>1, <3>1
  <2>6. QED
    BY <2>2, <2>3, <2>4, <2>5
<1>5. ASSUME NEW a \in ids
      PROVE  /\ FirstPlace(l, a) \in DOMAIN l /\ FirstPlace(l, a) \in Nat
             /\ row(a) = l[FirstPlace(l, a)] /\ row(a).id = a /\ row(a) \in Rows
             /\ \A j \in Places(l, a) : FirstPlace(l, a) <= j
             /\ FirstPlace(l, a) \in Places(l, a)
             /\ Score(v, w, a) \in Nat /\ Boosted(v, w, a) \in Nat /\ Boost(row(a)) \in Nat
  <2>1. /\ FirstPlace(l, a) \in DOMAIN l /\ FirstPlace(l, a) \in Nat /\ l[FirstPlace(l, a)].id = a
        /\ \A j \in Places(l, a) : FirstPlace(l, a) <= j
        /\ FirstPlace(l, a) \in Places(l, a)
    BY <1>1, FirstPlaces
  <2>2. row(a) = l[FirstPlace(l, a)]
    BY DEF RowOf
  <2>3. l[FirstPlace(l, a)] \in Rows
    BY <1>1, <2>1
  <2>4. Score(v, w, a) \in Nat /\ Boosted(v, w, a) \in Nat /\ Boost(row(a)) \in Nat
    BY ScoresOrder
  <2>5. QED
    BY <2>1, <2>2, <2>3, <2>4
<1>6. \A i \in DOMAIN l : l[i].id \in ids /\ i \in Places(l, l[i].id)
  BY <1>1, FirstPlaces
<1>7. \A a, b \in ids : AheadOf(v, w, a, b) => <<a, b>> \in R
  BY DEF ScoreOrder
<1>8. \A i, id : i \in Places(v, id) <=> i \in DOMAIN v /\ v[i].id = id
  BY DEF Places
<1>9. \A i, id : i \in Places(w, id) <=> i \in DOMAIN w /\ w[i].id = id
  BY DEF Places
<1>10. \A i, id : i \in Places(l, id) <=> i \in DOMAIN l /\ l[i].id = id
  BY DEF Places
<1>11. ASSUME NEW a \in ids, NEW b \in ids, a # b, Above(v, a, b), Above(w, a, b), Boost(row(a)) >= Boost(row(b))
       PROVE  AheadOf(v, w, a, b)
  <2>1. Score(v, w, b) <= Score(v, w, a)
    <3>1. /\ ListScore(v, a) \in Nat /\ ListScore(v, b) \in Nat /\ ListScore(v, b) <= ListScore(v, a)
          /\ ListScore(w, a) \in Nat /\ ListScore(w, b) \in Nat /\ ListScore(w, b) <= ListScore(w, a)
      BY <1>11, AboveScores
    <3>2. QED
      BY <3>1 DEF Score
  <2>2. Boosted(v, w, b) <= Boosted(v, w, a)
    <3>1. Score(v, w, b) * Boost(row(b)) <= Score(v, w, a) * Boost(row(a))
      BY <1>5, <1>11, <2>1, ProductsGrow
    <3>2. QED
      BY <3>1 DEF Boosted
  <2>3. FirstPlace(l, a) < FirstPlace(l, b)
    <3> DEFINE j == FirstPlace(l, b)
    <3>1. j \in DOMAIN l /\ l[j].id = b /\ j \in Nat
      BY <1>5, <1>10
    <3>2. \A i \in DOMAIN l : l[i].id = a => FirstPlace(l, a) <= i
      BY <1>5, <1>10
    <3> HIDE DEF j, l
    <3>3. CASE j \in 1..Len(v)
      <4>1. j \in Places(v, b)
        BY <1>4, <1>8, <3>1, <3>3
      <4>2. PICK i \in Places(v, a) : i < j
        BY <1>11, <4>1 DEF Above
      <4>3. i \in DOMAIN l /\ l[i].id = a /\ i \in Nat
        BY <1>4, <1>8
      <4>4. QED
        BY <1>5, <3>1, <3>2, <4>2, <4>3 DEF j
    <3>4. CASE j \notin 1..Len(v)
      <4>1. j - Len(v) \in Places(w, b)
        BY <1>4, <1>9, <3>1, <3>4
      <4>2. PICK i \in Places(w, a) : i < j - Len(v)
        BY <1>11, <4>1 DEF Above
      <4>3. Len(v) + i \in DOMAIN l /\ l[Len(v) + i].id = a /\ i \in Nat
        BY <1>4, <1>9
      <4>4. FirstPlace(l, a) <= Len(v) + i /\ Len(v) + i < j
        BY <1>4, <3>1, <3>2, <4>2, <4>3
      <4>5. QED
        BY <1>4, <1>5, <3>1, <4>3, <4>4 DEF j
    <3>5. QED
      BY <3>3, <3>4 DEF j
  <2> HIDE DEF row
  <2>4. Boosted(v, w, a) > Boosted(v, w, b) \/ Boosted(v, w, a) = Boosted(v, w, b)
    BY <1>5, <2>2
  <2>5. Score(v, w, a) > Score(v, w, b) \/ Score(v, w, a) = Score(v, w, b)
    BY <1>5, <2>1
  <2>6. QED
    BY <2>3, <2>4, <2>5 DEF AheadOf
<1> HIDE DEF l, ids, R, ranked, row
<1>12. /\ N \in Nat /\ ranked \in [1..N -> ids]
       /\ \A d \in ids : \E n \in 1..N : ranked[n] = d
       /\ \A m, n \in 1..N : ranked[m] = ranked[n] => m = n
       /\ \A m, n \in 1..N : <<ranked[m], ranked[n]>> \in R => m < n
  <2>1. /\ N \in Nat
        /\ \A d \in ids : \E n \in 1..N : ranked[n] = d
        /\ \A m, n \in 1..N : ranked[m] = ranked[n] => m = n
        /\ \A m, n \in 1..N : <<ranked[m], ranked[n]>> \in R => m < n
    BY <1>1, <1>2, RankedOnce
  <2>2. QED
    BY <1>2, <2>1 DEF RankedBy
<1> HIDE DEF N
<1>13. DOMAIN fused = 1..N /\ \A i \in 1..N : ranked[i] \in ids /\ fused[i] = row(ranked[i]) /\ fused[i].id = ranked[i] /\ fused[i] \in Rows
  BY <1>3, <1>5, <1>12
<1>14. fused \in Seq(Rows)
  <2>1. fused \in [1..N -> Rows]
    BY <1>3, <1>12, <1>13
  <2>2. QED
    BY <1>12, <2>1
<1>15. ASSUME NEW i \in DOMAIN fused PROVE (\E k \in DOMAIN v : fused[i] = v[k]) \/ (\E k \in DOMAIN w : fused[i] = w[k])
  <2>1. PICK k \in DOMAIN l : fused[i] = l[k]
    BY <1>5, <1>13
  <2>2. QED
    BY <1>4, <2>1
<1>16. \A i, j \in DOMAIN fused : fused[i].id = fused[j].id => i = j
  BY <1>12, <1>13
<1>17. ASSUME NEW k \in DOMAIN v PROVE \E i \in DOMAIN fused : fused[i].id = v[k].id
  <2>1. v[k].id \in ids
    BY <1>4, <1>6
  <2>2. QED
    BY <1>12, <1>13, <2>1
<1>18. InOrder(v, w, fused)
  <2> SUFFICES ASSUME NEW i \in DOMAIN fused, NEW j \in DOMAIN fused,
                      Above(v, fused[i].id, fused[j].id), Above(w, fused[i].id, fused[j].id),
                      Boost(fused[i]) >= Boost(fused[j]), fused[i].id # fused[j].id
               PROVE  i <= j
    BY DEF InOrder
  <2>1. /\ ranked[i] \in ids /\ ranked[j] \in ids /\ ranked[i] = fused[i].id /\ ranked[j] = fused[j].id
        /\ fused[i] = row(ranked[i]) /\ fused[j] = row(ranked[j]) /\ i \in 1..N /\ j \in 1..N
    BY <1>13
  <2>2. AheadOf(v, w, ranked[i], ranked[j])
    BY <1>11, <2>1
  <2>3. i < j
    BY <1>7, <1>12, <2>1, <2>2
  <2>4. QED
    BY <1>12, <2>1, <2>3
<1>19. QED
  BY <1>14, <1>15, <1>16, <1>17, <1>18

(***************************************************************************)
(* Retrieval: the inductive invariant                                      *)
(***************************************************************************)
Now(what, among) == UNION {{c} \X what[c] : c \in {d \in among : what[d] # Missing}}
SearchSteps == {"idle", "planned", "vectors", "searched", "words", "details", "fusing", "reranking", "completed", "failed"}
AfterMerge == {"searched", "words", "details", "fusing", "reranking", "completed"}
InScope == plan.retrieve /\ plan.intent # "out_of_scope"

SearchTyped ==
  /\ held \in [Collections -> AnyContent] /\ \A c \in Collections : held[c] \in Contents[c]
  /\ selected \subseteq Collections /\ unread \subseteq selected
  /\ searchStep \in SearchSteps
  /\ hits \in Seq(Rows) /\ Len(hits) <= TopN /\ results \in Seq(Rows) /\ Len(results) <= TopK

SearchFresh ==
  searchStep = "idle" => unread = {} /\ found = {} /\ nearest = <<>> /\ worded = <<>> /\ hits = <<>>

\* What was asked for passes the filter: a plan's targets hold all the types it needs.
PlanFits == InScope => \A row \in Rows : Asked(row) => Passes(row)

\* Whatever was read was held at some time, and passes.
RowsSeen ==
  /\ IsFiniteSet(found)
  /\ seen \subseteq selected \X Rows
  /\ Now(held, selected) \subseteq seen /\ stayed \subseteq Now(held, selected)
  /\ nearest \in Seq(Collections \X Rows) /\ worded \in Seq(Collections \X Rows)
  /\ \A f \in found : f \in seen /\ Passes(f[2])
  /\ \A i \in DOMAIN nearest : nearest[i] \in seen /\ Passes(nearest[i][2])
  /\ \A i \in DOMAIN worded : worded[i] \in seen /\ Passes(worded[i][2])

FullOf(S) == \E T \in SUBSET S : Cardinality(T) = TopN

\* A row that stayed is not lost to the vector search, while it reads and from then on.
NearestKept ==
  /\ searchStep = "vectors" =>
       \A s \in stayed : Passes(s[2]) => s[1] \in unread \/ s \in found \/ FullOf(found)
  /\ searchStep \in AfterMerge /\ InScope =>
       \A s \in stayed : Passes(s[2]) => Len(nearest) = TopN \/ \E i \in DOMAIN nearest : nearest[i] = s

\* The hits are the best of the fusion.
HitsRight ==
  searchStep \in {"reranking", "completed"} =>
    /\ \A i \in DOMAIN hits : \/ \E k \in DOMAIN nearest : hits[i] = nearest[k][2]
                              \/ \E k \in DOMAIN worded : hits[i] = worded[k][2]
    /\ \A i, j \in DOMAIN hits : hits[i].id = hits[j].id => i = j
    /\ \A k \in DOMAIN nearest : Len(hits) = TopN \/ \E i \in DOMAIN hits : hits[i].id = nearest[k][2].id
    /\ InOrder(RowsOf(nearest), RowsOf(worded), hits)

ResultsRight ==
  /\ searchStep # "completed" => results = <<>>
  /\ \A i, j \in DOMAIN results : results[i].id = results[j].id => i = j

SearchKept == SearchTyped /\ SearchFresh /\ PlanFits /\ RowsSeen /\ NearestKept /\ HitsRight /\ ResultsRight

\* What collections hold at a time are rows of theirs, finitely many in each.
LEMMA NowRows ==
  ASSUME NEW what, NEW among, among \subseteq Collections, \A c \in among : what[c] \in Contents[c]
  PROVE  /\ Now(what, among) \subseteq among \X Rows
         /\ \A c \in among : what[c] # Missing => what[c] \subseteq Rows /\ IsFiniteSet(what[c])
         /\ \A s \in Now(what, among) : s[1] \in among /\ what[s[1]] # Missing /\ s[2] \in what[s[1]] /\ s = <<s[1], s[2]>>
         /\ \A c \in among : what[c] # Missing => \A r \in what[c] : <<c, r>> \in Now(what, among)
<1>1. ASSUME NEW c \in among, what[c] # Missing PROVE what[c] \subseteq Rows /\ IsFiniteSet(what[c])
  <2>1. what[c] \in AnyContent \ {Missing}
    BY <1>1 DEF AnyContent
  <2>2. what[c] \subseteq Rows
    BY <2>1 DEF Rows
  <2>3. IsFiniteSet(what[c])
    BY <1>1, RetrievalAssumption
  <2>4. QED
    BY <2>2, <2>3
<1>2. ASSUME NEW s \in Now(what, among)
      PROVE  s[1] \in among /\ what[s[1]] # Missing /\ s[2] \in what[s[1]] /\ s = <<s[1], s[2]>>
  <2>1. PICK c \in among : what[c] # Missing /\ s \in {c} \X what[c]
    BY DEF Now
  <2>2. s = <<s[1], s[2]>> /\ s[1] = c /\ s[2] \in what[c]
    BY <2>1
  <2>3. QED
    BY <2>1, <2>2
<1>3. Now(what, among) \subseteq among \X Rows
  <2>1. ASSUME NEW s \in Now(what, among) PROVE s \in among \X Rows
    <3>1. s[1] \in among /\ s[2] \in Rows /\ s = <<s[1], s[2]>>
      BY <1>1, <1>2
    <3>2. QED
      BY <3>1
  <2>2. QED
    BY <2>1
<1>4. ASSUME NEW c \in among, what[c] # Missing, NEW r \in what[c] PROVE <<c, r>> \in Now(what, among)
  <2>1. <<c, r>> \in {c} \X what[c]
    OBVIOUS
  <2>2. QED
    BY <1>4, <2>1 DEF Now
<1>5. QED
  BY <1>1, <1>2, <1>3, <1>4

\* The invariant holds before a search.
LEMMA SearchStarts == SearchInit => SearchKept
<1> SUFFICES ASSUME SearchInit PROVE SearchKept
  OBVIOUS
<1> USE DEF SearchInit
<1>1. TopN \in Nat /\ TopK \in Nat
  BY RetrievalAssumption
<1>2. hits \in Seq(Rows) /\ results \in Seq(Rows) /\ nearest \in Seq(Collections \X Rows) /\ worded \in Seq(Collections \X Rows)
  BY EmptySeq, Zenon
<1>3. Len(hits) = 0 /\ Len(results) = 0 /\ DOMAIN hits = {} /\ DOMAIN results = {} /\ DOMAIN nearest = {} /\ DOMAIN worded = {}
  OBVIOUS
<1>4. SearchTyped
  BY <1>1, <1>2, <1>3 DEF SearchTyped, SearchSteps
<1>5. SearchFresh /\ NearestKept /\ HitsRight
  BY DEF SearchFresh, NearestKept, HitsRight, AfterMerge
<1>6. PlanFits
  BY DEF PlanFits, InScope, NoPlan
<1>7. RowsSeen
  <2>1. Now(held, selected) = {}
    BY DEF Now
  <2>2. IsFiniteSet(found)
    BY FS_EmptySet
  <2>3. QED
    BY <1>2, <1>3, <2>1, <2>2 DEF RowsSeen
<1>8. ResultsRight
  BY <1>3 DEF ResultsRight
<1>9. QED
  BY <1>4, <1>5, <1>6, <1>7, <1>8 DEF SearchKept

\* It holds when a search begins, whatever is searched.
LEMMA BeginKept ==
  ASSUME SearchKept, NEW c \in SUBSET Collections, NEW p, Begin(c, p), PlanFits',
         searchStep' \in {"planned", "completed"}, searchStep' = "completed" => ~InScope'
  PROVE  SearchKept'
<1> USE DEF Begin
<1>1. found = {} /\ nearest = <<>> /\ worded = <<>> /\ hits = <<>> /\ results = <<>>
  BY DEF SearchKept, SearchFresh, ResultsRight
<1>2. found' = {} /\ nearest' = <<>> /\ worded' = <<>> /\ hits' = <<>> /\ results' = <<>>
  BY <1>1
<1>3. DOMAIN hits' = {} /\ DOMAIN results' = {} /\ DOMAIN nearest' = {} /\ DOMAIN worded' = {}
  BY <1>2
<1>4. SearchTyped'
  <2>1. unread = {}
    BY DEF SearchKept, SearchFresh
  <2>2. QED
    BY <2>1 DEF SearchKept, SearchTyped, SearchSteps
<1>5. SearchFresh' /\ HitsRight' /\ ResultsRight' /\ NearestKept'
  BY <1>1, <1>2, <1>3 DEF SearchFresh, HitsRight, ResultsRight, NearestKept, InOrder, AfterMerge
<1>6. RowsSeen'
  <2>1. Now(held, selected)' = Now(held, selected')
    BY DEF Now
  <2>2. InCollections(held) = Now(held, selected')
    BY DEF InCollections, Now
  <2>3. \A d \in selected' : held[d] \in Contents[d]
    BY DEF SearchKept, SearchTyped
  <2>4. Now(held, selected') \subseteq selected' \X Rows
    BY <2>3, NowRows
  <2>5. nearest' \in Seq(Collections \X Rows) /\ worded' \in Seq(Collections \X Rows)
    BY <1>1 DEF SearchKept, RowsSeen
  <2>6. IsFiniteSet(found)'
    BY <1>2, FS_EmptySet
  <2>7. QED
    BY <1>2, <1>3, <2>1, <2>2, <2>4, <2>5, <2>6 DEF RowsSeen
<1>7. QED
  BY <1>4, <1>5, <1>6 DEF SearchKept

\* A reconciled plan has the targets of all it asks for.
LEMMA UnderstandKept ==
  ASSUME SearchKept, NEW c \in SUBSET Collections, Understand(c)
  PROVE  SearchKept'
<1>1. PICK p \in Plans : /\ Begin(c, Reconciled(p))
                         /\ searchStep' = IF p.retrieve /\ p.intent # "out_of_scope" THEN "planned" ELSE "completed"
  BY DEF Understand
<1>2. p \in [intent : STRING, retrieve : BOOLEAN, types : SUBSET DOMAIN KindOf,
              fields : SUBSET SUBSET STRING, targets : SUBSET Both \ {{}}]
  BY RetrievalAssumption
<1> DEFINE needed == {KindOf[t] : t \in p.types} \cup (IF p.intent \in CaseOnlyIntents THEN {"case"} ELSE {})
           q == Reconciled(p)
<1>3. q = IF p.retrieve /\ p.intent # "out_of_scope" /\ ~ (needed \subseteq p.targets) THEN [p EXCEPT !.targets = Both] ELSE p
  BY DEF Reconciled
<1>4. needed \subseteq Both
  <2>1. \A t \in p.types : KindOf[t] \in Both
    BY <1>2, RetrievalAssumption
  <2>2. QED
    BY <2>1 DEF Both
<1> HIDE DEF needed, q
<1>5. q.intent = p.intent /\ q.retrieve = p.retrieve /\ q.types = p.types /\ q.fields = p.fields
  BY <1>2, <1>3
<1>6. p.retrieve /\ p.intent # "out_of_scope" => needed \subseteq q.targets
  <2>1. CASE q = [p EXCEPT !.targets = Both]
    <3>1. q.targets = Both
      BY <1>2, <2>1
    <3>2. QED
      BY <1>4, <3>1
  <2>2. CASE q = p /\ ~(p.retrieve /\ p.intent # "out_of_scope" /\ ~ (needed \subseteq p.targets))
    BY <2>2
  <2>3. QED
    BY <1>3, <2>1, <2>2
<1>7. plan' = q
  BY <1>1 DEF Begin, q
<1>8. PlanFits'
  <2> SUFFICES ASSUME InScope', NEW row \in Rows, Asked(row)' PROVE Passes(row)'
    BY DEF PlanFits
  <2>1. needed \subseteq q.targets
    BY <1>5, <1>6, <1>7 DEF InScope
  <2>2. /\ q.types = {} \/ TypeOf[row.id] \in q.types
        /\ \A values \in q.fields : FieldsOf[row.id] \cap values # {}
        /\ q.types = {} => KindOf[TypeOf[row.id]] \in (IF q.intent \in CaseOnlyIntents THEN {"case"} ELSE q.targets)
    BY <1>7 DEF Asked, WithFields
  <2>3. KindOf[TypeOf[row.id]] \in q.targets
    <3>1. CASE q.types = {}
      BY <1>5, <2>1, <2>2, <3>1 DEF needed
    <3>2. CASE q.types # {}
      BY <1>5, <2>1, <2>2, <3>2 DEF needed
    <3>3. QED
      BY <3>1, <3>2
  <2>4. QED
    BY <1>7, <2>2, <2>3 DEF Passes, WithFields
<1>9. searchStep' \in {"planned", "completed"} /\ (searchStep' = "completed" => ~InScope')
  BY <1>1, <1>5, <1>7 DEF InScope
<1>10. QED
  BY <1>1, <1>8, <1>9, BeginKept DEF q

\* So has the filter of a direct call, which leaves no target out.
LEMMA DirectKept ==
  ASSUME SearchKept, NEW c \in SUBSET Collections, SearchDirectly(c)
  PROVE  SearchKept'
<1>1. PICK f \in DirectFilters :
        Begin(c, [intent |-> "direct", retrieve |-> TRUE, types |-> f.types, fields |-> f.fields, targets |-> Both])
  BY DEF SearchDirectly
<1>2. searchStep' = "planned"
  BY DEF SearchDirectly
<1>3. plan' = [intent |-> "direct", retrieve |-> TRUE, types |-> f.types, fields |-> f.fields, targets |-> Both]
  BY <1>1 DEF Begin
<1>4. PlanFits'
  <2> SUFFICES ASSUME NEW row \in Rows, Asked(row)' PROVE Passes(row)'
    BY DEF PlanFits
  <2>1. KindOf[TypeOf[row.id]] \in Both
    BY RetrievalAssumption
  <2>2. /\ f.types = {} \/ TypeOf[row.id] \in f.types
        /\ \A values \in f.fields : FieldsOf[row.id] \cap values # {}
    BY <1>3 DEF Asked, WithFields
  <2>3. QED
    BY <1>3, <2>1, <2>2 DEF Passes, WithFields
<1>5. QED
  BY <1>1, <1>2, <1>4, BeginKept

\* It holds as long as what is read was seen and passes, and no row that stayed is lost.
LEMMA ReadingKept ==
  ASSUME SearchKept, UNCHANGED <<Reading, History, hits, results>>,
         searchStep # "completed", searchStep' \in SearchSteps \ {"idle", "reranking", "completed"},
         unread' \subseteq selected, IsFiniteSet(found'), \A f \in found' : f \in seen /\ Passes(f[2]),
         nearest' \in Seq(Collections \X Rows), \A i \in DOMAIN nearest' : nearest'[i] \in seen /\ Passes(nearest'[i][2]),
         worded' \in Seq(Collections \X Rows), \A i \in DOMAIN worded' : worded'[i] \in seen /\ Passes(worded'[i][2]),
         NearestKept'
  PROVE  SearchKept'
<1>1. plan' = plan /\ selected' = selected /\ held' = held /\ seen' = seen /\ stayed' = stayed /\ hits' = hits /\ results' = results
  BY DEF Reading, History
<1>2. SearchTyped'
  BY <1>1 DEF SearchKept, SearchTyped
<1>3. SearchFresh' /\ HitsRight'
  BY DEF SearchFresh, HitsRight
<1>4. PlanFits'
  BY <1>1 DEF SearchKept, PlanFits, InScope, Asked, Passes, WithFields
<1>5. RowsSeen'
  <2>1. Now(held, selected)' = Now(held, selected)
    BY <1>1 DEF Now
  <2>2. Now(held, selected) \subseteq seen /\ stayed \subseteq Now(held, selected) /\ seen \subseteq selected \X Rows
    BY DEF SearchKept, RowsSeen
  <2>3. \A r : Passes(r)' <=> Passes(r)
    BY <1>1 DEF Passes, WithFields
  <2>4. Now(held, selected)' \subseteq seen' /\ stayed' \subseteq Now(held, selected)' /\ seen' \subseteq selected' \X Rows
    BY <1>1, <2>1, <2>2
  <2>5. \A f \in found' : f \in seen' /\ Passes(f[2])'
    BY <1>1, <2>3
  <2>6. \A i \in DOMAIN nearest' : nearest'[i] \in seen' /\ Passes(nearest[i][2])'
    BY <1>1, <2>3
  <2>7. \A i \in DOMAIN worded' : worded'[i] \in seen' /\ Passes(worded[i][2])'
    BY <1>1, <2>3
  <2>8. QED
    BY <2>4, <2>5, <2>6, <2>7 DEF RowsSeen
<1>6. ResultsRight'
  BY <1>1 DEF SearchKept, ResultsRight
<1>7. QED
  BY <1>2, <1>3, <1>4, <1>5, <1>6 DEF SearchKept

\* Once merged, the nearest stay as they are while no row comes to have stayed.
LEMMA NearestStay ==
  ASSUME SearchKept, stayed' \subseteq stayed, plan' = plan, nearest' = nearest,
         searchStep' # "vectors", searchStep' \in AfterMerge => searchStep \in AfterMerge
  PROVE  NearestKept'
<1>1. \A r : Passes(r)' <=> Passes(r)
  BY DEF Passes, WithFields
<1>2. InScope' <=> InScope
  BY DEF InScope
<1>3. searchStep \in SearchSteps /\ NearestKept
  BY DEF SearchKept, SearchTyped
<1>4. QED
  BY <1>1, <1>2, <1>3 DEF NearestKept, AfterMerge

\* What the invariant says of rows read.
LEMMA RowsRead ==
  ASSUME SearchKept
  PROVE  /\ IsFiniteSet(found) /\ \A f \in found : f \in seen /\ Passes(f[2])
         /\ found \subseteq selected \X Rows /\ found \subseteq Collections \X Rows /\ selected \subseteq Collections
         /\ nearest \in Seq(Collections \X Rows) /\ worded \in Seq(Collections \X Rows)
         /\ \A i \in DOMAIN nearest : nearest[i] \in seen /\ Passes(nearest[i][2])
         /\ \A i \in DOMAIN worded : worded[i] \in seen /\ Passes(worded[i][2])
         /\ unread \subseteq selected /\ searchStep \in SearchSteps
         /\ \A c \in selected : held[c] # Missing =>
              held[c] \subseteq Rows /\ IsFiniteSet(held[c]) /\ \A r \in held[c] : <<c, r>> \in seen
<1>1. SearchTyped /\ RowsSeen
  BY DEF SearchKept
<1>2. selected \subseteq Collections /\ \A c \in selected : held[c] \in Contents[c]
  BY <1>1 DEF SearchTyped
<1>3. Now(held, selected) \subseteq seen /\ seen \subseteq selected \X Rows
  BY <1>1 DEF RowsSeen
<1>4. \A c \in selected : held[c] # Missing =>
              held[c] \subseteq Rows /\ IsFiniteSet(held[c]) /\ \A r \in held[c] : <<c, r>> \in Now(held, selected)
  BY <1>2, NowRows
<1>5. found \subseteq seen
  BY <1>1 DEF RowsSeen
<1>6. selected \X Rows \subseteq Collections \X Rows
  BY <1>2
<1>7. QED
  BY <1>1, <1>2, <1>3, <1>4, <1>5, <1>6 DEF SearchTyped, RowsSeen

\* The collections are found before each search.
LEMMA FindKept ==
  ASSUME SearchKept, FindCollections("planned", "vectors") \/ FindCollections("searched", "words")
  PROVE  SearchKept'
<1> USE DEF FindCollections, SearchGoes
<1>1. UNCHANGED <<Reading, History, hits, results>> /\ nearest' = nearest /\ worded' = worded /\ found' = {}
  OBVIOUS
<1>2. plan' = plan /\ stayed' = stayed /\ selected' = selected
  BY <1>1 DEF Reading, History
<1>3. unread' = Existing /\ Existing \subseteq selected
  BY DEF Existing
<1>4. NearestKept'
  <2>1. CASE FindCollections("planned", "vectors")
    <3>1. searchStep' = "vectors"
      BY <2>1
    <3>2. ASSUME NEW s \in stayed' PROVE s[1] \in unread'
      <4>1. s \in Now(held, selected)
        BY <1>2 DEF SearchKept, RowsSeen
      <4>2. selected \subseteq Collections /\ \A d \in selected : held[d] \in Contents[d]
        BY DEF SearchKept, SearchTyped
      <4>3. s[1] \in selected /\ held[s[1]] # Missing
        BY <4>1, <4>2, NowRows
      <4>4. QED
        BY <1>3, <4>3 DEF Existing
    <3>3. QED
      BY <3>1, <3>2 DEF NearestKept, AfterMerge
  <2>2. CASE FindCollections("searched", "words")
    BY <1>1, <1>2, <2>2, NearestStay DEF AfterMerge
  <2>3. QED
    BY <2>1, <2>2
<1>5. IsFiniteSet(found')
  BY <1>1, FS_EmptySet
<1>6. searchStep # "completed" /\ searchStep' \in SearchSteps \ {"idle", "reranking", "completed"}
  BY DEF SearchSteps
<1>7. QED
  BY <1>1, <1>3, <1>4, <1>5, <1>6, ReadingKept, RowsRead

\* A collection's nearest rows are all that pass, or as many as there are places.
LEMMA VectorsKept ==
  ASSUME SearchKept, NEW c \in Collections, SearchVectors(c)
  PROVE  SearchKept'
<1> USE DEF SearchVectors, SearchGoes
<1>1. PICK near \in AtMostTopN({r \in held[c] : Passes(r)}) : found' = found \cup {c} \X near
  OBVIOUS
<1>2. UNCHANGED <<Reading, History, hits, results>> /\ nearest' = nearest /\ worded' = worded
  OBVIOUS
<1>3. plan' = plan /\ stayed' = stayed /\ selected' = selected
  BY <1>2 DEF Reading, History
<1>4. near \subseteq held[c] /\ (\A r \in near : Passes(r))
      /\ (Cardinality(near) = TopN \/ near = {r \in held[c] : Passes(r)})
  BY DEF AtMostTopN
<1>5. c \in selected /\ held[c] # Missing /\ unread' = unread \ {c}
  BY RowsRead
<1>6. IsFiniteSet(near) /\ IsFiniteSet(found') /\ Cardinality({c} \X near) = Cardinality(near)
  <2>1. IsFiniteSet(held[c])
    BY <1>5, RowsRead
  <2>2. IsFiniteSet(near)
    BY <1>4, <2>1, FS_Subset
  <2>3. IsFiniteSet({c}) /\ Cardinality({c}) = 1
    BY FS_Singleton
  <2>4. IsFiniteSet({c} \X near) /\ Cardinality({c} \X near) = 1 * Cardinality(near)
    <3>1. IsFiniteSet({c} \X near) /\ Cardinality({c} \X near) = Cardinality({c}) * Cardinality(near)
      BY <2>2, <2>3, FS_Product
    <3>2. QED
      BY <2>3, <3>1
  <2>5. Cardinality(near) \in Nat
    BY <2>2, FS_CardinalityType
  <2>6. IsFiniteSet(found)
    BY RowsRead
  <2>7. IsFiniteSet(found')
    BY <1>1, <2>4, <2>6, FS_Union
  <2>8. QED
    BY <2>2, <2>4, <2>5, <2>7
<1>7. ASSUME NEW f \in found' PROVE f \in seen /\ Passes(f[2])
  <2>1. CASE f \in found
    BY <2>1, RowsRead
  <2>2. CASE f \in {c} \X near
    <3>1. f = <<c, f[2]>> /\ f[2] \in near
      BY <2>2
    <3>2. <<c, f[2]>> \in seen
      BY <1>4, <1>5, <3>1, RowsRead
    <3>3. QED
      BY <1>4, <3>1, <3>2
  <2>3. QED
    BY <1>1, <2>1, <2>2
<1>8. NearestKept'
  <2>1. searchStep = "vectors" /\ searchStep' = "vectors"
    OBVIOUS
  <2>2. \A r : Passes(r)' <=> Passes(r)
    BY <1>3 DEF Passes, WithFields
  <2>3. ASSUME NEW s \in stayed, Passes(s[2]) PROVE s[1] \in unread' \/ s \in found' \/ FullOf(found')
    <3>1. s[1] \in unread \/ s \in found \/ FullOf(found)
      BY <2>1, <2>3 DEF SearchKept, NearestKept
    <3>2. CASE s[1] # c /\ s[1] \in unread
      BY <1>5, <3>2
    <3>3. CASE s \in found
      BY <1>1, <3>3
    <3>4. CASE FullOf(found)
      BY <1>1, <3>4 DEF FullOf
    <3>5. CASE s[1] = c
      <4>1. s \in Now(held, selected)
        BY DEF SearchKept, RowsSeen
      <4>2. selected \subseteq Collections /\ \A d \in selected : held[d] \in Contents[d]
        BY DEF SearchKept, SearchTyped
      <4>3. s[2] \in held[c] /\ s = <<c, s[2]>>
        BY <3>5, <4>1, <4>2, NowRows
      <4>4. CASE near = {r \in held[c] : Passes(r)}
        <5>1. s \in {c} \X near
          BY <2>3, <4>3, <4>4
        <5>2. QED
          BY <1>1, <5>1
      <4>5. CASE Cardinality(near) = TopN
        <5>1. {c} \X near \in SUBSET found' /\ Cardinality({c} \X near) = TopN
          BY <1>1, <1>6, <4>5
        <5>2. FullOf(found')
          BY <5>1 DEF FullOf
        <5>3. QED
          BY <5>2
      <4>6. QED
        BY <1>4, <4>4, <4>5
    <3>6. QED
      BY <3>1, <3>2, <3>3, <3>4, <3>5
  <2>4. \A s \in stayed' : Passes(s[2])' => s[1] \in unread' \/ s \in found' \/ FullOf(found')
    BY <1>3, <2>2, <2>3
  <2>5. FullOf(found') <=> FullOf(found)'
    BY DEF FullOf
  <2>6. QED
    BY <2>1, <2>4, <2>5 DEF NearestKept, AfterMerge
<1>9. searchStep # "completed" /\ searchStep' \in SearchSteps \ {"idle", "reranking", "completed"}
  BY DEF SearchSteps
<1>10. unread' \subseteq selected
  BY <1>5, RowsRead
<1>11. QED
  BY <1>2, <1>6, <1>7, <1>8, <1>9, <1>10, ReadingKept, RowsRead

\* An arrangement names no element twice; one of as many elements as there are names all.
LEMMA Arranged ==
  ASSUME NEW S, NEW T, S \subseteq T, NEW n \in Nat, NEW s \in Arrangements(S, n)
  PROVE  /\ s \in Seq(T) /\ Len(s) = n /\ DOMAIN s = 1..n
         /\ \A i \in DOMAIN s : s[i] \in S
         /\ \A i, j \in DOMAIN s : s[i] = s[j] => i = j
         /\ IsFiniteSet(S) /\ Cardinality(S) = n => \A x \in S : \E i \in DOMAIN s : s[i] = x
<1>1. s \in [1..n -> S] /\ \A i, j \in 1..n : s[i] = s[j] => i = j
  BY DEF Arrangements
<1>2. s \in [1..n -> T]
  BY <1>1
<1>3. s \in Seq(T) /\ Len(s) = n
  BY <1>2
<1>4. ASSUME IsFiniteSet(S), Cardinality(S) = n, NEW x \in S PROVE \E i \in DOMAIN s : s[i] = x
  <2>1. s \in Injection(1..n, S)
    BY <1>1 DEF Injection, IsInjective
  <2>2. Cardinality(1..n) = n
    BY FS_Interval
  <2>3. s \in Surjection(1..n, S)
    BY <1>4, <2>1, <2>2, FS_Injection
  <2>4. QED
    BY <1>1, <2>3 DEF Surjection
<1>5. QED
  BY <1>1, <1>3, <1>4

\* The merged hits are all rows found, or fill all places.
LEMMA MergeKept ==
  ASSUME SearchKept, MergeHits
  PROVE  SearchKept'
<1> USE DEF MergeHits, SearchGoes
<1>1. UNCHANGED <<Reading, History, hits, results>> /\ worded' = worded /\ unread' = unread /\ found' = {}
  OBVIOUS
<1>2. plan' = plan /\ stayed' = stayed /\ selected' = selected
  BY <1>1 DEF Reading, History
<1>3. PICK S \in AtMostTopN(found) : nearest' \in Arrangements(found, Cardinality(S))
  OBVIOUS
<1>4. S \in SUBSET found /\ (Cardinality(S) = TopN \/ (S = found /\ Cardinality(found) < TopN))
  BY DEF AtMostTopN
<1>5. IsFiniteSet(found) /\ found \subseteq Collections \X Rows /\ Cardinality(found) \in Nat /\ TopN \in Nat
  BY RowsRead, RetrievalAssumption, FS_CardinalityType
<1>6. IsFiniteSet(S) /\ Cardinality(S) \in Nat
  BY <1>4, <1>5, FS_Subset, FS_CardinalityType
<1>7. /\ nearest' \in Seq(Collections \X Rows) /\ Len(nearest') = Cardinality(S) /\ \A i \in DOMAIN nearest' : nearest'[i] \in found
      /\ Cardinality(found) = Cardinality(S) => \A x \in found : \E i \in DOMAIN nearest' : nearest'[i] = x
  BY <1>3, <1>5, <1>6, Arranged
<1>8. NearestKept'
  <2>1. searchStep = "vectors" /\ searchStep' = "searched" /\ unread = {}
    OBVIOUS
  <2>2. \A r : Passes(r)' <=> Passes(r)
    BY <1>2 DEF Passes, WithFields
  <2>3. ASSUME NEW s \in stayed, Passes(s[2]) PROVE Len(nearest') = TopN \/ \E i \in DOMAIN nearest' : nearest'[i] = s
    <3>1. s \in found \/ FullOf(found)
      BY <2>1, <2>3 DEF SearchKept, NearestKept
    <3>2. CASE Cardinality(S) = TopN
      BY <1>7, <3>2
    <3>3. CASE S = found /\ Cardinality(found) < TopN
      <4>1. ~FullOf(found)
        <5>1. ASSUME NEW T \in SUBSET found PROVE Cardinality(T) # TopN
          <6>1. Cardinality(T) <= Cardinality(found) /\ IsFiniteSet(T)
            BY <1>5, FS_Subset
          <6>2. Cardinality(T) \in Nat
            BY <6>1, FS_CardinalityType
          <6>3. QED
            BY <1>5, <3>3, <6>1, <6>2
        <5>2. QED
          BY <5>1 DEF FullOf
      <4>2. QED
        BY <1>7, <3>1, <3>3, <4>1
    <3>4. QED
      BY <1>4, <3>2, <3>3
  <2>4. \A s \in stayed' : Passes(s[2])' => Len(nearest') = TopN \/ \E i \in DOMAIN nearest' : nearest'[i] = s
    BY <1>2, <2>2, <2>3
  <2>5. QED
    BY <2>1, <2>4 DEF NearestKept, AfterMerge
<1>9. \A i \in DOMAIN nearest' : nearest'[i] \in seen /\ Passes(nearest'[i][2])
  BY <1>7, RowsRead
<1>10. searchStep # "completed" /\ searchStep' \in SearchSteps \ {"idle", "reranking", "completed"}
  BY DEF SearchSteps
<1>11. IsFiniteSet(found') /\ \A f \in found' : f \in seen /\ Passes(f[2])
  BY <1>1, FS_EmptySet
<1>12. unread' \subseteq selected /\ worded' \in Seq(Collections \X Rows)
       /\ \A i \in DOMAIN worded' : worded'[i] \in seen /\ Passes(worded'[i][2])
  BY <1>1, RowsRead
<1>13. QED
  BY <1>1, <1>7, <1>8, <1>9, <1>10, <1>11, <1>12, ReadingKept

\* The words of a collection are counted in all its rows that pass.
LEMMA CandidatesKept ==
  ASSUME SearchKept, NEW c \in Collections, ReadCandidates(c)
  PROVE  SearchKept'
<1> USE DEF ReadCandidates, SearchGoes
<1> DEFINE rows == {r \in held[c] : Passes(r)}
<1>1. UNCHANGED <<Reading, History, hits, results>> /\ nearest' = nearest /\ worded' = worded
  OBVIOUS
<1>2. c \in selected /\ held[c] # Missing /\ unread' = unread \ {c} /\ found' = found \cup {c} \X rows
  BY RowsRead
<1>3. IsFiniteSet(found')
  <2>1. IsFiniteSet(rows)
    BY <1>2, RowsRead, FS_Subset
  <2>2. IsFiniteSet({c}) /\ IsFiniteSet(found)
    BY RowsRead, FS_Singleton
  <2> HIDE DEF rows
  <2>3. IsFiniteSet({c} \X rows)
    BY <2>1, <2>2, FS_Product
  <2>4. IsFiniteSet(found \cup {c} \X rows)
    BY <2>2, <2>3, FS_Union
  <2>5. QED
    BY <1>2, <2>4 DEF rows
<1>4. ASSUME NEW f \in found' PROVE f \in seen /\ Passes(f[2])
  <2>1. CASE f \in found
    BY <2>1, RowsRead
  <2>2. CASE f \in {c} \X rows
    <3>1. f = <<c, f[2]>> /\ f[2] \in held[c] /\ Passes(f[2])
      BY <2>2
    <3>2. QED
      BY <1>2, <3>1, RowsRead
  <2>3. QED
    BY <1>2, <2>1, <2>2
<1>5. plan' = plan /\ stayed' = stayed
  BY <1>1 DEF Reading, History
<1>6. NearestKept'
  BY <1>1, <1>5, NearestStay DEF AfterMerge
<1>7. searchStep # "completed" /\ searchStep' \in SearchSteps \ {"idle", "reranking", "completed"}
  BY DEF SearchSteps
<1>8. unread' \subseteq selected
  BY <1>2, RowsRead
<1> HIDE DEF rows, ReadCandidates
<1>9. QED
  BY <1>1, <1>3, <1>4, <1>6, <1>7, <1>8, ReadingKept, RowsRead

\* The best of them are rows found, of collections searched.
LEMMA ScoredKept ==
  ASSUME SearchKept, ScoreCandidates
  PROVE  SearchKept'
<1> USE DEF ScoreCandidates, SearchGoes
<1>1. UNCHANGED <<Reading, History, hits, results>> /\ nearest' = nearest /\ found' = {}
  OBVIOUS
<1>2. PICK n \in 0..TopN : n <= Cardinality(found) /\ worded' \in Arrangements(found, n)
  OBVIOUS
<1>3. n \in Nat /\ found \subseteq Collections \X Rows
  BY RetrievalAssumption, RowsRead
<1>4. worded' \in Seq(Collections \X Rows) /\ \A i \in DOMAIN worded' : worded'[i] \in found
  BY <1>2, <1>3, Arranged
<1>5. \A i \in DOMAIN worded' : worded'[i] \in seen /\ Passes(worded'[i][2])
  BY <1>4, RowsRead
<1>6. unread' \subseteq selected
  <2>1. ASSUME NEW d \in unread' PROVE d \in selected
    <3>1. PICK i \in DOMAIN worded' : d = worded'[i][1]
      OBVIOUS
    <3>2. worded'[i] \in selected \X Rows
      BY <1>4, RowsRead
    <3>3. QED
      BY <3>1, <3>2
  <2>2. QED
    BY <2>1
<1>7. plan' = plan /\ stayed' = stayed
  BY <1>1 DEF Reading, History
<1>8. NearestKept'
  BY <1>1, <1>7, NearestStay DEF AfterMerge
<1>9. searchStep # "completed" /\ searchStep' \in SearchSteps \ {"idle", "reranking", "completed"}
  BY DEF SearchSteps
<1>10. IsFiniteSet(found') /\ \A f \in found' : f \in seen /\ Passes(f[2])
  BY <1>1, FS_EmptySet
<1> HIDE DEF ScoreCandidates
<1>11. QED
  BY <1>1, <1>4, <1>5, <1>6, <1>8, <1>9, <1>10, ReadingKept, RowsRead

\* The rows of a chunk pass the filter alike.
LEMMA SameChunk ==
  ASSUME NEW q, NEW r, q.id = r.id, Passes(q)
  PROVE  Passes(r)
BY DEF Passes, WithFields

\* The details are read of chunks that passed.
LEMMA DetailsKept ==
  ASSUME SearchKept, NEW c \in Collections, ReadDetails(c)
  PROVE  SearchKept'
<1> DEFINE rows == {q \in held[c] : \E i \in DOMAIN worded : worded[i][1] = c /\ worded[i][2].id = q.id}
           more == {<<c, r>> : r \in rows}
<1>1. UNCHANGED <<Reading, History, hits, results>> /\ nearest' = nearest /\ worded' = worded
  BY DEF ReadDetails
<1>2. c \in unread /\ held[c] # Missing /\ unread' = unread \ {c} /\ found' = found \cup more /\ searchStep = "details" /\ searchStep' = "details"
  BY DEF ReadDetails, SearchGoes
<1>3. c \in selected /\ rows \subseteq held[c] /\ IsFiniteSet(held[c])
  BY <1>2, RowsRead
<1>4. \A r \in rows : Passes(r)
  <2>1. \A q \in rows : \E i \in DOMAIN worded : worded[i][2].id = q.id /\ Passes(worded[i][2])
    BY RowsRead
  <2>2. QED
    BY <2>1, SameChunk
<1> HIDE DEF rows
<1>5. IsFiniteSet(found')
  <2>1. IsFiniteSet(rows)
    BY <1>3, FS_Subset
  <2>2. IsFiniteSet({c}) /\ IsFiniteSet(found)
    BY RowsRead, FS_Singleton
  <2>3. IsFiniteSet({c} \X rows)
    BY <2>1, <2>2, FS_Product
  <2>4. more = {c} \X rows
    OBVIOUS
  <2>5. IsFiniteSet(found \cup more)
    BY <2>2, <2>3, <2>4, FS_Union
  <2>6. QED
    BY <1>2, <2>5
<1>6. ASSUME NEW f \in found' PROVE f \in seen /\ Passes(f[2])
  <2>1. CASE f \in found
    BY <2>1, RowsRead
  <2>2. CASE f \in more
    <3>1. PICK r \in rows : f = <<c, r>>
      BY <2>2
    <3>2. f[2] = r /\ <<c, r>> \in seen
      BY <1>2, <1>3, <3>1, RowsRead
    <3>3. QED
      BY <1>4, <3>1, <3>2
  <2>3. QED
    BY <1>2, <2>1, <2>2
<1>7. plan' = plan /\ stayed' = stayed
  BY <1>1 DEF Reading, History
<1>8. NearestKept'
  BY <1>1, <1>2, <1>7, NearestStay DEF AfterMerge
<1>9. searchStep # "completed" /\ searchStep' \in SearchSteps \ {"idle", "reranking", "completed"}
  BY <1>2 DEF SearchSteps
<1>10. unread' \subseteq selected
  BY <1>2, RowsRead
<1>11. QED
  BY <1>1, <1>5, <1>6, <1>8, <1>9, <1>10, ReadingKept, RowsRead

\* The keyword hits are the rows the details were read from.
LEMMA TakenKept ==
  ASSUME SearchKept, TakeDetails
  PROVE  SearchKept'
<1> DEFINE places == {i \in DOMAIN worded : DetailsOf(worded[i]) # {}}
           left == Picked(worded, places)
<1>1. /\ UNCHANGED <<Reading, History, hits, results>> /\ nearest' = nearest /\ found' = {} /\ unread' = unread
      /\ worded' = [i \in DOMAIN left |-> CHOOSE f \in DetailsOf(left[i]) : TRUE]
      /\ searchStep = "details" /\ searchStep' = "fusing"
  BY DEF TakeDetails, SearchGoes
<1>2. DOMAIN worded = 1..Len(worded) /\ Len(worded) \in Nat
  BY RowsRead
<1>3. places \in SUBSET Nat /\ IsFiniteSet(places)
  <2>1. places \subseteq 1..Len(worded) /\ IsFiniteSet(1..Len(worded))
    BY <1>2, FS_Interval
  <2> HIDE DEF places
  <2>2. places \in SUBSET (1..Len(worded)) /\ 1..Len(worded) \subseteq Nat
    BY <1>2, <2>1
  <2>3. IsFiniteSet(places)
    BY <2>1, <2>2, FS_Subset
  <2>4. QED
    BY <2>2, <2>3
<1>4. Cardinality(places) \in Nat
  BY <1>3, FS_CardinalityType
<1>5. \A w \in 1..Cardinality(places) : \E i \in places : left[w] = worded[i]
  <2> HIDE DEF places
  <2>1. \A w \in 1..Cardinality(places) : Nth(places, w) \in places /\ left[w] = worded[Nth(places, w)]
    BY <1>3, PickedPlaces
  <2>2. QED
    BY <2>1
<1>6. DOMAIN left = 1..Cardinality(places)
  BY DEF Picked
<1>7. \A i \in places : DetailsOf(worded[i]) # {}
  OBVIOUS
<1> HIDE DEF left, places
<1>8. \A i \in DOMAIN left : DetailsOf(left[i]) # {}
  BY <1>5, <1>6, <1>7
<1>9. \A i \in DOMAIN left : worded'[i] \in found
  BY <1>1, <1>8 DEF DetailsOf
<1>10. worded' \in Seq(Collections \X Rows)
  <2>1. DOMAIN worded' = DOMAIN left
    BY <1>1
  <2>2. \A i \in DOMAIN left : worded'[i] \in Collections \X Rows
    BY <1>9, RowsRead
  <2>3. worded' = [i \in 1..Cardinality(places) |-> worded'[i]]
    BY <1>1, <1>6
  <2>4. QED
    BY <1>4, <1>6, <2>2, <2>3
<1>11. \A i \in DOMAIN worded' : worded'[i] \in seen /\ Passes(worded'[i][2])
  BY <1>1, <1>9, RowsRead
<1>12. plan' = plan /\ stayed' = stayed
  BY <1>1 DEF Reading, History
<1>13. NearestKept'
  BY <1>1, <1>12, NearestStay DEF AfterMerge
<1>14. searchStep # "completed" /\ searchStep' \in SearchSteps \ {"idle", "reranking", "completed"}
  BY <1>1 DEF SearchSteps
<1>15. IsFiniteSet(found') /\ \A f \in found' : f \in seen /\ Passes(f[2])
  BY <1>1, FS_EmptySet
<1>16. unread' \subseteq selected
  BY <1>1, RowsRead
<1>17. QED
  BY <1>1, <1>10, <1>11, <1>13, <1>14, <1>15, <1>16, ReadingKept, RowsRead

\* A service may fail at any time.
LEMMA FailedKept ==
  ASSUME SearchKept, SearchFails
  PROVE  SearchKept'
<1> USE DEF SearchFails
<1>1. UNCHANGED <<Reading, History, hits, results>> /\ nearest' = nearest /\ found' = found /\ unread' = unread /\ worded' = worded
  OBVIOUS
<1>2. plan' = plan /\ stayed' = stayed
  BY <1>1 DEF Reading, History
<1>3. NearestKept'
  BY <1>1, <1>2, NearestStay DEF AfterMerge
<1>4. searchStep # "completed" /\ searchStep' \in SearchSteps \ {"idle", "reranking", "completed"}
  BY DEF SearchSteps
<1>5. QED
  BY <1>1, <1>3, <1>4, ReadingKept, RowsRead

\* The hits are the first of the two lists' fusion.
LEMMA FusedKept ==
  ASSUME SearchKept, Fuse
  PROVE  SearchKept'
<1> DEFINE v == RowsOf(nearest)
           w == RowsOf(worded)
           n == IF Len(Fused(v, w)) < TopN THEN Len(Fused(v, w)) ELSE TopN
<1>1. /\ UNCHANGED <<Reading, History>> /\ searchStep = "fusing" /\ searchStep' = "reranking"
      /\ nearest' = nearest /\ found' = found /\ unread' = unread /\ worded' = worded /\ results' = results
      /\ hits' = SubSeq(Fused(v, w), 1, n)
  BY DEF Fuse, SearchGoes
<1>2. plan' = plan /\ stayed' = stayed /\ held' = held /\ seen' = seen /\ selected' = selected
  BY <1>1 DEF Reading, History
<1>3. TopN \in Nat
  BY RetrievalAssumption
<1>4. ASSUME NEW list \in Seq(Collections \X Rows)
      PROVE  RowsOf(list) \in Seq(Rows) /\ DOMAIN RowsOf(list) = DOMAIN list /\ \A i \in DOMAIN list : RowsOf(list)[i] = list[i][2]
  <2>1. \A i \in 1..Len(list) : list[i][2] \in Rows
    OBVIOUS
  <2>2. DOMAIN list = 1..Len(list) /\ Len(list) \in Nat
    OBVIOUS
  <2>3. RowsOf(list) \in [1..Len(list) -> Rows]
    BY <2>1, <2>2 DEF RowsOf
  <2>4. QED
    BY <2>2, <2>3 DEF RowsOf
<1>5. /\ v \in Seq(Rows) /\ DOMAIN v = DOMAIN nearest /\ \A i \in DOMAIN nearest : v[i] = nearest[i][2]
      /\ w \in Seq(Rows) /\ DOMAIN w = DOMAIN worded /\ \A i \in DOMAIN worded : w[i] = worded[i][2]
  BY <1>4, RowsRead
<1> HIDE DEF v, w
<1>6. PICK fused : fused = Fused(v, w)
  OBVIOUS
<1>7. /\ fused \in Seq(Rows)
      /\ \A i \in DOMAIN fused : (\E k \in DOMAIN v : fused[i] = v[k]) \/ (\E k \in DOMAIN w : fused[i] = w[k])
      /\ \A i, j \in DOMAIN fused : fused[i].id = fused[j].id => i = j
      /\ \A k \in DOMAIN v : \E i \in DOMAIN fused : fused[i].id = v[k].id
      /\ InOrder(v, w, fused)
  BY <1>5, <1>6, FusedRight
<1>8. n \in 0..Len(fused) /\ n <= TopN /\ (n = TopN \/ n = Len(fused)) /\ n \in Nat /\ n = IF Len(fused) < TopN THEN Len(fused) ELSE TopN
  <2>1. Len(fused) \in Nat /\ n = IF Len(fused) < TopN THEN Len(fused) ELSE TopN
    BY <1>6, <1>7
  <2> HIDE DEF n
  <2>2. QED
    BY <1>3, <2>1
<1> HIDE DEF n
<1>9. /\ hits' \in Seq(Rows) /\ Len(hits') = n /\ DOMAIN hits' = 1..n /\ DOMAIN fused = 1..Len(fused)
      /\ \A i \in 1..n : i \in DOMAIN fused /\ hits'[i] = fused[i]
  <2>1. hits' = SubSeq(fused, 1, n)
    BY <1>1, <1>6
  <2>2. hits' = [i \in 1..n |-> fused[i]]
    BY <1>7, <1>8, <2>1
  <2>3. DOMAIN fused = 1..Len(fused) /\ \A i \in 1..n : i \in DOMAIN fused
    <3>1. DOMAIN fused = 1..Len(fused) /\ Len(fused) \in Nat
      BY <1>7
    <3>2. \A m \in Nat : \A k \in 0..m : \A i \in 1..k : i \in 1..m
      OBVIOUS
    <3>3. QED
      BY <1>8, <3>1, <3>2
  <2>4. \A i \in DOMAIN fused : fused[i] \in Rows
    BY <1>7
  <2>5. hits' \in [1..n -> Rows]
    BY <2>2, <2>3, <2>4
  <2>6. hits' \in Seq(Rows) /\ Len(hits') = n
    BY <1>8, <2>5
  <2>7. QED
    BY <2>2, <2>3, <2>6
<1>10. SearchTyped'
  BY <1>1, <1>2, <1>8, <1>9 DEF SearchKept, SearchTyped, SearchSteps
<1>11. SearchFresh' /\ NearestKept'
  BY <1>1, <1>2, NearestStay DEF SearchFresh, AfterMerge
<1>12. PlanFits'
  BY <1>2 DEF SearchKept, PlanFits, InScope, Asked, Passes, WithFields
<1>13. RowsSeen'
  <2>1. Now(held, selected)' = Now(held, selected)
    BY <1>2 DEF Now
  <2>2. \A r : Passes(r)' <=> Passes(r)
    BY <1>2 DEF Passes, WithFields
  <2>3. RowsSeen
    BY DEF SearchKept
  <2>4. QED
    BY <1>1, <1>2, <2>1, <2>2, <2>3 DEF RowsSeen
<1>14. ResultsRight'
  BY <1>1 DEF SearchKept, ResultsRight
<1>15. HitsRight'
  <2>1. \A i \in DOMAIN hits' : \/ \E k \in DOMAIN nearest : hits'[i] = nearest[k][2]
                                \/ \E k \in DOMAIN worded : hits'[i] = worded[k][2]
    <3>1. \A i \in DOMAIN hits' : (\E k \in DOMAIN v : hits'[i] = v[k]) \/ (\E k \in DOMAIN w : hits'[i] = w[k])
      BY <1>7, <1>9
    <3>2. QED
      BY <1>5, <3>1
  <2>2. \A i, j \in DOMAIN hits' : hits'[i].id = hits'[j].id => i = j
    BY <1>7, <1>9
  <2>3. \A k \in DOMAIN nearest : Len(hits') = TopN \/ \E i \in DOMAIN hits' : hits'[i].id = nearest[k][2].id
    <3>1. CASE n = TopN
      BY <1>9, <3>1
    <3>2. CASE n = Len(fused)
      <4>1. DOMAIN hits' = DOMAIN fused /\ \A i \in DOMAIN fused : hits'[i] = fused[i]
        BY <1>9, <3>2
      <4>2. \A k \in DOMAIN nearest : \E i \in DOMAIN fused : fused[i].id = nearest[k][2].id
        BY <1>5, <1>7
      <4>3. QED
        BY <4>1, <4>2
    <3>3. QED
      BY <1>8, <3>1, <3>2
  <2>4. InOrder(v, w, hits')
    BY <1>7, <1>9 DEF InOrder
  <2>5. InOrder(RowsOf(nearest), RowsOf(worded), hits)'
    <3>1. RowsOf(nearest)' = v /\ RowsOf(worded)' = w
      BY <1>1 DEF RowsOf, v, w
    <3>2. \A r : Boost(r)' = Boost(r)
      BY <1>2 DEF Boost
    <3>3. QED
      BY <2>4, <3>1, <3>2 DEF InOrder
  <2>6. QED
    BY <1>1, <2>1, <2>2, <2>3, <2>5 DEF HitsRight
<1>16. QED
  BY <1>10, <1>11, <1>12, <1>13, <1>14, <1>15 DEF SearchKept

\* The results are some of the hits, each once.
LEMMA RerankKept ==
  ASSUME SearchKept, Rerank
  PROVE  SearchKept'
<1> DEFINE n == IF Len(hits) < TopK THEN Len(hits) ELSE TopK
<1>1. /\ UNCHANGED <<Reading, History>> /\ searchStep = "reranking" /\ searchStep' = "completed"
      /\ nearest' = nearest /\ found' = found /\ unread' = unread /\ worded' = worded /\ hits' = hits
  BY DEF Rerank, SearchGoes
<1>2. plan' = plan /\ stayed' = stayed /\ held' = held /\ seen' = seen /\ selected' = selected
  BY <1>1 DEF Reading, History
<1>3. PICK order \in Arrangements(DOMAIN hits, n) : results' = [i \in DOMAIN order |-> hits[order[i]]]
  BY DEF Rerank
<1>4. hits \in Seq(Rows) /\ TopK \in Nat
  BY RetrievalAssumption DEF SearchKept, SearchTyped
<1>5. n \in Nat /\ n <= TopK
  BY <1>4
<1> HIDE DEF n
<1>6. /\ DOMAIN order = 1..n /\ \A i \in DOMAIN order : order[i] \in DOMAIN hits
      /\ \A i, j \in DOMAIN order : order[i] = order[j] => i = j
  BY <1>5, Arranged
<1>7. results' \in Seq(Rows) /\ Len(results') <= TopK
  <2>1. \A i \in DOMAIN hits : hits[i] \in Rows
    BY <1>4
  <2>2. results' \in [1..n -> Rows]
    BY <1>3, <1>6, <2>1
  <2>3. QED
    BY <1>5, <2>2
<1>8. SearchTyped'
  BY <1>1, <1>2, <1>7 DEF SearchKept, SearchTyped, SearchSteps
<1>9. SearchFresh' /\ NearestKept'
  BY <1>1, <1>2, NearestStay DEF SearchFresh, AfterMerge
<1>10. PlanFits'
  BY <1>2 DEF SearchKept, PlanFits, InScope, Asked, Passes, WithFields
<1>11. RowsSeen'
  <2>1. Now(held, selected)' = Now(held, selected)
    BY <1>2 DEF Now
  <2>2. \A r : Passes(r)' <=> Passes(r)
    BY <1>2 DEF Passes, WithFields
  <2>3. RowsSeen
    BY DEF SearchKept
  <2>4. QED
    BY <1>1, <1>2, <2>1, <2>2, <2>3 DEF RowsSeen
<1>12. HitsRight'
  <2>1. RowsOf(nearest)' = RowsOf(nearest) /\ RowsOf(worded)' = RowsOf(worded)
    BY <1>1 DEF RowsOf
  <2>2. \A r : Boost(r)' = Boost(r)
    BY <1>2 DEF Boost
  <2>3. InOrder(RowsOf(nearest), RowsOf(worded), hits)' <=> InOrder(RowsOf(nearest), RowsOf(worded), hits)
    BY <1>1, <2>1, <2>2 DEF InOrder
  <2>4. HitsRight
    BY DEF SearchKept
  <2>5. QED
    BY <1>1, <2>3, <2>4 DEF HitsRight
<1>13. ResultsRight'
  <2>1. \A i, j \in DOMAIN hits : hits[i].id = hits[j].id => i = j
    BY <1>1 DEF SearchKept, HitsRight
  <2>2. \A i, j \in DOMAIN results' : results'[i].id = results'[j].id => i = j
    BY <1>3, <1>6, <2>1
  <2>3. QED
    BY <1>1, <2>2 DEF ResultsRight
<1>14. QED
  BY <1>8, <1>9, <1>10, <1>11, <1>12, <1>13 DEF SearchKept

\* What is written while a search goes on is seen by it, and what goes did not stay.
LEMMA WrittenKept ==
  ASSUME SearchKept, NEW c \in Collections, WriteCollection(c)
  PROVE  SearchKept'
<1>1. /\ searchStep \notin {"idle", "completed", "failed"} /\ searchStep' = searchStep
      /\ plan' = plan /\ selected' = selected
      /\ nearest' = nearest /\ found' = found /\ unread' = unread /\ worded' = worded /\ hits' = hits /\ results' = results
  BY DEF WriteCollection, Reading
<1>2. PICK what \in Contents[c] : held' = [held EXCEPT ![c] = what]
  BY DEF WriteCollection
<1>3. seen' = seen \cup Now(held', selected) /\ stayed' = stayed \cap Now(held', selected)
  BY DEF WriteCollection, Now
<1>4. held' \in [Collections -> AnyContent] /\ \A d \in Collections : held'[d] \in Contents[d]
  <2>1. what \in AnyContent
    BY DEF AnyContent
  <2>2. held \in [Collections -> AnyContent] /\ \A d \in Collections : held[d] \in Contents[d]
    BY DEF SearchKept, SearchTyped
  <2>3. QED
    BY <1>2, <2>1, <2>2
<1>5. SearchTyped'
  BY <1>1, <1>4 DEF SearchKept, SearchTyped
<1>6. SearchFresh' /\ ResultsRight'
  BY <1>1 DEF SearchKept, SearchFresh, ResultsRight
<1>7. PlanFits'
  BY <1>1 DEF SearchKept, PlanFits, InScope, Asked, Passes, WithFields
<1>8. \A r : Passes(r)' <=> Passes(r)
  BY <1>1 DEF Passes, WithFields
<1>9. RowsSeen'
  <2>1. Now(held, selected)' = Now(held', selected)
    BY <1>1 DEF Now
  <2>2. Now(held', selected) \subseteq selected \X Rows
    <3>1. selected \subseteq Collections
      BY DEF SearchKept, SearchTyped
    <3>2. \A d \in selected : held'[d] \in Contents[d]
      BY <1>4, <3>1
    <3>3. QED
      BY <3>1, <3>2, NowRows
  <2>3. RowsSeen
    BY DEF SearchKept
  <2>4. Now(held, selected)' \subseteq seen' /\ stayed' \subseteq Now(held, selected)' /\ seen' \subseteq selected' \X Rows
    BY <1>1, <1>3, <2>1, <2>2, <2>3 DEF RowsSeen
  <2>5. QED
    BY <1>1, <1>3, <1>8, <2>3, <2>4 DEF RowsSeen
<1>10. NearestKept'
  <2>1. stayed' \subseteq stayed
    BY <1>3
  <2>2. CASE searchStep = "vectors"
    <3>1. \A s \in stayed : Passes(s[2]) => s[1] \in unread \/ s \in found \/ FullOf(found)
      BY <2>2 DEF SearchKept, NearestKept
    <3>2. \A s \in stayed' : Passes(s[2])' => s[1] \in unread' \/ s \in found' \/ FullOf(found)'
      BY <1>1, <1>8, <2>1, <3>1 DEF FullOf
    <3>3. QED
      BY <1>1, <2>2, <3>2 DEF NearestKept, AfterMerge
  <2>3. CASE searchStep # "vectors"
    BY <1>1, <2>1, <2>3, NearestStay
  <2>4. QED
    BY <2>2, <2>3
<1>11. HitsRight'
  <2>1. RowsOf(nearest)' = RowsOf(nearest) /\ RowsOf(worded)' = RowsOf(worded)
    BY <1>1 DEF RowsOf
  <2>2. \A r : Boost(r)' = Boost(r)
    BY <1>1 DEF Boost
  <2>3. InOrder(RowsOf(nearest), RowsOf(worded), hits)' <=> InOrder(RowsOf(nearest), RowsOf(worded), hits)
    BY <1>1, <2>1, <2>2 DEF InOrder
  <2>4. HitsRight
    BY DEF SearchKept
  <2>5. QED
    BY <1>1, <2>3, <2>4 DEF HitsRight
<1>12. QED
  BY <1>5, <1>6, <1>7, <1>9, <1>10, <1>11 DEF SearchKept

\* Every step of a search keeps the invariant.
LEMMA SearchStep ==
  ASSUME SearchKept, [SearchNext]_searchVars
  PROVE  SearchKept'
<1>1. CASE UNCHANGED searchVars
  <2>1. /\ held' = held /\ selected' = selected /\ plan' = plan /\ searchStep' = searchStep /\ unread' = unread
        /\ found' = found /\ nearest' = nearest /\ worded' = worded /\ hits' = hits /\ results' = results
        /\ seen' = seen /\ stayed' = stayed
    BY <1>1 DEF searchVars
  <2>2. SearchTyped' /\ SearchFresh' /\ ResultsRight'
    BY <2>1 DEF SearchKept, SearchTyped, SearchFresh, ResultsRight
  <2>3. PlanFits'
    BY <2>1 DEF SearchKept, PlanFits, InScope, Asked, Passes, WithFields
  <2>4. \A r : (Passes(r)' <=> Passes(r)) /\ Boost(r)' = Boost(r)
    BY <2>1 DEF Passes, WithFields, Boost
  <2>5. RowsSeen'
    <3>1. Now(held, selected)' = Now(held, selected)
      BY <2>1 DEF Now
    <3>2. QED
      BY <2>1, <2>4, <3>1 DEF SearchKept, RowsSeen
  <2>6. NearestKept'
    <3>1. (InScope' <=> InScope) /\ (FullOf(found)' <=> FullOf(found))
      BY <2>1 DEF InScope, FullOf
    <3>2. QED
      BY <2>1, <2>4, <3>1 DEF SearchKept, NearestKept
  <2>7. HitsRight'
    <3>1. RowsOf(nearest)' = RowsOf(nearest) /\ RowsOf(worded)' = RowsOf(worded)
      BY <2>1 DEF RowsOf
    <3>2. InOrder(RowsOf(nearest), RowsOf(worded), hits)' <=> InOrder(RowsOf(nearest), RowsOf(worded), hits)
      BY <2>1, <2>4, <3>1 DEF InOrder
    <3>3. QED
      BY <2>1, <3>2 DEF SearchKept, HitsRight
  <2>8. QED
    BY <2>2, <2>3, <2>5, <2>6, <2>7 DEF SearchKept
<1>2. ASSUME NEW c \in SUBSET Collections, Understand(c) \/ SearchDirectly(c) PROVE SearchKept'
  BY <1>2, UnderstandKept, DirectKept
<1>3. CASE FindCollections("planned", "vectors") \/ FindCollections("searched", "words")
  BY <1>3, FindKept
<1>4. ASSUME NEW c \in Collections, SearchVectors(c) \/ ReadCandidates(c) \/ ReadDetails(c) \/ WriteCollection(c) PROVE SearchKept'
  BY <1>4, VectorsKept, CandidatesKept, DetailsKept, WrittenKept
<1>5. CASE MergeHits \/ ScoreCandidates \/ TakeDetails
  BY <1>5, MergeKept, ScoredKept, TakenKept
<1>6. CASE Fuse \/ Rerank \/ SearchFails
  BY <1>6, FusedKept, RerankKept, FailedKept
<1>7. QED
  BY <1>1, <1>2, <1>3, <1>4, <1>5, <1>6 DEF SearchNext

\* Searching keeps its state well-formed: only collections that were selected are read, hits
\* and results are no more than there are places for, and a row that stayed was seen.
\* (search_evidence, MultiCollectionStore)
THEOREM SearchTypeCorrect == SearchSpec => []SearchTypeOK
<1>1. SearchKept => SearchTypeOK
  <2> SUFFICES ASSUME SearchKept PROVE SearchTypeOK
    OBVIOUS
  <2>1. found \subseteq Collections \X Rows
    BY RowsRead
  <2>2. SearchTyped /\ stayed \subseteq seen
    BY DEF SearchKept, RowsSeen
  <2>3. QED
    BY <2>1, <2>2 DEF SearchTyped, SearchTypeOK
<1>2. SearchKept /\ [SearchNext]_searchVars => SearchKept'
  BY SearchStep
<1>3. QED
  BY <1>1, <1>2, SearchStarts, PTL DEF SearchSpec

\* However a collection is replaced, dropped or renamed away while it is searched, the
\* evidence was held at some time of the search, is of a type and has the fields asked for, no chunk
\* comes twice, a row that stayed is found unless the places are taken, and none comes ahead
\* of one that both searches ranked higher. (search_evidence, _rrf_fuse, _apply_domain_boost)
THEOREM EvidenceWasThereCorrect == SearchSpec => []EvidenceWasThere
<1>1. SearchKept => EvidenceWasThere
  <2> SUFFICES ASSUME SearchKept, searchStep \in {"reranking", "completed"}, InScope PROVE EvidenceWasThere
    BY DEF EvidenceWasThere, InScope
  <2>1. HitsRight /\ ResultsRight /\ NearestKept /\ RowsSeen /\ PlanFits
    BY DEF SearchKept
  <2>2. ASSUME NEW i \in DOMAIN hits PROVE (\E s \in seen : s[2] = hits[i]) /\ Passes(hits[i])
    <3>1. \/ \E k \in DOMAIN nearest : hits[i] = nearest[k][2]
          \/ \E k \in DOMAIN worded : hits[i] = worded[k][2]
      BY <2>1 DEF HitsRight
    <3>2. QED
      BY <3>1, RowsRead
  <2>3. /\ \A i \in DOMAIN hits : plan.intent # "general_sales_qa" /\ plan.types # {} => TypeOf[hits[i].id] \in plan.types
        /\ \A i \in DOMAIN hits : WithFields(hits[i])
    BY <2>2 DEF Passes, WithFields
  <2>4. /\ \A i, j \in DOMAIN hits : hits[i].id = hits[j].id => i = j
        /\ \A i, j \in DOMAIN results : results[i].id = results[j].id => i = j
    BY <2>1 DEF HitsRight, ResultsRight
  <2>5. ASSUME NEW s \in stayed, Asked(s[2])
        PROVE  TopN \in {Len(nearest), Len(hits)} \/ \E i \in DOMAIN hits : hits[i].id = s[2].id
    <3>1. s[2] \in Rows
      BY <2>1 DEF RowsSeen
    <3>2. Passes(s[2])
      BY <2>1, <2>5, <3>1 DEF PlanFits
    <3>3. Len(nearest) = TopN \/ \E i \in DOMAIN nearest : nearest[i] = s
      BY <2>1, <3>2 DEF NearestKept, AfterMerge
    <3>4. \A k \in DOMAIN nearest : Len(hits) = TopN \/ \E i \in DOMAIN hits : hits[i].id = nearest[k][2].id
      BY <2>1 DEF HitsRight
    <3>5. QED
      BY <3>3, <3>4
  <2>6. InOrder(RowsOf(nearest), RowsOf(worded), hits)
    BY <2>1 DEF HitsRight
  <2>7. QED
    BY <2>2, <2>3, <2>4, <2>5, <2>6 DEF EvidenceWasThere, InOrder
<1>2. SearchKept /\ [SearchNext]_searchVars => SearchKept'
  BY SearchStep
<1>3. QED
  BY <1>1, <1>2, SearchStarts, PTL DEF SearchSpec

(***************************************************************************)
(* AnswerRequest: the stream                                               *)
(***************************************************************************)
Texts == {"notice"} \cup (Nat \X Nat)
Deltas == [type : {"thinking_delta", "answer_delta"}, text : Texts \cup {"unconfirmed"}]
Events == Deltas \cup [type : {"_result", "_exception", "done", "final", "error"}]

AnswerTyped ==
  /\ AnswerTypeOK
  /\ evidence \in SearchResults /\ heard \in BOOLEAN
  /\ content \in Seq(Texts) /\ thinking \in Seq(Texts) /\ queue \in Seq(Events) /\ sent \in Seq(Events)
  /\ reply.answer \in Seq(Texts \cup {"unconfirmed"}) /\ reply.reasoning \in Seq(Texts)
  /\ DOMAIN reply = {"answer", "reasoning", "chosen", "citations"}

\* The queue holds what was thought, in order, and once the thread has ended what came of it.
Thought == Len(thinking)
QueueTold ==
  /\ Len(queue) = IF answerStep = "ended" THEN Thought + 2 ELSE Thought
  /\ \A i \in 1..Thought : queue[i] = [type |-> "thinking_delta", text |-> thinking[i]]
  /\ answerStep = "ended" =>
       /\ queue[Thought + 1] \in {[type |-> "_exception"], [type |-> "_result"]}
       /\ queue[Thought + 2] = [type |-> "done"]
       /\ queue[Thought + 1].type = "_result" => reply.reasoning = thinking

\* What was thought last is of this connection, or a notice ends it.
ThoughtsApart ==
  /\ \A i, j \in 1..Thought : j = i + 1 => "notice" \in {thinking[i], thinking[j]} \/ thinking[i] = thinking[j]
  /\ answerStep # "ended" /\ Thought # 0 =>
       thinking[Thought] = "notice" \/ (answerStep = "streaming" /\ heard /\ thinking[Thought] = Here)
  /\ answerStep = "searched" => Thought = 0

\* The text that is kept is of one connection.
OneText ==
  /\ answerStep = "streaming" => \A i \in DOMAIN content : content[i] = Here
  /\ \A i, j \in DOMAIN reply.answer : reply.answer[i] = reply.answer[j]
  /\ answerStep # "ended" => reply.answer = <<>> /\ reply.reasoning = <<>>

\* The reader has been sent what it has taken.
SentTold ==
  /\ \A i \in 1..read : i <= Thought => sent[i] = queue[i]
  /\ read <= Thought => Len(sent) = read
  /\ read > Thought /\ queue[Thought + 1].type = "_exception" =>
       Len(sent) = Thought + 1 /\ sent[Thought + 1] = [type |-> "error"]
  /\ read > Thought /\ queue[Thought + 1].type = "_result" =>
       /\ Len(sent) = Thought + Len(reply.answer) + 1
       /\ \A i \in 1..Len(reply.answer) : sent[Thought + i] = [type |-> "answer_delta", text |-> reply.answer[i]]
       /\ sent[Len(sent)] = [type |-> "final"]

StreamInv == AnswerTyped /\ QueueTold /\ ThoughtsApart /\ OneText /\ SentTold

\* It holds before the first event.
LEMMA StreamStarts == AnswerInit => StreamInv
<1> SUFFICES ASSUME AnswerInit PROVE StreamInv
  OBVIOUS
<1> USE DEF AnswerInit
<1>1. AnswerTypeOK
  BY AnswerAssumption DEF AnswerTypeOK, OutputAttempts
<1>2. reply.answer = <<>> /\ reply.reasoning = <<>> /\ DOMAIN reply = {"answer", "reasoning", "chosen", "citations"}
  OBVIOUS
<1>3. AnswerTyped
  <2>1. content = <<>> /\ thinking = <<>> /\ queue = <<>> /\ sent = <<>> /\ heard = FALSE /\ evidence \in SearchResults
    OBVIOUS
  <2> HIDE DEF AnswerInit
  <2>2. \A S : <<>> \in Seq(S)
    BY EmptySeq
  <2>3. QED
    BY <1>1, <1>2, <2>1, <2>2, Zenon DEF AnswerTyped
<1>4. QED
  BY <1>2, <1>3 DEF StreamInv, QueueTold, ThoughtsApart, OneText, SentTold, Thought

\* The thread goes on without a word, as far as the stream is concerned.
LEMMA ThreadQuiet ==
  ASSUME StreamInv, UNCHANGED <<evidence, queue, thinking, reply, Reader>>, AnswerTyped',
         answerStep # "ended", answerStep' # "ended",
         Thought # 0 => \/ thinking[Thought] = "notice"
                        \/ answerStep' = "streaming" /\ heard' /\ thinking[Thought] = Here',
         answerStep' = "searched" => answerStep = "searched",
         answerStep' = "streaming" => \A i \in DOMAIN content' : content'[i] = Here'
  PROVE  StreamInv'
<1> USE DEF StreamInv, Thought
<1>1. QueueTold'
  BY DEF QueueTold
<1>2. ThoughtsApart'
  BY DEF ThoughtsApart
<1>3. OneText'
  BY DEF OneText
<1>4. SentTold'
  BY DEF SentTold, Reader
<1>5. QED
  BY <1>1, <1>2, <1>3, <1>4

\* A thought is told: a notice, or a piece of this connection.
LEMMA ThoughtTold ==
  ASSUME StreamInv, NEW text \in Texts, thinking' = Append(thinking, text),
         Told([type |-> "thinking_delta", text |-> text]),
         UNCHANGED <<evidence, reply, Reader>>, AnswerTyped',
         answerStep # "ended", answerStep' \notin {"ended", "searched"},
         text = "notice" \/ (/\ text = Here /\ answerStep = "streaming" /\ answerStep' = "streaming" /\ heard'
                             /\ UNCHANGED <<output, try>>),
         answerStep' = "streaming" => \A i \in DOMAIN content' : content'[i] = Here'
  PROVE  StreamInv'
<1> USE DEF StreamInv, Thought
<1>1. /\ Len(thinking') = Thought + 1 /\ thinking'[Thought + 1] = text
      /\ \A i \in 1..Thought : thinking'[i] = thinking[i]
      /\ Thought \in Nat /\ Len(queue) = Thought
  BY DEF AnswerTyped, QueueTold
<1>2. /\ Len(queue') = Thought + 1 /\ queue'[Thought + 1] = [type |-> "thinking_delta", text |-> text]
      /\ \A i \in 1..Thought : queue'[i] = queue[i]
  BY <1>1 DEF Told, AnswerTyped
<1>3. read \in 0..Thought
  BY <1>1 DEF AnswerTyped, AnswerTypeOK
<1>4. QueueTold'
  <2>1. \A i \in 1..(Thought + 1) : queue'[i] = [type |-> "thinking_delta", text |-> thinking'[i]]
    <3>1. \A i \in 1..Thought : queue'[i] = [type |-> "thinking_delta", text |-> thinking'[i]]
      BY <1>1, <1>2 DEF QueueTold
    <3>2. queue'[Thought + 1] = [type |-> "thinking_delta", text |-> thinking'[Thought + 1]]
      BY <1>1, <1>2
    <3> HIDE DEF StreamInv, Thought
    <3>3. QED
      BY <1>1, <3>1, <3>2
  <2>2. QED
    BY <1>1, <1>2, <2>1 DEF QueueTold
<1>5. ThoughtsApart'
  <2>1. ASSUME NEW i \in 1..Thought, NEW j \in 1..Thought, j = i + 1
        PROVE  "notice" \in {thinking'[i], thinking'[j]} \/ thinking'[i] = thinking'[j]
    BY <1>1, <2>1 DEF ThoughtsApart
  <2>2. Thought # 0 => "notice" \in {thinking'[Thought], text} \/ thinking'[Thought] = text
    BY <1>1 DEF ThoughtsApart
  <2>3. text = "notice" \/ (answerStep' = "streaming" /\ heard' /\ text = Here')
    BY DEF Here
  <2>4. QED
    BY <1>1, <2>1, <2>2, <2>3 DEF ThoughtsApart
<1>6. OneText'
  BY DEF OneText
<1>7. SentTold'
  <2>1. \A i \in 1..read : sent[i] = queue'[i] /\ i <= Thought
    BY <1>1, <1>2, <1>3 DEF SentTold
  <2>2. Len(sent) = read /\ read <= Thought
    BY <1>1, <1>3 DEF SentTold
  <2>3. UNCHANGED <<sent, read>> /\ Len(thinking') = Thought + 1
    BY <1>1 DEF Reader
  <2>4. read' <= Thought' /\ ~(read' > Thought') /\ Len(sent') = read'
    BY <1>1, <1>3, <2>2, <2>3
  <2>5. \A i \in 1..read' : sent'[i] = queue'[i]
    BY <2>1, <2>3
  <2> HIDE DEF StreamInv, Thought
  <2>6. QED
    BY <2>4, <2>5 DEF SentTold
<1>8. QED
  BY <1>4, <1>5, <1>6, <1>7

\* The thread ends, with a result or without.
LEMMA ThreadEnds ==
  ASSUME StreamInv, NEW t \in {"_result", "_exception"}, TellLast([type |-> t]),
         UNCHANGED <<evidence, thinking, Reader>>, AnswerTyped',
         answerStep # "ended", answerStep' = "ended",
         t = "_result" => reply'.reasoning = thinking,
         \A i, j \in DOMAIN reply'.answer : reply'.answer[i] = reply'.answer[j]
  PROVE  StreamInv'
<1> USE DEF StreamInv, Thought
<1>1. Thought \in Nat /\ Len(queue) = Thought
  BY DEF AnswerTyped, QueueTold
<1>2. /\ Len(queue') = Thought + 2 /\ queue'[Thought + 1] = [type |-> t] /\ queue'[Thought + 2] = [type |-> "done"]
      /\ \A i \in 1..Thought : queue'[i] = queue[i]
  <2> DEFINE last == <<[type |-> t], [type |-> "done"]>>
  <2>1. last \in Seq(Events) /\ Len(last) = 2 /\ last[1] = [type |-> t] /\ last[2] = [type |-> "done"]
    BY DEF Events
  <2>2. queue' = queue \o last /\ queue \in Seq(Events)
    BY DEF TellLast, AnswerTyped
  <2> HIDE DEF last, StreamInv, Thought
  <2>3. /\ Len(queue') = Len(queue) + Len(last)
        /\ \A i \in 1..(Len(queue) + Len(last)) :
             queue'[i] = IF i <= Len(queue) THEN queue[i] ELSE last[i - Len(queue)]
    BY <2>1, <2>2, ConcatProperties
  <2>4. QED
    BY <1>1, <2>1, <2>3
<1>3. read \in 0..Thought
  BY <1>1 DEF AnswerTyped, AnswerTypeOK
<1>4. QueueTold'
  BY <1>1, <1>2 DEF QueueTold
<1>5. ThoughtsApart'
  BY DEF ThoughtsApart
<1>6. OneText'
  BY DEF OneText
<1>7. SentTold'
  BY <1>1, <1>2, <1>3 DEF SentTold, Reader
<1>8. QED
  BY <1>4, <1>5, <1>6, <1>7

\* A connection is told of by the output it is for and its try.
LEMMA HereIsText == ASSUME AnswerTyped PROVE Here \in Texts
<1>1. output \in Nat /\ try \in Nat
  BY AnswerAssumption DEF AnswerTyped, AnswerTypeOK, OutputAttempts
<1>2. QED
  BY <1>1 DEF Here, Texts

\* What is shown of an event, by what the event is.
LEMMA RenderedTyped ==
  ASSUME AnswerTyped, NEW event \in Events
  PROVE  /\ Rendered(event) \in Seq(Events)
         /\ event.type = "thinking_delta" => Rendered(event) = <<event>>
         /\ event.type = "_exception" => Rendered(event) = <<[type |-> "error"]>>
         /\ event.type = "done" => Rendered(event) = <<>>
         /\ event.type = "_result" =>
              /\ Len(Rendered(event)) = Len(reply.answer) + 1
              /\ Rendered(event)[Len(reply.answer) + 1] = [type |-> "final"]
              /\ \A i \in 1..Len(reply.answer) :
                   Rendered(event)[i] = [type |-> "answer_delta", text |-> reply.answer[i]]
<1>1. CASE event.type = "_result"
  <2> DEFINE deltas == [i \in DOMAIN reply.answer |-> [type |-> "answer_delta", text |-> reply.answer[i]]]
             last == <<[type |-> "final"]>>
  <2>1. Rendered(event) = deltas \o last
    BY <1>1 DEF Rendered
  <2>2. reply.answer \in Seq(Texts \cup {"unconfirmed"})
    BY DEF AnswerTyped
  <2>3. /\ deltas \in Seq(Events) /\ Len(deltas) = Len(reply.answer) /\ Len(reply.answer) \in Nat
        /\ \A i \in 1..Len(reply.answer) : deltas[i] = [type |-> "answer_delta", text |-> reply.answer[i]]
    BY <2>2 DEF Events, Deltas
  <2>4. last \in Seq(Events) /\ Len(last) = 1 /\ last[1] = [type |-> "final"]
    BY DEF Events
  <2> HIDE DEF deltas, last
  <2>5. deltas \in Seq(Events) /\ last \in Seq(Events)
    BY <2>3, <2>4
  <2>6. /\ deltas \o last \in Seq(Events) /\ Len(deltas \o last) = Len(deltas) + Len(last)
        /\ \A i \in 1..(Len(deltas) + Len(last)) :
             (deltas \o last)[i] = IF i <= Len(deltas) THEN deltas[i] ELSE last[i - Len(deltas)]
    BY <2>5, ConcatProperties
  <2>7. QED
    BY <1>1, <2>1, <2>3, <2>4, <2>6
<1>2. CASE event.type = "_exception"
  BY <1>2 DEF Rendered, Events
<1>3. CASE event.type = "done"
  BY <1>3, EmptySeq DEF Rendered
<1>4. CASE event.type \notin {"_result", "_exception", "done"}
  <2>1. Rendered(event) = <<event>>
    BY <1>4 DEF Rendered
  <2>2. QED
    BY <1>4, <2>1
<1>5. QED
  BY <1>1, <1>2, <1>3, <1>4

\* The reader takes the next event.
LEMMA EventTaken ==
  ASSUME StreamInv, TakeEvent
  PROVE  StreamInv'
<1> DEFINE n == Len(thinking)
           m == read + 1
           shown == Rendered(queue[m])
<1>1. /\ read < Len(queue) /\ read' = m /\ sent' = sent \o shown /\ reading' \in BOOLEAN
      /\ UNCHANGED <<evidence, prompt, answerStep, output, try, heard, content, finish, thinking, pieces, queue, reply>>
  BY DEF TakeEvent, Prepared
<1>2. AnswerTyped /\ AnswerTypeOK /\ QueueTold /\ SentTold
  BY DEF StreamInv, AnswerTyped
<1>3. queue \in Seq(Events) /\ sent \in Seq(Events) /\ n \in Nat /\ read \in Nat /\ reply.answer \in Seq(Texts \cup {"unconfirmed"})
  BY <1>2 DEF AnswerTyped, AnswerTypeOK
<1>4. m \in 1..Len(queue) /\ queue[m] \in Events /\ Len(queue) \in {n, n + 2} /\ (Len(queue) = n + 2 <=> answerStep = "ended")
  BY <1>1, <1>2, <1>3 DEF QueueTold, Thought
<1>5. shown \in Seq(Events)
  BY <1>2, <1>4, RenderedTyped
<1>6. /\ sent' \in Seq(Events) /\ Len(sent') = Len(sent) + Len(shown)
      /\ \A i \in 1..(Len(sent) + Len(shown)) :
           sent'[i] = IF i <= Len(sent) THEN sent[i] ELSE shown[i - Len(sent)]
  BY <1>1, <1>3, <1>5, ConcatProperties
<1>7. AnswerTyped'
  BY <1>1, <1>2, <1>3, <1>4, <1>6 DEF AnswerTyped, AnswerTypeOK
<1>8. QueueTold' /\ ThoughtsApart' /\ OneText'
  BY <1>1 DEF StreamInv, QueueTold, ThoughtsApart, OneText, Thought, Here
<1>9. Len(reply.answer) \in Nat /\ Len(sent) \in Nat /\ Len(shown) \in Nat
  BY <1>3, <1>5
<1>10. ASSUME m <= n PROVE SentTold'
  <2>1. queue[m] = [type |-> "thinking_delta", text |-> thinking[m]]
    BY <1>2, <1>3, <1>4, <1>10 DEF QueueTold, Thought
  <2>2. shown = <<queue[m]>>
    BY <1>2, <1>4, <2>1, RenderedTyped
  <2>3. Len(sent) = read /\ \A i \in 1..read : sent[i] = queue[i]
    BY <1>2, <1>3, <1>10 DEF SentTold, Thought
  <2> HIDE DEF shown
  <2>4. Len(sent') = m /\ \A i \in 1..m : sent'[i] = queue[i]
    BY <1>3, <1>6, <2>2, <2>3
  <2>5. ~(read' > Thought') /\ queue' = queue /\ read' = m
    BY <1>1, <1>3, <1>10 DEF Thought
  <2> HIDE DEF m, n
  <2>6. QED
    BY <2>4, <2>5 DEF SentTold
<1>11. ASSUME m = n + 1 PROVE SentTold'
  <2>1. Len(sent) = n /\ \A i \in 1..n : sent[i] = queue[i]
    BY <1>2, <1>3, <1>11 DEF SentTold, Thought
  <2>2. queue[m] \in {[type |-> "_exception"], [type |-> "_result"]}
    BY <1>2, <1>3, <1>4, <1>11 DEF QueueTold, Thought
  <2>3. ASSUME queue[m].type = "_exception"
        PROVE  Len(sent') = n + 1 /\ sent'[n + 1] = [type |-> "error"]
    <3>1. shown = <<[type |-> "error"]>>
      BY <1>2, <1>4, <2>3, RenderedTyped
    <3> HIDE DEF shown
    <3>2. QED
      BY <1>3, <1>6, <2>1, <3>1
  <2>4. ASSUME queue[m].type = "_result"
        PROVE  /\ Len(sent') = n + Len(reply.answer) + 1 /\ sent'[Len(sent')] = [type |-> "final"]
               /\ \A i \in 1..Len(reply.answer) :
                    sent'[n + i] = [type |-> "answer_delta", text |-> reply.answer[i]]
    <3>1. /\ Len(shown) = Len(reply.answer) + 1 /\ shown[Len(reply.answer) + 1] = [type |-> "final"]
          /\ \A i \in 1..Len(reply.answer) : shown[i] = [type |-> "answer_delta", text |-> reply.answer[i]]
      BY <1>2, <1>4, <2>4, RenderedTyped
    <3> HIDE DEF shown, n
    <3>2. Len(sent') = n + Len(reply.answer) + 1
      BY <1>3, <1>6, <1>9, <2>1, <3>1
    <3>3. \A i \in 1..(Len(reply.answer) + 1) : sent'[n + i] = shown[i]
      BY <1>3, <1>6, <1>9, <2>1, <3>1
    <3>4. sent'[n + (Len(reply.answer) + 1)] = [type |-> "final"]
      BY <1>9, <3>1, <3>3
    <3>5. Len(sent') = n + (Len(reply.answer) + 1)
      BY <1>3, <1>9, <3>2
    <3>6. \A i \in 1..Len(reply.answer) : sent'[n + i] = [type |-> "answer_delta", text |-> reply.answer[i]]
      BY <1>9, <3>1, <3>3
    <3>7. QED
      BY <3>2, <3>4, <3>5, <3>6
  <2>5. \A i \in 1..n : sent'[i] = queue[i]
    BY <1>3, <1>6, <1>9, <2>1
  <2>6. read' = n + 1 /\ Thought' = n /\ queue' = queue /\ reply' = reply
    BY <1>1, <1>11 DEF Thought
  <2>7. m = n + 1
    BY <1>11
  <2> HIDE DEF m, n, shown
  <2>8. QED
    BY <1>3, <2>3, <2>4, <2>5, <2>6, <2>7 DEF SentTold
<1>12. ASSUME m = n + 2 PROVE SentTold'
  <2>1. queue[m].type = "done"
    BY <1>2, <1>3, <1>4, <1>12 DEF QueueTold, Thought
  <2>2. shown = <<>>
    BY <1>2, <1>4, <2>1, RenderedTyped
  <2> HIDE DEF shown
  <2>3. sent' = sent
    BY <1>1, <1>3, <2>2, ConcatEmptySeq
  <2>4. read > Thought /\ read' > Thought /\ ~(read' <= Thought) /\ read' = read + 1
    BY <1>1, <1>3, <1>12 DEF Thought
  <2>5. \A i \in 1..read' : i <= Thought => i \in 1..read
    BY <1>1, <1>3, <1>12 DEF Thought
  <2> HIDE DEF m, n
  <2>6. QED
    BY <1>1, <1>2, <2>3, <2>4, <2>5 DEF SentTold, Thought
<1>13. SentTold'
  <2>1. m <= n \/ m = n + 1 \/ m = n + 2
    BY <1>3, <1>4
  <2>2. QED
    BY <1>10, <1>11, <1>12, <2>1
<1>14. QED
  BY <1>7, <1>8, <1>13 DEF StreamInv

\* The types, for a step of the thread.
LEMMA ThreadTyped ==
  ASSUME AnswerTyped, UNCHANGED <<evidence, Reader>>,
         output' \in 1..OutputAttempts, try' \in 1..TransportTries, pieces' \in 0..MaxPieces,
         answerStep' \in {"searched", "connecting", "streaming", "ended"}, heard' \in BOOLEAN,
         content' \in Seq(Texts), thinking' \in Seq(Texts),
         \/ reply' = reply
         \/ /\ reply'.answer \in Seq(Texts \cup {"unconfirmed"}) /\ reply'.reasoning \in Seq(Texts)
            /\ DOMAIN reply' = {"answer", "reasoning", "chosen", "citations"},
         \/ queue' = queue
         \/ \E e \in Events : queue' = Append(queue, e)
         \/ \E t \in {"_result", "_exception"} : TellLast([type |-> t])
  PROVE  AnswerTyped'
<1>1. queue \in Seq(Events) /\ Len(queue) \in Nat /\ read \in 0..Len(queue) /\ reading \in BOOLEAN
  BY DEF AnswerTyped, AnswerTypeOK
<1>2. queue' \in Seq(Events) /\ Len(queue') \in Nat /\ Len(queue) <= Len(queue')
  <2>1. CASE \E e \in Events : queue' = Append(queue, e)
    BY <1>1, <2>1
  <2>2. ASSUME NEW t \in {"_result", "_exception"}, TellLast([type |-> t])
        PROVE  queue' \in Seq(Events) /\ Len(queue') \in Nat /\ Len(queue) <= Len(queue')
    <3> DEFINE last == <<[type |-> t], [type |-> "done"]>>
    <3>1. last \in Seq(Events) /\ Len(last) = 2 /\ queue' = queue \o last
      BY <2>2 DEF Events, TellLast
    <3> HIDE DEF last
    <3>2. queue' \in Seq(Events) /\ Len(queue') = Len(queue) + Len(last)
      BY <1>1, <3>1, ConcatProperties
    <3>3. QED
      BY <1>1, <3>1, <3>2
  <2>3. CASE queue' = queue
    BY <1>1, <2>3
  <2>4. QED
    BY <2>1, <2>2, <2>3
<1>3. read' = read /\ reading' = reading /\ sent' = sent /\ evidence' = evidence
  BY DEF Reader
<1>4. AnswerTypeOK'
  BY <1>1, <1>2, <1>3 DEF AnswerTypeOK
<1>5. QED
  BY <1>2, <1>3, <1>4 DEF AnswerTyped

\* The transport fails, or the output is no answer: another output is asked for, or none.
LEMMA AskedAgain ==
  ASSUME StreamInv, AskAgain, answerStep # "ended", UNCHANGED <<Prepared, heard, content, finish, pieces, Reader, reply>>
  PROVE  StreamInv'
<1> DEFINE notice == [type |-> "thinking_delta", text |-> "notice"]
<1>1. /\ AnswerTyped /\ evidence' = evidence /\ heard' = heard /\ content' = content /\ pieces' = pieces /\ reply' = reply
      /\ UNCHANGED Reader
  BY DEF StreamInv, Prepared
<1>2. /\ output \in 1..OutputAttempts /\ try \in 1..TransportTries /\ pieces \in 0..MaxPieces /\ heard \in BOOLEAN
      /\ content \in Seq(Texts) /\ thinking \in Seq(Texts)
  BY <1>1 DEF AnswerTyped, AnswerTypeOK
<1>3. "notice" \in Texts /\ notice \in Events
  BY DEF Texts, Events, Deltas
<1>4. CASE output = OutputAttempts
  <2>1. answerStep' = "ended" /\ TellLast([type |-> "_exception"]) /\ UNCHANGED <<output, try, thinking>>
    BY <1>4 DEF AskAgain, GiveUp
  <2>2. AnswerTyped'
    BY <1>1, <1>2, <2>1, ThreadTyped
  <2>3. \A i, j \in DOMAIN reply'.answer : reply'.answer[i] = reply'.answer[j]
    BY <1>1 DEF StreamInv, OneText
  <2>4. QED
    BY <1>1, <2>1, <2>2, <2>3, ThreadEnds
<1>5. CASE output # OutputAttempts
  <2>1. /\ thinking' = Append(thinking, "notice") /\ Told(notice) /\ queue' = Append(queue, notice)
        /\ output' = output + 1 /\ try' = 1 /\ answerStep' = "connecting"
    BY <1>5 DEF AskAgain, Told
  <2>2. output' \in 1..OutputAttempts /\ try' \in 1..TransportTries /\ thinking' \in Seq(Texts)
    BY <1>2, <1>3, <1>5, <2>1, AnswerAssumption DEF OutputAttempts
  <2> HIDE DEF notice
  <2>3. AnswerTyped'
    BY <1>1, <1>2, <1>3, <2>1, <2>2, ThreadTyped
  <2>4. QED
    BY <1>1, <1>3, <2>1, <2>3, ThoughtTold DEF notice
<1>6. QED
  BY <1>4, <1>5

\* Every step of the thread and of the reader.
LEMMA StreamStep == StreamInv /\ [AnswerNext]_answerVars => StreamInv'
<1> SUFFICES ASSUME StreamInv, [AnswerNext]_answerVars PROVE StreamInv'
  OBVIOUS
<1>1. /\ AnswerTyped /\ output \in 1..OutputAttempts /\ try \in 1..TransportTries /\ pieces \in 0..MaxPieces
      /\ heard \in BOOLEAN /\ content \in Seq(Texts) /\ thinking \in Seq(Texts)
      /\ TransportTries \in Nat \ {0} /\ MaxPieces \in Nat
  BY AnswerAssumption DEF StreamInv, AnswerTyped, AnswerTypeOK
<1>2. Here \in Texts
  BY <1>1, HereIsText
<1>3. \A i, j \in DOMAIN reply.answer : reply.answer[i] = reply.answer[j]
  BY DEF StreamInv, OneText
<1>4. answerStep # "ended" /\ Thought # 0 =>
        thinking[Thought] = "notice" \/ (answerStep = "streaming" /\ heard /\ thinking[Thought] = Here)
  BY DEF StreamInv, ThoughtsApart
<1>5. ASSUME AnswerWithoutEvidence PROVE StreamInv'
  <2>1. /\ answerStep = "searched" /\ answerStep' = "ended" /\ TellLast([type |-> "_result"])
        /\ reply' = [reply EXCEPT !.answer = <<"unconfirmed">>] /\ thinking = <<>>
        /\ UNCHANGED <<evidence, Reader, thinking, output, try, heard, content, pieces>>
    BY <1>1, <1>5 DEF AnswerWithoutEvidence, Prepared, StreamInv, ThoughtsApart, Thought
  <2>2. /\ reply'.answer = <<"unconfirmed">> /\ reply'.reasoning = <<>>
        /\ DOMAIN reply' = {"answer", "reasoning", "chosen", "citations"}
    <3>1. DOMAIN reply = {"answer", "reasoning", "chosen", "citations"} /\ reply.reasoning = <<>>
      BY <2>1 DEF StreamInv, OneText, AnswerTyped
    <3>2. reply' = [reply EXCEPT !.answer = <<"unconfirmed">>]
      BY <2>1
    <3>3. QED
      BY <3>1, <3>2
  <2>3. reply'.answer \in Seq(Texts \cup {"unconfirmed"}) /\ reply'.reasoning \in Seq(Texts)
    <3>1. <<"unconfirmed">> \in Seq(Texts \cup {"unconfirmed"})
      OBVIOUS
    <3>2. <<>> \in Seq(Texts)
      BY EmptySeq, Zenon
    <3>3. reply'.answer = <<"unconfirmed">> /\ reply'.reasoning = <<>>
      BY <2>2
    <3>4. reply'.answer \in Seq(Texts \cup {"unconfirmed"})
      BY <3>1, <3>3
    <3>5. reply'.reasoning \in Seq(Texts)
      BY <3>2, <3>3
    <3>6. QED
      BY <3>4, <3>5
  <2>4. AnswerTyped'
    BY <1>1, <2>1, <2>2, <2>3, ThreadTyped
  <2>5. \A i, j \in DOMAIN reply'.answer : reply'.answer[i] = reply'.answer[j]
    BY <2>2
  <2>6. QED
    BY <2>1, <2>2, <2>4, <2>5, ThreadEnds
<1>6. ASSUME BuildPrompt PROVE StreamInv'
  <2>1. /\ answerStep = "searched" /\ answerStep' = "connecting"
        /\ UNCHANGED <<evidence, queue, thinking, reply, Reader, output, try, heard, content, pieces>>
    BY <1>6 DEF BuildPrompt
  <2>2. AnswerTyped'
    BY <1>1, <2>1, ThreadTyped
  <2>3. QED
    BY <1>4, <2>1, <2>2, ThreadQuiet
<1>7. ASSUME Connect PROVE StreamInv'
  <2>1. /\ answerStep = "connecting" /\ answerStep' = "streaming" /\ heard' = FALSE /\ content' = <<>>
        /\ UNCHANGED <<evidence, queue, thinking, reply, Reader, output, try, pieces>>
    BY <1>7 DEF Connect, Prepared
  <2>2. content' \in Seq(Texts) /\ DOMAIN content' = {}
    BY <2>1, EmptySeq
  <2>3. AnswerTyped'
    BY <1>1, <2>1, <2>2, ThreadTyped
  <2>4. QED
    BY <1>4, <2>1, <2>2, <2>3, ThreadQuiet
<1>8. ASSUME Think PROVE StreamInv'
  <2> DEFINE told == [type |-> "thinking_delta", text |-> Here]
  <2>1. /\ answerStep = "streaming" /\ answerStep' = "streaming" /\ heard' = TRUE /\ pieces' \in 0..MaxPieces
        /\ thinking' = Append(thinking, Here) /\ Told(told) /\ queue' = Append(queue, told)
        /\ UNCHANGED <<evidence, reply, Reader, output, try, content>>
    BY <1>1, <1>8 DEF Think, Prepared, Told
  <2>2. told \in Events /\ thinking' \in Seq(Texts)
    BY <1>1, <1>2, <2>1 DEF Events, Deltas
  <2>3. \A i \in DOMAIN content' : content'[i] = Here'
    BY <2>1 DEF StreamInv, OneText, Here
  <2> HIDE DEF told
  <2>4. AnswerTyped'
    BY <1>1, <2>1, <2>2, ThreadTyped
  <2>5. QED
    BY <1>2, <2>1, <2>3, <2>4, ThoughtTold DEF told
<1>9. ASSUME Write PROVE StreamInv'
  <2>1. /\ answerStep = "streaming" /\ answerStep' = "streaming" /\ heard' = TRUE /\ pieces' \in 0..MaxPieces
        /\ content' = Append(content, Here)
        /\ UNCHANGED <<evidence, queue, thinking, reply, Reader, output, try>>
    BY <1>1, <1>9 DEF Write, Prepared
  <2>2. content' \in Seq(Texts)
    BY <1>1, <1>2, <2>1
  <2>3. \A i \in DOMAIN content' : content'[i] = Here'
    <3>1. Here' = Here /\ \A i \in DOMAIN content : content[i] = Here
      BY <2>1 DEF StreamInv, OneText, Here
    <3>2. QED
      BY <1>1, <1>2, <2>1, <3>1
  <2>4. AnswerTyped'
    BY <1>1, <2>1, <2>2, ThreadTyped
  <2>5. Here' = Here
    BY <2>1 DEF Here
  <2>6. QED
    BY <1>4, <2>1, <2>3, <2>4, <2>5, ThreadQuiet
<1>10. ASSUME FinishReason PROVE StreamInv'
  <2>1. /\ answerStep = "streaming" /\ answerStep' = "streaming"
        /\ UNCHANGED <<evidence, queue, thinking, reply, Reader, output, try, heard, content, pieces>>
    BY <1>10 DEF FinishReason, Prepared
  <2>2. AnswerTyped'
    BY <1>1, <2>1, ThreadTyped
  <2>3. Here' = Here /\ \A i \in DOMAIN content' : content'[i] = Here'
    BY <2>1 DEF StreamInv, OneText, Here
  <2>4. QED
    BY <1>4, <2>1, <2>2, <2>3, ThreadQuiet
<1>11. ASSUME TransportBreaks PROVE StreamInv'
  <2>1. /\ answerStep \in {"connecting", "streaming"} /\ UNCHANGED <<Prepared, heard, content, finish, pieces, Reader, reply>>
        /\ UNCHANGED <<evidence, heard, content, pieces, Reader, reply>>
    BY <1>11 DEF TransportBreaks, Prepared
  <2>2. CASE AskAgain
    BY <2>1, <2>2, AskedAgain
  <2>3. CASE (answerStep = "connecting" \/ ~heard) /\ GiveUp /\ UNCHANGED <<output, try, thinking>>
    <3>1. answerStep' = "ended" /\ TellLast([type |-> "_exception"])
      BY <2>3 DEF GiveUp
    <3>2. AnswerTyped'
      BY <1>1, <2>1, <2>3, <3>1, ThreadTyped
    <3>3. QED
      BY <1>3, <2>1, <2>3, <3>1, <3>2, ThreadEnds
  <2>4. CASE /\ answerStep = "connecting" \/ ~heard
             /\ try < TransportTries /\ try' = try + 1 /\ answerStep' = "connecting" /\ UNCHANGED <<output, thinking, queue>>
    <3>1. try' \in 1..TransportTries
      BY <1>1, <2>4
    <3>2. AnswerTyped'
      BY <1>1, <2>1, <2>4, <3>1, ThreadTyped
    <3>3. Thought # 0 => thinking[Thought] = "notice"
      BY <1>4, <2>1, <2>4
    <3>4. QED
      BY <2>1, <2>4, <3>2, <3>3, ThreadQuiet
  <2>5. QED
    BY <1>11, <2>2, <2>3, <2>4 DEF TransportBreaks
<1>12. ASSUME AnswerFails PROVE StreamInv'
  <2>1. /\ answerStep # "ended" /\ answerStep' = "ended" /\ TellLast([type |-> "_exception"])
        /\ UNCHANGED <<evidence, thinking, reply, Reader, output, try, heard, content, pieces>>
    BY <1>12 DEF AnswerFails, GiveUp, Prepared
  <2>2. AnswerTyped'
    BY <1>1, <2>1, ThreadTyped
  <2>3. QED
    BY <1>3, <2>1, <2>2, ThreadEnds
<1>13. ASSUME OutputInvalid PROVE StreamInv'
  BY <1>13, AskedAgain DEF OutputInvalid
<1>14. ASSUME OutputValid PROVE StreamInv'
  <2>1. /\ answerStep = "streaming" /\ answerStep' = "ended" /\ TellLast([type |-> "_result"])
        /\ reply'.answer = content /\ reply'.reasoning = thinking
        /\ DOMAIN reply' = {"answer", "reasoning", "chosen", "citations"}
        /\ UNCHANGED <<evidence, Reader, thinking, output, try, heard, content, pieces>>
    BY <1>14 DEF OutputValid, Prepared
  <2>2. reply'.answer \in Seq(Texts \cup {"unconfirmed"}) /\ reply'.reasoning \in Seq(Texts)
    BY <1>1, <2>1
  <2>3. AnswerTyped'
    BY <1>1, <2>1, <2>2, ThreadTyped
  <2>4. \A i, j \in DOMAIN reply'.answer : reply'.answer[i] = reply'.answer[j]
    BY <2>1 DEF StreamInv, OneText
  <2>5. QED
    BY <2>1, <2>3, <2>4, ThreadEnds
<1>15. ASSUME TakeEvent PROVE StreamInv'
  BY <1>15, EventTaken
<1>16. ASSUME ReaderLeaves PROVE StreamInv'
  BY <1>16 DEF ReaderLeaves, Prepared, StreamInv, AnswerTyped, AnswerTypeOK, QueueTold, ThoughtsApart, OneText,
               SentTold, Thought, Here
<1>17. ASSUME UNCHANGED answerVars PROVE StreamInv'
  BY <1>17 DEF answerVars, StreamInv, AnswerTyped, AnswerTypeOK, QueueTold, ThoughtsApart, OneText,
               SentTold, Thought, Here
<1>18. QED
  BY <1>5, <1>6, <1>7, <1>8, <1>9, <1>10, <1>11, <1>12, <1>13, <1>14, <1>15, <1>16, <1>17 DEF AnswerNext

\* What the stream has sent is what the reader has taken, and that is the truth.
LEMMA StreamTrue == StreamInv => StreamTruth
<1> SUFFICES ASSUME StreamInv PROVE StreamTruth
  OBVIOUS
<1> DEFINE n == Len(thinking)
           told == Len(reply.reasoning)
           written == Len(reply.answer)
           Shown(types) == {i \in DOMAIN sent : sent[i].type \in types}
<1>1. AnswerTyped /\ AnswerTypeOK /\ QueueTold /\ SentTold /\ ThoughtsApart
  BY DEF StreamInv, AnswerTyped
<1>2. /\ queue \in Seq(Events) /\ sent \in Seq(Events) /\ n \in Nat /\ read \in Nat /\ read \in 0..Len(queue)
      /\ told \in Nat /\ written \in Nat
  BY <1>1 DEF AnswerTyped, AnswerTypeOK
<1>3. DOMAIN sent = 1..Len(sent) /\ Len(sent) \in Nat
  BY <1>2
<1>4. \A i \in 1..n : queue[i] = [type |-> "thinking_delta", text |-> thinking[i]]
  BY <1>1 DEF QueueTold, Thought
<1>5. \A i \in 1..read : i <= n => sent[i] = [type |-> "thinking_delta", text |-> thinking[i]]
  BY <1>1, <1>2, <1>4 DEF SentTold, Thought
<1>a. \A i, j \in 1..n : j = i + 1 => "notice" \in {thinking[i], thinking[j]} \/ thinking[i] = thinking[j]
  BY <1>1 DEF ThoughtsApart, Thought
<1>6. CASE read <= n
  <2>1. Len(sent) = read
    BY <1>1, <1>6 DEF SentTold, Thought
  <2>2. \A i \in DOMAIN sent : i \in 1..n /\ sent[i] = [type |-> "thinking_delta", text |-> thinking[i]]
    BY <1>2, <1>3, <1>5, <1>6, <2>1
  <2>3. Shown({"final", "error"}) = {} /\ Shown({"final"}) = {} /\ Shown({"answer_delta"}) = {}
    BY <2>2
  <2>4. \A i, j \in DOMAIN sent : j = i + 1 =>
          "notice" \in {sent[i].text, sent[j].text} \/ sent[i].text = sent[j].text
    <3>1. \A i \in DOMAIN sent : i \in 1..n /\ sent[i].text = thinking[i]
      BY <2>2
    <3> HIDE DEF n
    <3>2. QED
      BY <1>a, <3>1
  <2>5. ~(read > 0 /\ queue[read].type = "done")
    <3> SUFFICES ASSUME read > 0 PROVE queue[read].type # "done"
      OBVIOUS
    <3>1. read \in 1..n
      BY <1>2, <1>6
    <3>2. queue[read] = [type |-> "thinking_delta", text |-> thinking[read]]
      BY <1>4, <3>1
    <3>3. QED
      BY <3>2
  <2> HIDE DEF n
  <2>6. QED
    BY <2>3, <2>4, <2>5 DEF StreamTruth
<1>7. CASE read > n
  <2>1. answerStep = "ended" /\ Len(queue) = n + 2
    BY <1>1, <1>2, <1>7 DEF QueueTold, Thought
  <2>2. \/ queue[n + 1] = [type |-> "_exception"]
        \/ queue[n + 1] = [type |-> "_result"] /\ reply.reasoning = thinking
    BY <1>1, <2>1 DEF QueueTold, Thought
  <2>3. \A i \in 1..n : sent[i] = [type |-> "thinking_delta", text |-> thinking[i]]
    BY <1>2, <1>5, <1>7
  <2>4. CASE queue[n + 1] = [type |-> "_exception"]
    <3>1. Len(sent) = n + 1 /\ sent[n + 1] = [type |-> "error"]
      BY <1>1, <1>7, <2>4 DEF SentTold, Thought
    <3>2. \A i \in DOMAIN sent : i \in 1..n \/ i = n + 1
      BY <1>2, <1>3, <3>1
    <3>3. Shown({"final", "error"}) = {n + 1} /\ Shown({"final"}) = {} /\ Shown({"answer_delta"}) = {}
      <4>1. \A i \in DOMAIN sent : sent[i].type = "thinking_delta" \/ (i = n + 1 /\ sent[i].type = "error")
        <5>1. ASSUME NEW i \in 1..n PROVE sent[i].type = "thinking_delta"
          <6>1. sent[i] = [type |-> "thinking_delta", text |-> thinking[i]]
            BY <2>3
          <6>2. QED
            BY <6>1
        <5>2. sent[n + 1].type = "error"
          BY <3>1
        <5> HIDE DEF n
        <5>3. QED
          BY <3>2, <5>1, <5>2
      <4>2. n + 1 \in DOMAIN sent /\ sent[n + 1].type = "error"
        BY <1>2, <1>3, <3>1
      <4> HIDE DEF n
      <4>3. QED
        BY <4>1, <4>2
    <3>4. \A i, j \in Shown({"thinking_delta"}) : j = i + 1 =>
            "notice" \in {sent[i].text, sent[j].text} \/ sent[i].text = sent[j].text
      <4>1. \A i \in Shown({"thinking_delta"}) : i \in 1..n /\ sent[i].text = thinking[i]
        <5>1. ASSUME NEW i \in 1..n PROVE sent[i].text = thinking[i]
          <6>1. sent[i] = [type |-> "thinking_delta", text |-> thinking[i]]
            BY <2>3
          <6>2. QED
            BY <6>1
        <5>2. sent[n + 1].type = "error"
          BY <3>1
        <5> HIDE DEF n
        <5>3. QED
          BY <3>2, <5>1, <5>2
      <4> HIDE DEF n
      <4>2. QED
        BY <1>a, <4>1
    <3> HIDE DEF n
    <3>5. QED
      BY <3>1, <3>3, <3>4 DEF StreamTruth
  <2>5. CASE queue[n + 1] = [type |-> "_result"]
    <3>1. /\ Len(sent) = n + written + 1 /\ sent[Len(sent)] = [type |-> "final"]
          /\ \A i \in 1..written : sent[n + i] = [type |-> "answer_delta", text |-> reply.answer[i]]
      <4>1. queue[n + 1].type = "_result"
        BY <2>5
      <4>2. SentTold
        BY <1>1
      <4> HIDE <2>5
      <4>3. QED
        BY <1>7, <4>1, <4>2 DEF SentTold, Thought
    <3>2. told = n /\ reply.reasoning = thinking
      BY <2>2, <2>5
    <3>3. ASSUME NEW i \in DOMAIN sent
          PROVE  i \in 1..n \/ (\E k \in 1..written : i = n + k) \/ i = Len(sent)
      <4> HIDE DEF n
      <4>0. i \in 1..(n + written + 1) /\ i \in Nat
        BY <1>3, <3>1
      <4>1. i \in 1..n \/ i - n \in 1..written \/ i = n + written + 1
        BY <1>2, <4>0
      <4>2. i = n + (i - n) /\ Len(sent) = n + written + 1
        BY <1>2, <3>1, <4>0
      <4>3. QED
        BY <4>1, <4>2
    <3>4. \A i \in DOMAIN sent :
            \/ i \in 1..n /\ sent[i] = [type |-> "thinking_delta", text |-> thinking[i]]
            \/ sent[i].type = "answer_delta"
            \/ i = Len(sent)
      <4> HIDE DEF n, written
      <4>1. ASSUME NEW k \in 1..written PROVE sent[n + k].type = "answer_delta"
        <5>1. sent[n + k] = [type |-> "answer_delta", text |-> reply.answer[k]]
          BY <3>1
        <5>2. QED
          BY <5>1
      <4>2. QED
        BY <2>3, <3>3, <4>1
    <3>5. Shown({"final", "error"}) = {Len(sent)} /\ Shown({"final"}) = {Len(sent)}
      <4>1. Len(sent) \in DOMAIN sent /\ sent[Len(sent)].type = "final"
        BY <1>2, <1>3, <3>1
      <4>2. \A i \in DOMAIN sent : sent[i].type \in {"thinking_delta", "answer_delta"} \/ i = Len(sent)
        BY <3>4
      <4> HIDE DEF n, written
      <4>3. QED
        BY <4>1, <4>2
    <3>6. \A i, j \in Shown({"thinking_delta"}) : j = i + 1 =>
            "notice" \in {sent[i].text, sent[j].text} \/ sent[i].text = sent[j].text
      <4>1. \A i \in Shown({"thinking_delta"}) : i \in 1..n /\ sent[i].text = thinking[i]
        BY <3>1, <3>4
      <4> HIDE DEF n
      <4>2. QED
        BY <1>a, <4>1
    <3>7. \A i \in 1..told : sent[i] = [type |-> "thinking_delta", text |-> reply.reasoning[i]]
      BY <2>3, <3>2
    <3>8. \A i, j \in DOMAIN reply.answer : reply.answer[i] = reply.answer[j]
      BY DEF StreamInv, OneText
    <3>9. \A i \in 1..written : sent[told + i] = [type |-> "answer_delta", text |-> reply.answer[i]]
      BY <3>1, <3>2
    <3>10. Len(sent) = told + written + 1
      BY <3>1, <3>2
    <3> HIDE DEF n
    <3>11. QED
      BY <3>5, <3>6, <3>7, <3>8, <3>9, <3>10 DEF StreamTruth
  <2>6. QED
    BY <2>2, <2>4, <2>5
<1>8. QED
  BY <1>2, <1>6, <1>7

\* Whatever the connection to the model does, the thread keeps to its tries and to the
\* pieces it was sent, and the reader takes no event that was not put on the queue.
THEOREM AnswerTypeCorrect == AnswerSpec => []AnswerTypeOK
<1>1. StreamInv => AnswerTypeOK
  BY DEF StreamInv, AnswerTyped
<1>2. QED
  BY <1>1, StreamStarts, StreamStep, PTL DEF AnswerSpec

\* For any evidence, number of tries, of pieces and of citations, and however the
\* connection breaks, the stream tells what the model thought and then one error, or
\* the text of one connection and the final reply. (AnswerAgent.generate,
\* _stream_chat_content, answer_question_stream_events)
THEOREM StreamTruthCorrect == AnswerSpec => []StreamTruth
BY StreamStarts, StreamStep, StreamTrue, PTL DEF AnswerSpec

(***************************************************************************)
(* AnswerRequest: the citations                                            *)
(***************************************************************************)
\* The places of the citations are finitely many, each of a piece of evidence.
LEMMA PlacesOfCites ==
  ASSUME evidence \in SearchResults
  PROVE  /\ IsFiniteSet(CitePlaces)
         /\ \A i \in DOMAIN evidence : i \in Nat /\ Len(Cites(i)) \in Nat /\ DOMAIN Cites(i) = 1..Len(Cites(i))
         /\ \A p \in CitePlaces : /\ p[1] \in DOMAIN evidence /\ p[2] \in DOMAIN Cites(p[1]) /\ p = <<p[1], p[2]>>
                                  /\ p[1] \in Nat /\ p[2] \in Nat
         /\ \A i \in DOMAIN evidence : \A j \in DOMAIN Cites(i) : <<i, j>> \in CitePlaces
<1> DEFINE of(i) == {<<i, j>> : j \in DOMAIN Cites(i)}
<1>1. evidence \in Seq(DOMAIN CitesOf)
  BY AnswerAssumption
<1>2. DOMAIN evidence = 1..Len(evidence) /\ Len(evidence) \in Nat
  BY <1>1
<1>3. ASSUME NEW i \in DOMAIN evidence
      PROVE  i \in Nat /\ Len(Cites(i)) \in Nat /\ DOMAIN Cites(i) = 1..Len(Cites(i))
  <2>1. evidence[i] \in DOMAIN CitesOf
    BY <1>1
  <2>2. QED
    BY <1>2, <2>1, AnswerAssumption DEF Cites
<1>4. CitePlaces = UNION {of(i) : i \in DOMAIN evidence}
  BY DEF CitePlaces
<1>5. \A i \in DOMAIN evidence : IsFiniteSet(of(i))
  <2> TAKE i \in DOMAIN evidence
  <2>1. IsFiniteSet(1..Len(Cites(i)))
    BY <1>3, FS_Interval
  <2>2. IsFiniteSet(DOMAIN Cites(i))
    BY <1>3, <2>1
  <2> DEFINE place == [j \in DOMAIN Cites(i) |-> <<i, j>>]
  <2>3. of(i) = {place[j] : j \in DOMAIN Cites(i)}
    OBVIOUS
  <2> HIDE DEF place, of
  <2>4. QED
    BY <2>2, <2>3, ValuesFinite
<1>6. IsFiniteSet({of(i) : i \in DOMAIN evidence})
  <2>1. IsFiniteSet(DOMAIN evidence)
    BY <1>2, FS_Interval
  <2> DEFINE all == [i \in DOMAIN evidence |-> of(i)]
  <2> HIDE DEF of
  <2>2. {of(i) : i \in DOMAIN evidence} = {all[i] : i \in DOMAIN evidence}
    OBVIOUS
  <2> HIDE DEF all
  <2>3. QED
    BY <2>1, <2>2, ValuesFinite
<1>7. IsFiniteSet(CitePlaces)
  <2>1. \A T \in {of(i) : i \in DOMAIN evidence} : IsFiniteSet(T)
    BY <1>5
  <2> HIDE DEF of
  <2>2. QED
    BY <1>4, <1>6, <2>1, FS_UNION
<1>8. \A p \in CitePlaces : \E i \in DOMAIN evidence : \E j \in DOMAIN Cites(i) : p = <<i, j>>
  BY DEF CitePlaces
<1>9. \A i \in DOMAIN evidence : \A j \in DOMAIN Cites(i) : <<i, j>> \in CitePlaces
  BY DEF CitePlaces
<1>10. ASSUME NEW p \in CitePlaces
       PROVE  /\ p[1] \in DOMAIN evidence /\ p[2] \in DOMAIN Cites(p[1]) /\ p = <<p[1], p[2]>>
              /\ p[1] \in Nat /\ p[2] \in Nat
  <2>1. PICK i \in DOMAIN evidence : \E j \in DOMAIN Cites(i) : p = <<i, j>>
    BY <1>8
  <2>2. PICK j \in DOMAIN Cites(i) : p = <<i, j>>
    BY <2>1
  <2>3. p[1] = i /\ p[2] = j
    BY <2>2
  <2>4. QED
    BY <1>3, <2>2, <2>3
<1>11. QED
  BY <1>3, <1>7, <1>9, <1>10

\* The order of the citations: by the piece of evidence, then by the place there.
LEMMA CitesOrdered ==
  ASSUME evidence \in SearchResults
  PROVE  /\ Ordering(CitePlaces, CiteOrder)
         /\ \A p, q \in CitePlaces : <<p, q>> \in CiteOrder <=> p[1] < q[1] \/ (p[1] = q[1] /\ p[2] < q[2])
<1>1. \A p, q \in CitePlaces : <<p, q>> \in CiteOrder <=> p[1] < q[1] \/ (p[1] = q[1] /\ p[2] < q[2])
  BY DEF CiteOrder
<1>2. \A p \in CitePlaces : p[1] \in Nat /\ p[2] \in Nat /\ p = <<p[1], p[2]>>
  BY PlacesOfCites
<1>3. ASSUME NEW p \in CitePlaces, NEW q \in CitePlaces
      PROVE  p = q \/ <<p, q>> \in CiteOrder \/ <<q, p>> \in CiteOrder
  <2>1. p[1] \in Nat /\ p[2] \in Nat /\ q[1] \in Nat /\ q[2] \in Nat
    BY <1>2
  <2>2. p[1] < q[1] \/ q[1] < p[1] \/ (p[1] = q[1] /\ (p[2] < q[2] \/ q[2] < p[2] \/ p[2] = q[2]))
    BY <2>1
  <2>3. p[1] = q[1] /\ p[2] = q[2] => p = q
    BY <1>2
  <2>4. QED
    BY <1>1, <2>2, <2>3
<1>4. \A p \in CitePlaces : <<p, p>> \notin CiteOrder
  BY <1>1, <1>2
<1>5. \A p, q, s \in CitePlaces : <<p, q>> \in CiteOrder /\ <<q, s>> \in CiteOrder => <<p, s>> \in CiteOrder
  BY <1>1, <1>2
<1>6. QED
  BY <1>1, <1>3, <1>4, <1>5 DEF Ordering

CitesInOrder == Ranked(CitePlaces, CiteOrder)

\* The citations are ranked by that order.
LEMMA CitesRanked ==
  ASSUME evidence \in SearchResults
  PROVE  RankedBy(CitesInOrder, CitePlaces, CiteOrder)
  BY PlacesOfCites, CitesOrdered, RankedIsByRank DEF CitesInOrder

\* Ahead of a citation come those of the pieces before, and those before it in its own.
LEMMA CitesCounted ==
  ASSUME evidence \in SearchResults, NEW q \in CitePlaces
  PROVE  Cardinality(Preceding(CitePlaces, CiteOrder, q)) = CitesBefore(q[1]) + q[2] - 1
<1> DEFINE before == {p \in CitePlaces : p[1] < q[1]}
           beside == {p \in CitePlaces : p[1] = q[1] /\ p[2] < q[2]}
           place == [j \in 1..(q[2] - 1) |-> <<q[1], j>>]
<1>1. /\ IsFiniteSet(CitePlaces) /\ q[1] \in DOMAIN evidence /\ q[2] \in DOMAIN Cites(q[1]) /\ q[1] \in Nat /\ q[2] \in Nat
      /\ Len(Cites(q[1])) \in Nat /\ DOMAIN Cites(q[1]) = 1..Len(Cites(q[1]))
  BY PlacesOfCites
<1>2. before \in SUBSET CitePlaces /\ beside \in SUBSET CitePlaces
  OBVIOUS
<1>3. IsFiniteSet(before) /\ IsFiniteSet(beside)
  BY <1>1, <1>2, FS_Subset
<1>4. Preceding(CitePlaces, CiteOrder, q) = before \cup beside
  BY CitesOrdered DEF Preceding
<1>5. before \cap beside = {}
  <2>1. \A p \in before : p[1] < q[1]
    OBVIOUS
  <2>2. \A p \in beside : ~(p[1] < q[1])
    BY <1>1
  <2>3. QED
    BY <2>1, <2>2
<1>6. q[2] - 1 \in Nat /\ IsFiniteSet(1..(q[2] - 1)) /\ Cardinality(1..(q[2] - 1)) = q[2] - 1
  <2>1. q[2] - 1 \in Nat
    BY <1>1
  <2>2. QED
    BY <2>1, FS_Interval
<1>7. place \in Bijection(1..(q[2] - 1), beside)
  <2>1. \A j \in 1..(q[2] - 1) : place[j] = <<q[1], j>>
    OBVIOUS
  <2>2. \A j \in 1..(q[2] - 1) : place[j] \in beside
    <3> TAKE j \in 1..(q[2] - 1)
    <3>1. j \in DOMAIN Cites(q[1]) /\ j < q[2]
      BY <1>1
    <3>2. <<q[1], j>> \in CitePlaces
      BY <1>1, <3>1, PlacesOfCites
    <3>3. QED
      BY <2>1, <3>1, <3>2
  <2>3. \A i, j \in 1..(q[2] - 1) : place[i] = place[j] => i = j
    BY <2>1
  <2>4. \A p \in beside : \E j \in 1..(q[2] - 1) : place[j] = p
    <3> TAKE p \in beside
    <3>1. p = <<p[1], p[2]>> /\ p[1] = q[1] /\ p[2] < q[2] /\ p[2] \in DOMAIN Cites(p[1]) /\ p[2] \in Nat
      BY PlacesOfCites
    <3>2. p[2] \in 1..(q[2] - 1)
      BY <1>1, <3>1
    <3>3. place[p[2]] = p
      BY <2>1, <3>1, <3>2
    <3>4. QED
      BY <3>2, <3>3
  <2>5. place \in [1..(q[2] - 1) -> beside]
    BY <2>2
  <2> HIDE DEF place, beside
  <2>6. QED
    BY <2>3, <2>4, <2>5 DEF Bijection, Injection, Surjection, IsInjective
<1>8. Cardinality(beside) = q[2] - 1
  <2> HIDE DEF place, beside
  <2>1. ExistsBijection(1..(q[2] - 1), beside)
    BY <1>7 DEF ExistsBijection
  <2>2. QED
    BY <1>6, <2>1, FS_Bijection
<1>9. Cardinality(before) = CitesBefore(q[1]) /\ Cardinality(before) \in Nat
  BY <1>3, FS_CardinalityType DEF CitesBefore
<1> HIDE DEF before, beside
<1>10. Cardinality(before \cup beside) = Cardinality(before) + Cardinality(beside) - Cardinality({})
  BY <1>3, <1>5, FS_Union
<1>11. Cardinality({}) = 0
  BY FS_EmptySet
<1>12. CitesBefore(q[1]) \in Nat /\ q[2] \in Nat
  BY <1>1, <1>9
<1>13. Cardinality(before \cup beside) = CitesBefore(q[1]) + (q[2] - 1) - 0
  BY <1>8, <1>9, <1>10, <1>11
<1>14. CitesBefore(q[1]) + (q[2] - 1) - 0 = CitesBefore(q[1]) + q[2] - 1
  BY <1>12
<1>15. QED
  BY <1>4, <1>13, <1>14, Zenon

\* The numbers in the prompt are the places in the list of all citations.
LEMMA NumbersArePlaces ==
  ASSUME evidence \in SearchResults
  PROVE  /\ \A n \in DOMAIN AllCitations :
              [AllCitations[n] EXCEPT !.number = n] \in Numbered /\ AllCitations[n].number = 0
         /\ \A c \in Numbered : \E n \in DOMAIN AllCitations : c = [AllCitations[n] EXCEPT !.number = n] /\ c.number = n
         /\ Cardinality(CitePlaces) \in Nat /\ DOMAIN AllCitations = 1..Cardinality(CitePlaces)
         /\ \A n \in DOMAIN AllCitations :
              /\ CitesInOrder[n] \in CitePlaces
              /\ AllCitations[n] = [evidence |-> CitesInOrder[n][1], key |-> Cites(CitesInOrder[n][1])[CitesInOrder[n][2]],
                                    number |-> 0]
         /\ \A q \in CitePlaces : \E n \in DOMAIN AllCitations : CitesInOrder[n] = q
         /\ \A m, n \in DOMAIN AllCitations : CitesInOrder[m] = CitesInOrder[n] => m = n
<1> DEFINE at == CitesInOrder
           entry(q, n) == [evidence |-> q[1], key |-> Cites(q[1])[q[2]], number |-> n]
<1>1. /\ Cardinality(CitePlaces) \in Nat /\ at \in [1..Cardinality(CitePlaces) -> CitePlaces]
      /\ \A n \in 1..Cardinality(CitePlaces) : Cardinality(Preceding(CitePlaces, CiteOrder, at[n])) = n - 1
      /\ \A q \in CitePlaces : \E n \in 1..Cardinality(CitePlaces) : at[n] = q
      /\ \A m, n \in 1..Cardinality(CitePlaces) : at[m] = at[n] => m = n
  <2>1. RankedBy(at, CitePlaces, CiteOrder) /\ IsFiniteSet(CitePlaces) /\ Ordering(CitePlaces, CiteOrder)
    BY CitesRanked, PlacesOfCites, CitesOrdered
  <2> HIDE DEF at
  <2>2. /\ Cardinality(CitePlaces) \in Nat
        /\ \A q \in CitePlaces : \E n \in 1..Cardinality(CitePlaces) : at[n] = q
        /\ \A m, n \in 1..Cardinality(CitePlaces) : at[m] = at[n] => m = n
    BY <2>1, RankedOnce
  <2>3. QED
    BY <2>1, <2>2 DEF RankedBy
<1>2. AllCitations = [n \in DOMAIN at |-> entry(at[n], 0)]
  BY DEF AllCitations, CitesInOrder
<1>3. DOMAIN AllCitations = 1..Cardinality(CitePlaces) /\ \A n \in DOMAIN AllCitations : AllCitations[n] = entry(at[n], 0)
  <2> HIDE DEF at, entry
  <2>1. QED
    BY <1>1, <1>2
<1>4. \A q \in CitePlaces : q[1] \in DOMAIN evidence /\ q[2] \in DOMAIN Cites(q[1]) /\ q = <<q[1], q[2]>> /\ q[1] \in Nat /\ q[2] \in Nat
  BY PlacesOfCites
<1>5. \A c \in Numbered : \E q \in CitePlaces : c = entry(q, CitesBefore(q[1]) + q[2])
  <2> TAKE c \in Numbered
  <2>1. PICK i \in DOMAIN evidence : \E j \in DOMAIN Cites(i) : c = [number |-> CitesBefore(i) + j, evidence |-> i, key |-> Cites(i)[j]]
    BY DEF Numbered
  <2>2. PICK j \in DOMAIN Cites(i) : c = [number |-> CitesBefore(i) + j, evidence |-> i, key |-> Cites(i)[j]]
    BY <2>1
  <2>3. PICK q : q = <<i, j>>
    OBVIOUS
  <2>4. q \in CitePlaces /\ q[1] = i /\ q[2] = j
    BY <2>3, PlacesOfCites
  <2>5. QED
    BY <2>2, <2>4
<1>6. \A q \in CitePlaces : entry(q, CitesBefore(q[1]) + q[2]) \in Numbered
  BY <1>4 DEF Numbered
<1>7. ASSUME NEW n \in DOMAIN AllCitations PROVE CitesBefore(at[n][1]) + at[n][2] = n /\ at[n] \in CitePlaces
  <2>1. n \in Nat /\ at[n] \in CitePlaces /\ Cardinality(Preceding(CitePlaces, CiteOrder, at[n])) = n - 1
    BY <1>1, <1>3
  <2> HIDE DEF at
  <2>2. n - 1 = CitesBefore(at[n][1]) + at[n][2] - 1
    BY <2>1, CitesCounted
  <2>3. CitesBefore(at[n][1]) \in Nat /\ at[n][2] \in Nat
    <3>1. {p \in CitePlaces : p[1] < at[n][1]} \in SUBSET CitePlaces /\ IsFiniteSet(CitePlaces)
      BY PlacesOfCites
    <3>2. IsFiniteSet({p \in CitePlaces : p[1] < at[n][1]})
      BY <3>1, FS_Subset
    <3>3. QED
      BY <1>4, <2>1, <3>2, FS_CardinalityType DEF CitesBefore
  <2>4. QED
    BY <2>1, <2>2, <2>3
<1>8. \A n \in DOMAIN AllCitations : [AllCitations[n] EXCEPT !.number = n] = entry(at[n], n) /\ AllCitations[n].number = 0
  <2> TAKE n \in DOMAIN AllCitations
  <2>1. AllCitations[n] = [evidence |-> at[n][1], key |-> Cites(at[n][1])[at[n][2]], number |-> 0]
    BY <1>3
  <2> HIDE DEF at
  <2>2. QED
    BY <2>1
<1> HIDE DEF at, entry
<1>9. \A n \in DOMAIN AllCitations : [AllCitations[n] EXCEPT !.number = n] \in Numbered /\ AllCitations[n].number = 0
  BY <1>6, <1>7, <1>8
<1>10. \A c \in Numbered : \E n \in DOMAIN AllCitations : c = [AllCitations[n] EXCEPT !.number = n] /\ c.number = n
  <2> TAKE c \in Numbered
  <2>1. PICK q \in CitePlaces : c = entry(q, CitesBefore(q[1]) + q[2])
    BY <1>5
  <2>2. PICK n \in DOMAIN AllCitations : at[n] = q
    BY <1>1, <1>3
  <2>3. c = entry(at[n], n)
    BY <1>7, <2>1, <2>2
  <2>4. c.number = n
    BY <2>3 DEF entry
  <2>5. QED
    BY <1>8, <2>3, <2>4
<1>11. \A n \in DOMAIN AllCitations : at[n] \in CitePlaces /\ AllCitations[n] = [evidence |-> at[n][1], key |-> Cites(at[n][1])[at[n][2]], number |-> 0]
  BY <1>3, <1>7 DEF entry
<1>12. QED
  BY <1>1, <1>3, <1>9, <1>10, <1>11 DEF at

\* cited lists the chosen numbers that are in range, each once, then the first citation of
\* each key that is not among them.
Listing(numbers, cited, chosen, rest) ==
  /\ Len(chosen) \in Nat /\ DOMAIN chosen = 1..Len(chosen) /\ Len(rest) \in Nat /\ DOMAIN rest = 1..Len(rest)
  /\ DOMAIN cited = 1..(Len(chosen) + Len(rest))
  /\ \A k \in 1..Len(chosen) : cited[k] = [AllCitations[chosen[k]] EXCEPT !.number = chosen[k]]
  /\ \A k \in 1..Len(rest) : cited[Len(chosen) + k] = AllCitations[rest[k]]
  /\ \A k \in DOMAIN chosen : chosen[k] \in DOMAIN AllCitations /\ \E h \in DOMAIN numbers : numbers[h] = chosen[k]
  /\ \A h \in DOMAIN numbers : numbers[h] \in DOMAIN AllCitations => \E k \in DOMAIN chosen : chosen[k] = numbers[h]
  /\ \A k, l \in DOMAIN chosen : chosen[k] = chosen[l] => k = l
  /\ \A k \in DOMAIN rest : /\ rest[k] \in DOMAIN AllCitations
                           /\ \A l \in DOMAIN chosen : AllCitations[chosen[l]].key # AllCitations[rest[k]].key
  /\ \A k, l \in DOMAIN rest : AllCitations[rest[k]].key = AllCitations[rest[l]].key => k = l
  /\ \A n \in DOMAIN AllCitations :
       \/ \E l \in DOMAIN chosen : AllCitations[chosen[l]].key = AllCitations[n].key
       \/ \E k \in DOMAIN rest : AllCitations[rest[k]].key = AllCitations[n].key

\* The citations of a reply are such a list.
LEMMA CitationsListed ==
  ASSUME evidence \in SearchResults, NEW numbers \in Seq(Nat), NEW cited,
         cited = WithFallback(SelectedCitations(numbers))
  PROVE  \E chosen, rest : Listing(numbers, cited, chosen, rest)
<1> DEFINE N == Cardinality(CitePlaces)
           S == {k \in DOMAIN numbers : /\ numbers[k] \in DOMAIN AllCitations
                                       /\ \A h \in 1..(k - 1) : numbers[h] # numbers[k]}
           chosen == Picked(numbers, S)
           picks == SelectedCitations(numbers)
           T == {n \in DOMAIN AllCitations :
                   /\ \A k \in DOMAIN picks : picks[k].key # AllCitations[n].key
                   /\ \A m \in 1..(n - 1) : AllCitations[m].key # AllCitations[n].key}
           left == Picked(AllCitations, T)
           rest == [k \in 1..Cardinality(T) |-> Nth(T, k)]
<1>1. N \in Nat /\ DOMAIN AllCitations = 1..N
  BY NumbersArePlaces
<1>2. \A n \in 1..N : DOMAIN AllCitations[n] = {"evidence", "key", "number"}
  <2> TAKE n \in 1..N
  <2>1. AllCitations[n] = [evidence |-> CitesInOrder[n][1], key |-> Cites(CitesInOrder[n][1])[CitesInOrder[n][2]], number |-> 0]
    BY <1>1, NumbersArePlaces
  <2>2. QED
    BY <2>1
<1>3. Len(numbers) \in Nat /\ DOMAIN numbers = 1..Len(numbers) /\ \A k \in DOMAIN numbers : numbers[k] \in Nat
  OBVIOUS
<1>4. S \in SUBSET Nat /\ S \in SUBSET (1..Len(numbers)) /\ IsFiniteSet(S)
  <2>1. S \in SUBSET (1..Len(numbers)) /\ IsFiniteSet(1..Len(numbers))
    BY <1>3, FS_Interval
  <2>2. QED
    BY <1>3, <2>1, FS_Subset
<1>5. T \in SUBSET Nat /\ T \in SUBSET (1..N) /\ IsFiniteSet(T)
  <2>1. T \in SUBSET (1..N) /\ IsFiniteSet(1..N)
    BY <1>1, FS_Interval
  <2>2. QED
    BY <1>1, <2>1, FS_Subset
<1>6. \A k \in S : numbers[k] \in 1..N /\ \A h \in 1..(k - 1) : numbers[h] # numbers[k]
  BY <1>1
<1>7. \A h \in DOMAIN numbers : numbers[h] \in 1..N => \E k \in S : numbers[k] = numbers[h]
  <2> SUFFICES ASSUME NEW h \in DOMAIN numbers, numbers[h] \in 1..N PROVE \E k \in S : numbers[k] = numbers[h]
    OBVIOUS
  <2>1. h \in Nat \ {0} /\ h \in 1..Len(numbers)
    BY <1>3
  <2>2. PICK m \in 1..h : numbers[m] = numbers[h] /\ \A i \in 1..(m - 1) : numbers[i] # numbers[m]
    BY <2>1, FirstExists
  <2>3. m \in DOMAIN numbers
    BY <1>3, <2>1
  <2>4. m \in S
    BY <1>1, <2>2, <2>3
  <2>5. QED
    BY <2>2, <2>4
<1>8. /\ Cardinality(S) \in Nat /\ DOMAIN chosen = 1..Cardinality(S)
      /\ \A n \in 1..Cardinality(S) : Nth(S, n) \in S /\ chosen[n] = numbers[Nth(S, n)]
      /\ \A k \in S : \E n \in 1..Cardinality(S) : Nth(S, n) = k
      /\ \A m, n \in 1..Cardinality(S) : Nth(S, m) = Nth(S, n) => m = n
  <2> HIDE DEF S
  <2>1. QED
    BY <1>4, PickedPlaces
<1>9. /\ Cardinality(T) \in Nat /\ DOMAIN left = 1..Cardinality(T)
      /\ \A n \in 1..Cardinality(T) : Nth(T, n) \in T /\ left[n] = AllCitations[Nth(T, n)]
      /\ \A k \in T : \E n \in 1..Cardinality(T) : Nth(T, n) = k
      /\ \A m, n \in 1..Cardinality(T) : Nth(T, m) = Nth(T, n) => m = n
  <2> HIDE DEF T
  <2>1. QED
    BY <1>5, PickedPlaces
<1>10. picks = [k \in DOMAIN chosen |-> [AllCitations[chosen[k]] EXCEPT !.number = chosen[k]]]
  BY DEF SelectedCitations
<1>11. cited = picks \o left
  BY DEF WithFallback
<1> HIDE DEF chosen, picks
<1>12. \A n \in T : /\ n \in 1..N /\ \A k \in DOMAIN picks : picks[k].key # AllCitations[n].key
                    /\ \A m \in 1..(n - 1) : AllCitations[m].key # AllCitations[n].key
  BY <1>1
<1>13. \A n \in 1..N : (\A k \in DOMAIN picks : picks[k].key # AllCitations[n].key) =>
         \E m \in T : AllCitations[m].key = AllCitations[n].key
  <2> SUFFICES ASSUME NEW n \in 1..N, \A k \in DOMAIN picks : picks[k].key # AllCitations[n].key
               PROVE  \E m \in T : AllCitations[m].key = AllCitations[n].key
    OBVIOUS
  <2> DEFINE keys == [k \in 1..N |-> AllCitations[k].key]
  <2>1. n \in Nat \ {0}
    BY <1>1
  <2> HIDE DEF T, keys
  <2>2. PICK m \in 1..n : keys[m] = keys[n] /\ \A i \in 1..(m - 1) : keys[i] # keys[m]
    BY <2>1, FirstExists
  <2>3. m \in 1..N /\ \A i \in 1..(m - 1) : i \in 1..N
    BY <1>1
  <2>4. AllCitations[m].key = AllCitations[n].key /\ \A i \in 1..(m - 1) : AllCitations[i].key # AllCitations[m].key
    BY <2>2, <2>3 DEF keys
  <2>5. m \in T
    BY <1>1, <2>3, <2>4 DEF T
  <2>6. QED
    BY <2>4, <2>5
<1> HIDE DEF S, T, left, N
<1>14. DOMAIN picks = 1..Cardinality(S) /\ \A k \in 1..Cardinality(S) :
         /\ picks[k] = [AllCitations[chosen[k]] EXCEPT !.number = chosen[k]]
         /\ picks[k].key = AllCitations[chosen[k]].key
         /\ chosen[k] \in 1..N
  <2>1. \A k \in 1..Cardinality(S) : chosen[k] \in 1..N /\ picks[k] = [AllCitations[chosen[k]] EXCEPT !.number = chosen[k]]
    BY <1>6, <1>8, <1>10
  <2>2. ASSUME NEW k \in 1..Cardinality(S) PROVE picks[k].key = AllCitations[chosen[k]].key
    <3>1. DOMAIN AllCitations[chosen[k]] = {"evidence", "key", "number"}
      BY <1>2, <2>1
    <3>2. picks[k] = [AllCitations[chosen[k]] EXCEPT !.number = chosen[k]]
      BY <2>1
    <3>3. QED
      BY <3>1, <3>2
  <2>3. QED
    BY <1>8, <1>10, <2>1, <2>2
<1>15. /\ DOMAIN cited = 1..(Cardinality(S) + Cardinality(T))
       /\ \A k \in 1..Cardinality(S) : cited[k] = picks[k]
       /\ \A k \in 1..Cardinality(T) : cited[Cardinality(S) + k] = left[k]
  <2> DEFINE U == {picks[k] : k \in 1..Cardinality(S)} \cup {left[k] : k \in 1..Cardinality(T)}
  <2>1. picks = [k \in 1..Cardinality(S) |-> picks[k]] /\ left = [k \in 1..Cardinality(T) |-> left[k]]
    BY <1>8, <1>9, <1>10 DEF left, Picked
  <2>2. picks \in [1..Cardinality(S) -> U] /\ left \in [1..Cardinality(T) -> U]
    BY <2>1
  <2> HIDE DEF U
  <2>3. picks \in Seq(U) /\ left \in Seq(U) /\ Len(picks) = Cardinality(S) /\ Len(left) = Cardinality(T)
    BY <1>8, <1>9, <2>2
  <2>4. /\ cited \in Seq(U) /\ Len(cited) = Cardinality(S) + Cardinality(T)
        /\ \A i \in 1..(Cardinality(S) + Cardinality(T)) :
             cited[i] = IF i <= Cardinality(S) THEN picks[i] ELSE left[i - Cardinality(S)]
    <3>1. picks \in Seq(U) /\ left \in Seq(U)
      BY <2>3
    <3>2. /\ picks \o left \in Seq(U) /\ Len(picks \o left) = Len(picks) + Len(left)
          /\ \A i \in 1..(Len(picks) + Len(left)) :
               (picks \o left)[i] = IF i <= Len(picks) THEN picks[i] ELSE left[i - Len(picks)]
      BY <3>1, ConcatProperties
    <3>3. QED
      BY <1>11, <2>3, <3>2
  <2>5. DOMAIN cited = 1..(Cardinality(S) + Cardinality(T))
    BY <2>4
  <2>6. \A k \in 1..Cardinality(S) : k \in 1..(Cardinality(S) + Cardinality(T)) /\ k <= Cardinality(S)
    BY <1>8, <1>9
  <2>7. \A k \in 1..Cardinality(T) :
          /\ Cardinality(S) + k \in 1..(Cardinality(S) + Cardinality(T))
          /\ ~(Cardinality(S) + k <= Cardinality(S)) /\ (Cardinality(S) + k) - Cardinality(S) = k
    BY <1>8, <1>9
  <2>8. QED
    BY <2>4, <2>5, <2>6, <2>7
<1>16. DOMAIN rest = 1..Cardinality(T) /\ \A k \in 1..Cardinality(T) : rest[k] \in T /\ left[k] = AllCitations[rest[k]]
  BY <1>9
<1>17. \A n \in T : \E k \in 1..Cardinality(T) : rest[k] = n
  BY <1>9
<1>18. \A k, l \in 1..Cardinality(T) : rest[k] = rest[l] => k = l
  BY <1>9
<1> HIDE DEF rest
<1>19. Len(chosen) = Cardinality(S) /\ Len(rest) = Cardinality(T)
  BY <1>8, <1>9, <1>16
<1>20. \A k, l \in DOMAIN chosen : chosen[k] = chosen[l] => k = l
  <2> SUFFICES ASSUME NEW k \in 1..Cardinality(S), NEW l \in 1..Cardinality(S), chosen[k] = chosen[l] PROVE k = l
    BY <1>8
  <2>1. Nth(S, k) \in S /\ Nth(S, l) \in S /\ numbers[Nth(S, k)] = numbers[Nth(S, l)] /\ Nth(S, k) \in Nat \ {0} /\ Nth(S, l) \in Nat \ {0}
    BY <1>4, <1>8
  <2>2. Nth(S, k) \notin 1..(Nth(S, l) - 1) /\ Nth(S, l) \notin 1..(Nth(S, k) - 1)
    BY <1>6, <2>1
  <2>3. Nth(S, k) = Nth(S, l)
    BY <2>1, <2>2
  <2>4. QED
    BY <1>8, <2>3
<1>21. \A k, l \in DOMAIN rest : AllCitations[rest[k]].key = AllCitations[rest[l]].key => k = l
  <2> SUFFICES ASSUME NEW k \in 1..Cardinality(T), NEW l \in 1..Cardinality(T),
                      AllCitations[rest[k]].key = AllCitations[rest[l]].key
               PROVE  k = l
    BY <1>16
  <2>1. rest[k] \in T /\ rest[l] \in T /\ rest[k] \in Nat \ {0} /\ rest[l] \in Nat \ {0}
    <3>1. rest[k] \in T /\ rest[l] \in T
      BY <1>16
    <3>2. \A n \in T : n \in Nat \ {0}
      BY <1>1, <1>5
    <3>3. QED
      BY <3>1, <3>2
  <2>2. rest[k] \notin 1..(rest[l] - 1) /\ rest[l] \notin 1..(rest[k] - 1)
    BY <1>12, <2>1
  <2>3. rest[k] = rest[l]
    BY <2>1, <2>2
  <2>4. QED
    BY <1>18, <2>3
<1>22. \A k \in DOMAIN chosen : chosen[k] \in DOMAIN AllCitations /\ \E h \in DOMAIN numbers : numbers[h] = chosen[k]
  BY <1>1, <1>3, <1>4, <1>8, <1>14
<1>23. \A h \in DOMAIN numbers : numbers[h] \in DOMAIN AllCitations => \E k \in DOMAIN chosen : chosen[k] = numbers[h]
  BY <1>1, <1>7, <1>8
<1>24. \A k \in DOMAIN rest : /\ rest[k] \in DOMAIN AllCitations
                             /\ \A l \in DOMAIN chosen : AllCitations[chosen[l]].key # AllCitations[rest[k]].key
  BY <1>1, <1>8, <1>12, <1>14, <1>16
<1>25. ASSUME NEW n \in DOMAIN AllCitations
       PROVE  \/ \E l \in DOMAIN chosen : AllCitations[chosen[l]].key = AllCitations[n].key
              \/ \E k \in DOMAIN rest : AllCitations[rest[k]].key = AllCitations[n].key
  <2>1. CASE \E l \in DOMAIN picks : picks[l].key = AllCitations[n].key
    BY <1>8, <1>14, <2>1
  <2>2. CASE \A l \in DOMAIN picks : picks[l].key # AllCitations[n].key
    BY <1>1, <1>13, <1>16, <1>17, <2>2
  <2>3. QED
    BY <2>1, <2>2
<1>26. /\ \A k \in 1..Len(chosen) : cited[k] = [AllCitations[chosen[k]] EXCEPT !.number = chosen[k]]
       /\ \A k \in 1..Len(rest) : cited[Len(chosen) + k] = AllCitations[rest[k]]
  <2>1. \A k \in 1..Cardinality(S) : cited[k] = [AllCitations[chosen[k]] EXCEPT !.number = chosen[k]]
    BY <1>14, <1>15
  <2>2. \A k \in 1..Cardinality(T) : cited[Cardinality(S) + k] = AllCitations[rest[k]]
    BY <1>15, <1>16
  <2>3. QED
    BY <1>19, <2>1, <2>2
<1>27. Len(chosen) \in Nat /\ DOMAIN chosen = 1..Len(chosen) /\ Len(rest) \in Nat /\ DOMAIN rest = 1..Len(rest)
  BY <1>8, <1>9, <1>16, <1>19
<1>28. DOMAIN cited = 1..(Len(chosen) + Len(rest))
  BY <1>15, <1>19
<1>29. Listing(numbers, cited, chosen, rest)
  BY <1>20, <1>21, <1>22, <1>23, <1>24, <1>25, <1>26, <1>27, <1>28 DEF Listing
<1>30. QED
  BY <1>29

\* Such citations, beside the numbers they were chosen by and the citations of the prompt,
\* are true to the evidence.
WellCited(shownCites, numbers, cited) ==
  LET listed == {cited[k] : k \in DOMAIN cited}
      keys == UNION {{Cites(i)[j] : j \in DOMAIN Cites(i)} : i \in DOMAIN evidence}
  IN /\ {c \in listed : c.number # 0}
          = {p \in shownCites : \E k \in DOMAIN numbers : numbers[k] = p.number}
     /\ keys = {c.key : c \in listed}
     /\ \A k, l \in DOMAIN cited : k # l =>
          /\ cited[k] # cited[l]
          /\ cited[k].number = 0 => cited[k].key # cited[l].key

\* The listed citations are those the prompt showed under the numbers, and the rest of the evidence.
LEMMA ListingTruthful ==
  ASSUME evidence \in SearchResults, NEW numbers, NEW cited, NEW chosen, NEW rest, Listing(numbers, cited, chosen, rest)
  PROVE  WellCited(Numbered, numbers, cited)
<1> DEFINE listed == {cited[k] : k \in DOMAIN cited}
           keys == UNION {{Cites(i)[j] : j \in DOMAIN Cites(i)} : i \in DOMAIN evidence}
           c == Len(chosen)
           r == Len(rest)
           shown(n) == [AllCitations[n] EXCEPT !.number = n]
<1>1. evidence \in SearchResults
  OBVIOUS
<1>2. /\ \A k \in 1..c : \E h \in DOMAIN numbers : numbers[h] = chosen[k]
      /\ \A h \in DOMAIN numbers : numbers[h] \in DOMAIN AllCitations => \E k \in 1..c : chosen[k] = numbers[h]
      /\ \A k, l \in 1..c : chosen[k] = chosen[l] => k = l
      /\ \A k \in 1..r : \A l \in 1..c : AllCitations[chosen[l]].key # AllCitations[rest[k]].key
      /\ \A k, l \in 1..r : AllCitations[rest[k]].key = AllCitations[rest[l]].key => k = l
      /\ \A n \in DOMAIN AllCitations :
           \/ \E l \in 1..c : AllCitations[chosen[l]].key = AllCitations[n].key
           \/ \E k \in 1..r : AllCitations[rest[k]].key = AllCitations[n].key
  BY DEF Listing
<1>3. /\ c \in Nat /\ r \in Nat /\ DOMAIN chosen = 1..c /\ DOMAIN rest = 1..r /\ DOMAIN cited = 1..(c + r)
      /\ \A k \in 1..c : cited[k] = shown(chosen[k]) /\ chosen[k] \in DOMAIN AllCitations
      /\ \A k \in 1..r : cited[c + k] = AllCitations[rest[k]] /\ rest[k] \in DOMAIN AllCitations
  BY DEF Listing
<1> HIDE DEF c, r, shown
<1>4. ASSUME NEW n \in DOMAIN AllCitations
      PROVE  /\ AllCitations[n] = [evidence |-> CitesInOrder[n][1], key |-> Cites(CitesInOrder[n][1])[CitesInOrder[n][2]], number |-> 0]
             /\ AllCitations[n].number = 0 /\ n \in Nat \ {0} /\ CitesInOrder[n] \in CitePlaces
             /\ AllCitations[n].key = Cites(CitesInOrder[n][1])[CitesInOrder[n][2]]
             /\ shown(n) \in Numbered
             /\ shown(n).number = n /\ shown(n).key = AllCitations[n].key
  <2>1. /\ AllCitations[n] = [evidence |-> CitesInOrder[n][1], key |-> Cites(CitesInOrder[n][1])[CitesInOrder[n][2]], number |-> 0]
        /\ CitesInOrder[n] \in CitePlaces /\ shown(n) \in Numbered
    BY <1>1, NumbersArePlaces DEF shown
  <2>2. n \in Nat \ {0}
    BY <1>1, NumbersArePlaces
  <2>3. shown(n).number = n /\ shown(n).key = AllCitations[n].key
    BY <2>1 DEF shown
  <2>4. QED
    BY <2>1, <2>2, <2>3
<1>5. \A k \in 1..c : cited[k] \in Numbered /\ cited[k].number = chosen[k] /\ cited[k].number # 0 /\ cited[k].key = AllCitations[chosen[k]].key
  BY <1>3, <1>4
<1>6. \A k \in 1..r : cited[c + k].number = 0 /\ cited[c + k].key = AllCitations[rest[k]].key
  BY <1>3, <1>4
<1>7. \A k \in DOMAIN cited : k \in 1..c \/ \E l \in 1..r : k = c + l
  <2> TAKE k \in DOMAIN cited
  <2>1. k \in 1..c \/ k - c \in 1..r
    BY <1>3
  <2>2. k = c + (k - c)
    BY <1>3
  <2>3. QED
    BY <2>1, <2>2
<1>8. \A k \in 1..c : k \in DOMAIN cited
  BY <1>3
<1>9. \A k \in 1..r : c + k \in DOMAIN cited
  BY <1>3
<1>10. {d \in listed : d.number # 0} = {p \in Numbered : \E k \in DOMAIN numbers : numbers[k] = p.number}
  <2>1. ASSUME NEW d \in listed, d.number # 0
        PROVE  d \in Numbered /\ \E k \in DOMAIN numbers : numbers[k] = d.number
    <3>1. PICK k \in DOMAIN cited : d = cited[k]
      OBVIOUS
    <3>2. k \in 1..c
      BY <1>6, <1>7, <2>1, <3>1
    <3>3. QED
      BY <1>2, <1>3, <1>5, <3>1, <3>2
  <2>2. ASSUME NEW p \in Numbered, NEW h \in DOMAIN numbers, numbers[h] = p.number
        PROVE  p \in listed /\ p.number # 0
    <3>1. PICK n \in DOMAIN AllCitations : p = shown(n) /\ p.number = n
      BY <1>1, NumbersArePlaces DEF shown
    <3>2. PICK k \in 1..c : chosen[k] = n
      BY <1>2, <2>2, <3>1
    <3>3. k \in 1..c /\ cited[k] = p
      BY <1>3, <3>1, <3>2
    <3>4. p \in listed
      BY <1>8, <3>3
    <3>5. QED
      BY <1>5, <3>3, <3>4
  <2>3. QED
    BY <2>1, <2>2
<1>11. keys = {d.key : d \in listed}
  <2>1. ASSUME NEW x \in keys PROVE \E d \in listed : d.key = x
    <3>1. PICK i \in DOMAIN evidence : \E j \in DOMAIN Cites(i) : x = Cites(i)[j]
      OBVIOUS
    <3>2. PICK j \in DOMAIN Cites(i) : x = Cites(i)[j]
      BY <3>1
    <3>3. <<i, j>> \in CitePlaces
      BY <1>1, PlacesOfCites
    <3>4. PICK n \in DOMAIN AllCitations : CitesInOrder[n] = <<i, j>>
      BY <1>1, <3>3, NumbersArePlaces
    <3>5. AllCitations[n].key = x
      BY <1>4, <3>2, <3>4
    <3>6. (\E l \in 1..c : AllCitations[chosen[l]].key = x) \/ (\E l \in 1..r : AllCitations[rest[l]].key = x)
      BY <1>2, <1>3, <3>5
    <3>7. \E k \in DOMAIN cited : cited[k].key = x
      BY <1>5, <1>6, <1>8, <1>9, <3>6
    <3>8. QED
      BY <3>7
  <2>2. ASSUME NEW d \in listed PROVE d.key \in keys
    <3>1. PICK k \in DOMAIN cited : d = cited[k]
      OBVIOUS
    <3>2. \E n \in DOMAIN AllCitations : d.key = AllCitations[n].key
      <4>1. CASE k \in 1..c
        BY <1>3, <1>5, <3>1, <4>1
      <4>2. CASE k \notin 1..c
        <5>1. PICK l \in 1..r : k = c + l
          BY <1>7, <4>2
        <5>2. QED
          BY <1>3, <1>6, <3>1, <5>1
      <4>3. QED
        BY <4>1, <4>2
    <3>3. PICK n \in DOMAIN AllCitations : d.key = AllCitations[n].key
      BY <3>2
    <3>4. PICK q \in CitePlaces : q = CitesInOrder[n] /\ d.key = Cites(q[1])[q[2]]
      BY <1>4, <3>3
    <3>5. q[1] \in DOMAIN evidence /\ q[2] \in DOMAIN Cites(q[1])
      BY <1>1, PlacesOfCites
    <3>6. QED
      BY <3>4, <3>5
  <2>3. QED
    BY <2>1, <2>2
<1>12. ASSUME NEW k \in DOMAIN cited, NEW l \in DOMAIN cited, k # l
       PROVE  cited[k] # cited[l] /\ (cited[k].number = 0 => cited[k].key # cited[l].key)
  <2>1. CASE k \in 1..c /\ l \in 1..c
    BY <1>2, <1>3, <1>5, <1>12, <2>1
  <2>2. CASE k \in 1..c /\ l \notin 1..c
    BY <1>5, <1>6, <1>7, <2>2
  <2>3. CASE k \notin 1..c /\ l \in 1..c
    <3>1. PICK m \in 1..r : k = c + m
      BY <1>7, <2>3
    <3>2. AllCitations[chosen[l]].key # AllCitations[rest[m]].key
      BY <1>2, <1>3, <2>3
    <3>3. QED
      BY <1>5, <1>6, <2>3, <3>1, <3>2
  <2>4. CASE k \notin 1..c /\ l \notin 1..c
    <3>1. PICK m \in 1..r : k = c + m
      BY <1>7, <2>4
    <3>2. PICK n \in 1..r : l = c + n
      BY <1>7, <2>4
    <3>3. AllCitations[rest[m]].key # AllCitations[rest[n]].key
      BY <1>2, <1>3, <1>12, <3>1, <3>2
    <3>4. QED
      BY <1>6, <3>1, <3>2, <3>3
  <2>5. QED
    BY <2>1, <2>2, <2>3, <2>4
<1>13. QED
  <2> HIDE DEF listed, keys
  <2>1. QED
    BY <1>10, <1>11, <1>12 DEF WellCited, listed, keys

\* The prompt and the reply are made of the same evidence, and of its citations in order.
CitesKept ==
  /\ evidence \in SearchResults
  /\ answerStep \in {"connecting", "streaming"} => prompt = Numbered
  /\ answerStep \in {"searched", "connecting", "streaming"} => reply.answer = <<>>
  /\ answerStep \in {"searched", "connecting", "streaming", "ended"}
  /\ answerStep = "searched" => prompt = {}
  /\ DOMAIN reply = {"answer", "reasoning", "chosen", "citations"}
  /\ answerStep # "ended" => reply.chosen = <<>> /\ reply.citations = <<>>
  /\ answerStep = "ended" /\ reply.answer # <<>> =>
       WellCited(prompt, reply.chosen, reply.citations)

\* Every step keeps what the prompt numbered and the reply cites.
LEMMA CitesStep == CitesKept /\ [AnswerNext]_answerVars => CitesKept'
<1> SUFFICES ASSUME CitesKept, [AnswerNext]_answerVars PROVE CitesKept'
  OBVIOUS
<1> USE DEF CitesKept
<1>1. evidence' = evidence
  BY DEF AnswerNext, answerVars, AnswerWithoutEvidence, BuildPrompt, Connect, Think, Write, FinishReason,
         TransportBreaks, AnswerFails, OutputInvalid, OutputValid, TakeEvent, ReaderLeaves, Prepared
<1>2. Numbered' = Numbered
  BY <1>1 DEF Numbered, CitesBefore, CitePlaces, Cites
<1>3. \A numbers, cited : WellCited(prompt, numbers, cited)' <=> WellCited(prompt', numbers, cited)
  BY <1>1 DEF WellCited, Cites
<1>4. ASSUME AnswerWithoutEvidence PROVE CitesKept'
  <2>1. evidence = <<>> /\ prompt' = {} /\ reply'.chosen = <<>> /\ reply'.citations = <<>> /\ answerStep' = "ended"
        /\ DOMAIN reply' = {"answer", "reasoning", "chosen", "citations"}
    BY <1>4 DEF AnswerWithoutEvidence, Prepared
  <2>2. WellCited({}, <<>>, <<>>)
    BY <2>1 DEF WellCited
  <2>3. WellCited(prompt, reply.chosen, reply.citations)'
    BY <1>3, <2>1, <2>2
  <2>4. QED
    BY <1>1, <2>1, <2>3
<1>5. ASSUME BuildPrompt PROVE CitesKept'
  BY <1>1, <1>2, <1>5 DEF BuildPrompt
<1>6. ASSUME UNCHANGED <<prompt, reply>>, answerStep \in {"connecting", "streaming"},
             answerStep' \in {"connecting", "streaming", "ended"}
      PROVE  CitesKept'
  BY <1>1, <1>2, <1>6
<1>7. ASSUME OutputValid PROVE CitesKept'
  <2>1. PICK n \in 0..MaxChosen : \E numbers \in [1..n -> 1..(Len(AllCitations) + 1)] :
          reply' = [answer |-> content, reasoning |-> thinking, chosen |-> numbers,
                    citations |-> WithFallback(SelectedCitations(numbers))]
    BY <1>7 DEF OutputValid
  <2>2. PICK numbers \in [1..n -> 1..(Len(AllCitations) + 1)] :
          reply' = [answer |-> content, reasoning |-> thinking, chosen |-> numbers,
                    citations |-> WithFallback(SelectedCitations(numbers))]
    BY <2>1
  <2>3. numbers \in Seq(Nat)
    <3>1. n \in Nat /\ Len(AllCitations) \in Nat
      BY NumbersArePlaces, AnswerAssumption
    <3>2. numbers \in [1..n -> Nat]
      BY <3>1
    <3>3. QED
      BY <3>1, <3>2
  <2>4. /\ reply'.chosen = numbers /\ reply'.citations = WithFallback(SelectedCitations(numbers))
        /\ DOMAIN reply' = {"answer", "reasoning", "chosen", "citations"}
    BY <2>2
  <2>5. answerStep = "streaming" /\ answerStep' = "ended" /\ prompt' = prompt
    BY <1>7 DEF OutputValid, Prepared
  <2>6. PICK chosen, rest : Listing(numbers, reply'.citations, chosen, rest)
    BY <2>3, <2>4, CitationsListed
  <2>7. WellCited(Numbered, numbers, reply'.citations)
    BY <2>6, ListingTruthful
  <2>8. WellCited(prompt, reply.chosen, reply.citations)'
    BY <1>3, <2>4, <2>5, <2>7
  <2>9. QED
    BY <1>1, <2>4, <2>5, <2>8
<1>8. ASSUME AskAgain, answerStep = "streaming", UNCHANGED <<prompt, reply>> PROVE CitesKept'
  BY <1>6, <1>8 DEF AskAgain, GiveUp
<1>9. ASSUME UNCHANGED <<prompt, reply, answerStep>> PROVE CitesKept'
  BY <1>1, <1>2, <1>3, <1>9
<1>10. ASSUME Connect PROVE CitesKept'
  BY <1>6, <1>10 DEF Connect, Prepared
<1>11. ASSUME Think \/ Write \/ FinishReason \/ TakeEvent \/ ReaderLeaves \/ UNCHANGED answerVars PROVE CitesKept'
  BY <1>9, <1>11 DEF Think, Write, FinishReason, TakeEvent, ReaderLeaves, answerVars, Prepared
<1>12. ASSUME TransportBreaks PROVE CitesKept'
  BY <1>6, <1>8, <1>12 DEF TransportBreaks, GiveUp, Prepared
<1>13. ASSUME AnswerFails PROVE CitesKept'
  BY <1>1, <1>13 DEF AnswerFails, GiveUp, Prepared
<1>14. ASSUME OutputInvalid PROVE CitesKept'
  BY <1>8, <1>14 DEF OutputInvalid, Prepared
<1>15. QED
  BY <1>4, <1>5, <1>7, <1>10, <1>11, <1>12, <1>13, <1>14 DEF AnswerNext

\* For any evidence, and whatever numbers the model gives, the reply cites what the prompt
\* showed under them, each once, and no citation of the evidence is lost or shown twice.
\* (_evidence_text, _all_citations, _selected_citations, _citations_with_evidence_fallback)
THEOREM CitationsTrueCorrect == AnswerSpec => []CitationsTrue
<1>1. AnswerInit => CitesKept
  BY DEF AnswerInit, CitesKept
<1>2. CitesKept => CitationsTrue
  BY DEF CitesKept, CitationsTrue, WellCited
<1>3. QED
  BY <1>1, <1>2, CitesStep, PTL DEF AnswerSpec
================================================================================
