------------------------ MODULE StepRequestQueueProofs ------------------------
(***************************************************************************)
(* What the operators of StepRequestQueue return, for every queue.         *)
(***************************************************************************)
EXTENDS StepRequestQueue, FiniteSetTheorems, WellFoundedInduction, TLAPS

\* Every non-empty set of natural numbers has a least element: the form of
\* induction the lemmas below use.
LEMMA LeastElement ==
    ASSUME NEW T \in SUBSET Nat, T # {}
    PROVE  \E x \in T : \A y \in T : x <= y
<1>1. PICK x \in T : \A y \in T : ~(<<y, x>> \in OpToRel(<, Nat))
      BY NatLessThanWellFounded, WFMin, Zenon
<1>2. \A y \in T : ~(y < x)
      BY <1>1 DEF OpToRel
<1> QED BY <1>2

\* The positions counted by Kept are finitely many.
LEMMA KeptFinite ==
    ASSUME NEW R, NEW q \in Seq(R), NEW S, NEW m \in 0..Len(q)
    PROVE  IsFiniteSet(Kept(q, S, m)) /\ Cardinality(Kept(q, S, m)) \in Nat
<1>1. IsFiniteSet(1..m)
      BY FS_Interval
<1>2. Kept(q, S, m) \in SUBSET (1..m)
      BY DEF Kept
<1>3. IsFiniteSet(Kept(q, S, m))
      BY <1>1, <1>2, FS_Subset
<1> QED BY <1>3, FS_CardinalityType

\* One more position adds one to the count exactly when its item is in S.
LEMMA KeptStep ==
    ASSUME NEW R, NEW q \in Seq(R), NEW S, NEW m \in 1..Len(q)
    PROVE  Cardinality(Kept(q, S, m)) =
             Cardinality(Kept(q, S, m - 1)) + (IF q[m] \in S THEN 1 ELSE 0)
<1>1. m - 1 \in 0..Len(q)
      OBVIOUS
<1>2. IsFiniteSet(Kept(q, S, m - 1)) /\ Cardinality(Kept(q, S, m - 1)) \in Nat
      BY <1>1, KeptFinite
<1>3. CASE q[m] \in S
  <2>1. Kept(q, S, m) = Kept(q, S, m - 1) \cup {m} /\ m \notin Kept(q, S, m - 1)
        BY <1>3 DEF Kept
  <2> QED BY <1>2, <1>3, <2>1, FS_AddElement
<1>4. CASE q[m] \notin S
  <2>1. Kept(q, S, m) = Kept(q, S, m - 1)
        BY <1>4 DEF Kept
  <2> QED BY <1>2, <1>4, <2>1
<1> QED BY <1>3, <1>4

LEMMA KeptNone ==
    ASSUME NEW q, NEW S
    PROVE  Cardinality(Kept(q, S, 0)) = 0
<1>1. Kept(q, S, 0) = {}
      BY DEF Kept
<1> QED BY <1>1, FS_EmptySet

\* The k-th kept item has a position.
LEMMA KeptWitness ==
    ASSUME NEW R, NEW q \in Seq(R), NEW S, NEW k \in 1..Cardinality(Kept(q, S, Len(q)))
    PROVE  \E i \in 1..Len(q) : q[i] \in S /\ Cardinality(Kept(q, S, i)) = k
<1> DEFINE c(m) == Cardinality(Kept(q, S, m))
           T    == {m \in 0..Len(q) : c(m) >= k}
<1>1. Len(q) \in Nat /\ c(Len(q)) \in Nat
      BY KeptFinite
<1>2. T \in SUBSET Nat /\ T # {}
      BY <1>1
<1>3. PICK m \in T : \A y \in T : m <= y
  <2> HIDE DEF T
  <2> QED BY <1>2, LeastElement
<1>4. m # 0
  <2>1. c(0) = 0
        BY KeptNone
  <2> QED BY <2>1, <1>1
<1>5. m \in 1..Len(q) /\ m - 1 \in 0..Len(q)
      BY <1>4, <1>1
<1>6. c(m - 1) \in Nat /\ c(m) \in Nat
      BY <1>5, KeptFinite
<1>7. c(m - 1) < k
      BY <1>1, <1>3, <1>5, <1>6
<1>8. c(m) = c(m - 1) + (IF q[m] \in S THEN 1 ELSE 0)
      BY <1>5, KeptStep
<1>9. q[m] \in S /\ c(m) = k
      BY <1>1, <1>6, <1>7, <1>8
<1> QED BY <1>5, <1>9

\* Keep returns a sequence of items of q that are in S.
LEMMA KeepType ==
    ASSUME NEW R, NEW q \in Seq(R), NEW S
    PROVE  Keep(q, S) \in Seq(R \cap S)
<1> DEFINE n == Cardinality(Kept(q, S, Len(q)))
           pos(k) == CHOOSE i \in 1..Len(q) : q[i] \in S /\ Cardinality(Kept(q, S, i)) = k
<1>1. n \in Nat
      BY KeptFinite
<1>2. ASSUME NEW k \in 1..n PROVE q[pos(k)] \in R \cap S
  <2>1. pos(k) \in 1..Len(q) /\ q[pos(k)] \in S
        BY KeptWitness
  <2> QED BY <2>1
<1>3. Keep(q, S) = [k \in 1..n |-> q[pos(k)]]
      BY DEF Keep
<1> HIDE DEF n, pos
<1> QED BY <1>1, <1>2, <1>3

\* What Keep returns is in particular a sequence over the same set.
LEMMA KeepSeq ==
    ASSUME NEW R, NEW q \in Seq(R), NEW S
    PROVE  Keep(q, S) \in Seq(R)
<1> DEFINE k == Keep(q, S)
<1>1. k \in Seq(R \cap S)
      BY KeepType
<1> HIDE DEF k
<1>2. k \in Seq(R)
      BY <1>1
<1> QED BY <1>2 DEF k

\* The count of kept positions grows with the prefix.
LEMMA KeptMonotone ==
    ASSUME NEW R, NEW q \in Seq(R), NEW S, NEW i \in 0..Len(q), NEW j \in 0..Len(q), i <= j
    PROVE  Cardinality(Kept(q, S, i)) <= Cardinality(Kept(q, S, j))
<1>1. IsFiniteSet(Kept(q, S, j))
      BY KeptFinite
<1>2. Kept(q, S, i) \in SUBSET Kept(q, S, j)
      BY DEF Kept
<1> QED BY <1>1, <1>2, FS_Subset

\* Keep preserves the order of the items: two positions of the result come from
\* two positions of the queue, in the same order.
LEMMA KeepOrder ==
    ASSUME NEW R, NEW q \in Seq(R), NEW S,
           NEW k \in 1..Len(Keep(q, S)), NEW l \in 1..Len(Keep(q, S)), k < l
    PROVE  \E i, j \in 1..Len(q) :
               i < j /\ Keep(q, S)[k] = q[i] /\ Keep(q, S)[l] = q[j]
<1> DEFINE n == Cardinality(Kept(q, S, Len(q)))
           pos(x) == CHOOSE i \in 1..Len(q) : q[i] \in S /\ Cardinality(Kept(q, S, i)) = x
<1>1. n \in Nat
      BY KeptFinite
<1>2. Keep(q, S) = [x \in 1..n |-> q[pos(x)]]
      BY DEF Keep
<1>3. k \in 1..n /\ l \in 1..n
      BY <1>1, <1>2
<1>4. /\ pos(k) \in 1..Len(q) /\ Cardinality(Kept(q, S, pos(k))) = k
      /\ pos(l) \in 1..Len(q) /\ Cardinality(Kept(q, S, pos(l))) = l
      BY <1>3, KeptWitness
<1>5. pos(l) <= pos(k) => l <= k
      BY <1>4, KeptMonotone
<1>6. Keep(q, S)[k] = q[pos(k)] /\ Keep(q, S)[l] = q[pos(l)]
      BY <1>2, <1>3
<1> HIDE DEF pos, n
<1>7. pos(k) < pos(l)
      BY <1>4, <1>5
<1> QED BY <1>4, <1>6, <1>7

\* Keep loses no item of S.
LEMMA KeepItems ==
    ASSUME NEW R, NEW q \in Seq(R), NEW S
    PROVE  Items(Keep(q, S)) = Items(q) \cap S
<1> DEFINE n == Cardinality(Kept(q, S, Len(q)))
           pos(x) == CHOOSE i \in 1..Len(q) : q[i] \in S /\ Cardinality(Kept(q, S, i)) = x
<1>1. n \in Nat
      BY KeptFinite
<1>2. Keep(q, S) = [x \in 1..n |-> q[pos(x)]]
      BY DEF Keep
<1>3. ASSUME NEW k \in 1..n PROVE pos(k) \in 1..Len(q) /\ q[pos(k)] \in S
      BY KeptWitness
<1>4. Items(Keep(q, S)) \subseteq Items(q) \cap S
  <2> HIDE DEF pos, n
  <2> QED BY <1>2, <1>3 DEF Items
<1>5. ASSUME NEW i \in 1..Len(q), q[i] \in S PROVE q[i] \in Items(Keep(q, S))
  <2> DEFINE k == Cardinality(Kept(q, S, i))
  <2>1. k = Cardinality(Kept(q, S, i - 1)) + 1 /\ Cardinality(Kept(q, S, i - 1)) \in Nat
        BY <1>5, KeptStep, KeptFinite
  <2>2. k <= n
        BY KeptMonotone
  <2>3. k \in 1..n
        BY <1>1, <2>1, <2>2
  <2>4. pos(k) \in 1..Len(q) /\ q[pos(k)] \in S /\ Cardinality(Kept(q, S, pos(k))) = k
        BY <2>3, KeptWitness
  <2>5. ASSUME NEW a \in 1..Len(q), NEW b \in 1..Len(q), a < b, q[b] \in S
        PROVE  Cardinality(Kept(q, S, a)) < Cardinality(Kept(q, S, b))
    <3>1. Cardinality(Kept(q, S, b)) = Cardinality(Kept(q, S, b - 1)) + 1
          BY <2>5, KeptStep
    <3>2. Cardinality(Kept(q, S, a)) <= Cardinality(Kept(q, S, b - 1))
          BY <2>5, KeptMonotone
    <3>3. Cardinality(Kept(q, S, a)) \in Nat /\ Cardinality(Kept(q, S, b - 1)) \in Nat
          BY KeptFinite
    <3> QED BY <3>1, <3>2, <3>3
  <2>6. pos(k) = i
    <3>1. ~(pos(k) < i)
          BY <1>5, <2>4, <2>5, <2>1
    <3>2. ~(i < pos(k))
          BY <2>4, <2>5, <2>1
    <3> HIDE DEF pos, k
    <3> QED BY <3>1, <3>2, <2>4
  <2>7. Keep(q, S)[k] = q[i] /\ k \in DOMAIN Keep(q, S)
        BY <1>2, <2>3, <2>6
  <2> QED BY <2>7 DEF Items
<1>6. Items(q) \cap S \subseteq Items(Keep(q, S))
      BY <1>5 DEF Items
<1> QED BY <1>4, <1>6

\* The driver of a non-empty queue is one of its items.
LEMMA DriverType ==
    ASSUME NEW R, NEW q \in Seq(R), q # << >>, NEW M
    PROVE  Driver(q, M) \in Items(q) /\ Driver(q, M) \in R
<1>1. Items(q) \subseteq R
      BY DEF Items
<1>2. CASE Items(q) \subseteq M
  <2>1. Head(q) \in Items(q)
        BY DEF Items
  <2> QED BY <1>1, <1>2, <2>1 DEF Driver
<1>3. CASE ~(Items(q) \subseteq M)
  <2> DEFINE rest == Keep(q, Items(q) \ M)
  <2>1. Items(rest) = Items(q) \ M
        BY KeepItems
  <2>2. rest \in Seq(R \cap (Items(q) \ M))
        BY KeepType
  <2>3. rest # << >>
        BY <1>3, <2>1 DEF Items
  <2>4. Head(rest) \in Items(q)
    <3> HIDE DEF rest
    <3> QED BY <2>2, <2>3
  <2> QED BY <1>1, <1>3, <2>4 DEF Driver
<1> QED BY <1>2, <1>3

\* A batch of a queue with a live request: typed, its driver not aborted.
LEMMA BatchType ==
    ASSUME NEW R, NEW q \in Seq(R), NEW M, NEW A, HasPendingRequests(q, A)
    PROVE  LET batch == TakeNextBatch(q, M, A)
           IN  /\ batch.driver \in Items(q) \ A /\ batch.driver \in R
               /\ batch.merged \in Seq(R) /\ Items(batch.merged) \subseteq Items(q) \ A
               /\ batch.rest \in Seq(R) /\ Items(batch.rest) \subseteq Items(q) \ A
<1> DEFINE live == Keep(q, Items(q) \ A)
           d    == Driver(live, M)
           m    == Merged(live, M)
           s    == Rest(live, M)
<1>1. Items(live) = Items(q) \ A
      BY KeepItems
<1>2. live \in Seq(R)
  <2>1. live \in Seq(R \cap (Items(q) \ A))
        BY KeepType
  <2> QED BY <2>1
<1>3. live # << >>
      BY <1>1 DEF HasPendingRequests, Items
<1> HIDE DEF live
<1>4. d \in Items(q) \ A /\ d \in R
      BY <1>1, <1>2, <1>3, DriverType
<1>5. m \in Seq(R) /\ Items(m) \subseteq Items(q) \ A
  <2>1. m \in Seq(R \cap (M \ {d}))
        BY <1>2, KeepType DEF Merged
  <2>2. Items(m) = Items(live) \cap (M \ {d})
        BY <1>2, KeepItems DEF Merged
  <2> QED BY <2>1, <2>2, <1>1
<1>6. s \in Seq(R) /\ Items(s) \subseteq Items(q) \ A
  <2>1. s \in Seq(R \cap (Items(live) \ (M \cup {d})))
        BY <1>2, KeepType DEF Rest
  <2>2. Items(s) = Items(live) \cap (Items(live) \ (M \cup {d}))
        BY <1>2, KeepItems DEF Rest
  <2> QED BY <2>1, <2>2, <1>1
<1>7. TakeNextBatch(q, M, A) = [driver |-> d, merged |-> m, rest |-> s]
      BY DEF TakeNextBatch, live
<1> HIDE DEF d, m, s
<1> QED BY <1>4, <1>5, <1>6, <1>7

===============================================================================
