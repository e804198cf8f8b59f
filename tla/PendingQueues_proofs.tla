------------------------ MODULE PendingQueues_proofs ------------------------
(***************************************************************************)
(* What the operations of PendingQueues preserve, for every set of         *)
(* request ids and for queues of every length.                             *)
(***************************************************************************)
EXTENDS PendingQueues, FiniteSetTheorems, SequenceTheorems, TLAPS

-----------------------------------------------------------------------------
(* Ranks: the survivors of a queue are numbered without gaps, in order.    *)

\* A set of positions of a queue is finite, and every rank in it is a
\* position of the result.
LEMMA RankType ==
    ASSUME NEW n \in Nat, NEW S \in SUBSET (1 .. n)
    PROVE  /\ IsFiniteSet(S)
           /\ Cardinality(S) \in Nat /\ Cardinality(S) <= n
           /\ \A i \in S : Rank(S, i) \in 1 .. Cardinality(S)
<1>1. IsFiniteSet(1 .. n) /\ Cardinality(1 .. n) = n
  BY FS_Interval
<1>2. IsFiniteSet(S) /\ Cardinality(S) <= n
  BY <1>1, FS_Subset
<1>3. Cardinality(S) \in Nat
  BY <1>2, FS_CardinalityType
<1>4. ASSUME NEW i \in S PROVE Rank(S, i) \in 1 .. Cardinality(S)
  <2> DEFINE U == {j \in S : j <= i}
  <2>1. IsFiniteSet(U) /\ Cardinality(U) <= Cardinality(S)
    BY <1>2, FS_Subset
  <2>2. Cardinality(U) \in Nat
    BY <2>1, FS_CardinalityType
  <2>3. U # {}
    OBVIOUS
  <2>4. Cardinality(U) # 0
    BY <2>1, <2>3, FS_EmptySet
  <2> QED
    BY <1>3, <2>1, <2>2, <2>4 DEF Rank
<1> QED
  BY <1>2, <1>3, <1>4

\* Ranks are in the order of the positions.
LEMMA RankOrder ==
    ASSUME NEW n \in Nat, NEW S \in SUBSET (1 .. n),
           NEW i \in S, NEW j \in S, i < j
    PROVE  Rank(S, i) < Rank(S, j)
<1> DEFINE U == {k \in S : k <= i}
           V == {k \in S : k <= j}
<1>1. IsFiniteSet(S)
  BY RankType
<1>2. IsFiniteSet(V)
  BY <1>1, FS_Subset
<1>3. U \in SUBSET V
  <2>1. S \subseteq Int
    OBVIOUS
  <2>2. ASSUME NEW k \in S, k <= i PROVE k <= j
    BY <2>1, <2>2
  <2> QED
    BY <2>2
<1>4. U # V
  <2>1. j \in V /\ j \notin U
    OBVIOUS
  <2> QED
    BY <2>1
<1>5. Cardinality(U) <= Cardinality(V) /\ Cardinality(V) # Cardinality(U)
  BY <1>2, <1>3, <1>4, FS_Subset
<1>6. Cardinality(U) \in Nat /\ Cardinality(V) \in Nat
  BY <1>2, <1>3, FS_Subset, FS_CardinalityType
<1> QED
  BY <1>5, <1>6 DEF Rank

\* Every number up to the cardinality is the rank of a survivor.
LEMMA RankOnto ==
    ASSUME NEW n \in Nat, NEW S \in SUBSET (1 .. n)
    PROVE  \A k \in 1 .. Cardinality(S) : \E i \in S : Rank(S, i) = k
<1> DEFINE N == 1 .. Cardinality(S)
           f == [i \in S |-> Rank(S, i)]
<1>1. IsFiniteSet(S) /\ Cardinality(S) \in Nat
  BY RankType
<1>2. IsFiniteSet(N) /\ Cardinality(N) = Cardinality(S)
  BY <1>1, FS_Interval
<1>3. f \in [S -> N]
  BY RankType
<1>4. ASSUME NEW i \in S, NEW j \in S, f[i] = f[j] PROVE i = j
  <2>1. i \in Int /\ j \in Int
    OBVIOUS
  <2>2. Rank(S, i) \in N /\ Rank(S, j) \in N
    BY RankType
  <2>3. Rank(S, i) = Rank(S, j) /\ Rank(S, i) \in Int
    BY <1>1, <1>4, <2>2
  <2>4. ASSUME i < j PROVE FALSE
    <3>1. Rank(S, i) < Rank(S, j)
      BY <2>4, RankOrder
    <3> QED
      BY <2>3, <3>1
  <2>5. ASSUME j < i PROVE FALSE
    <3>1. Rank(S, j) < Rank(S, i)
      BY <2>5, RankOrder
    <3> QED
      BY <2>3, <3>1
  <2> QED
    BY <2>1, <2>4, <2>5
<1>5. f \in Injection(S, N)
  BY <1>3, <1>4 DEF Injection, IsInjective
<1>6. f \in Surjection(S, N)
  BY <1>2, <1>5, FS_Injection
<1> QED
  BY <1>6 DEF Surjection

-----------------------------------------------------------------------------
(* Sequences given by their elements.                                      *)

\* A function on 1 .. n is a sequence of length n.
LEMMA SeqOfFunction ==
    ASSUME NEW S, NEW n \in Nat, NEW f \in [1 .. n -> S]
    PROVE  f \in Seq(S) /\ Len(f) = n
<1>1. f \in Seq(S)
  BY SeqDef
<1>2. Len(f) \in Nat /\ 1 .. n = 1 .. Len(f)
  <2>1. DOMAIN f = 1 .. Len(f) /\ Len(f) \in Nat
    BY <1>1, LenProperties
  <2>2. DOMAIN f = 1 .. n
    OBVIOUS
  <2> QED
    BY <2>1, <2>2
<1>3. ASSUME Len(f) < n PROVE FALSE
  <2>1. n \in 1 .. n /\ n \notin 1 .. Len(f)
    BY <1>2, <1>3
  <2> QED
    BY <1>2, <2>1
<1>4. ASSUME n < Len(f) PROVE FALSE
  <2>1. Len(f) \in 1 .. Len(f) /\ Len(f) \notin 1 .. n
    BY <1>2, <1>4
  <2> QED
    BY <1>2, <2>1
<1> QED
  BY <1>1, <1>2, <1>3, <1>4

-----------------------------------------------------------------------------
(* claim and remove: Kept(q, ids) is the subsequence of q without ids.     *)

\* The survivors of a claim or a removal are the items of the queue with
\* other ids, all of them, in the order they had.
LEMMA KeptIsSubsequence ==
    ASSUME NEW q \in Seq(Item), NEW ids
    PROVE  /\ Kept(q, ids) \in Seq(Item)
           /\ Len(Kept(q, ids)) <= Len(q)
           /\ \E e \in [1 .. Len(Kept(q, ids)) -> 1 .. Len(q)] :
                /\ \A k \in 1 .. Len(Kept(q, ids)) :
                      /\ Kept(q, ids)[k] = q[e[k]]
                      /\ q[e[k]].request_id \notin ids
                /\ \A k, l \in 1 .. Len(Kept(q, ids)) : k < l => e[k] < e[l]
                /\ \A i \in 1 .. Len(q) : q[i].request_id \notin ids =>
                      \E k \in 1 .. Len(Kept(q, ids)) : e[k] = i
<1> DEFINE S == {i \in DOMAIN q : q[i].request_id \notin ids}
           n == Cardinality(S)
<1>1. Len(q) \in Nat /\ DOMAIN q = 1 .. Len(q)
  BY LenProperties
<1>2. S \in SUBSET (1 .. Len(q))
  BY <1>1
<1>3. /\ \A i \in S : q[i] \in Item /\ q[i].request_id \notin ids
      /\ \A i \in 1 .. Len(q) : q[i].request_id \notin ids => i \in S
  BY <1>1, ElementOfSeq
<1>4. n \in Nat /\ n <= Len(q)
  BY <1>1, <1>2, RankType
<1>5. \A i, j \in S : i < j => Rank(S, i) < Rank(S, j)
  BY <1>1, <1>2, RankOrder
<1>5a. \A i \in S : i \in Int
  BY <1>1, <1>2
<1>6. \A i \in S : Rank(S, i) \in 1 .. n
  BY <1>1, <1>2, RankType
<1>7. PICK e \in [1 .. n -> S] :
         /\ \A k \in 1 .. n : Rank(S, e[k]) = k
         /\ Kept(q, ids) = [k \in 1 .. n |-> q[e[k]]]
  <2> DEFINE g == [k \in 1 .. n |-> CHOOSE i \in S : Rank(S, i) = k]
  <2>1. \A k \in 1 .. n : \E i \in S : Rank(S, i) = k
    BY <1>1, <1>2, RankOnto
  <2>2. \A k \in 1 .. n : g[k] \in S /\ Rank(S, g[k]) = k
    BY <2>1
  <2>3. Kept(q, ids) = [k \in 1 .. n |-> q[g[k]]]
    BY DEF Kept
  <2>4. g \in [1 .. n -> S]
    BY <2>2
  <2> HIDE DEF g, n, S
  <2> QED
    BY <2>2, <2>3, <2>4
<1> HIDE DEF n, S
<1>8. \A i, j \in S : Rank(S, i) = Rank(S, j) => i = j
  BY <1>1, <1>2, <1>4, <1>5, <1>6
<1>9. Kept(q, ids) \in Seq(Item) /\ Len(Kept(q, ids)) = n
  <2>1. Kept(q, ids) \in [1 .. n -> Item]
    BY <1>3, <1>7
  <2> QED
    BY <1>4, <2>1, SeqOfFunction
<1>10. ASSUME NEW k \in 1 .. n, NEW l \in 1 .. n, k < l PROVE e[k] < e[l]
  <2>1. e[k] \in S /\ e[l] \in S /\ Rank(S, e[k]) = k /\ Rank(S, e[l]) = l
    BY <1>7
  <2>2. e[k] \in Int /\ e[l] \in Int
    BY <1>5a, <2>1
  <2>3. e[k] # e[l]
    BY <1>10, <2>1
  <2>4. ~(e[l] < e[k])
    BY <1>5, <1>10, <2>1
  <2> QED
    BY <2>2, <2>3, <2>4
<1>11. ASSUME NEW i \in S PROVE \E k \in 1 .. n : e[k] = i
  <2>1. Rank(S, i) \in 1 .. n
    BY <1>6
  <2>2. e[Rank(S, i)] \in S /\ Rank(S, e[Rank(S, i)]) = Rank(S, i)
    BY <1>7, <2>1
  <2> QED
    BY <1>8, <2>1, <2>2
<1>12. e \in [1 .. Len(Kept(q, ids)) -> 1 .. Len(q)]
  BY <1>2, <1>7, <1>9
<1>13. \A k \in 1 .. Len(Kept(q, ids)) :
          Kept(q, ids)[k] = q[e[k]] /\ q[e[k]].request_id \notin ids
  BY <1>3, <1>7, <1>9
<1>14. \A i \in 1 .. Len(q) : q[i].request_id \notin ids =>
          \E k \in 1 .. Len(Kept(q, ids)) : e[k] = i
  BY <1>3, <1>9, <1>11
<1>15. \A k, l \in 1 .. Len(Kept(q, ids)) : k < l => e[k] < e[l]
  BY <1>9, <1>10
<1>16. Kept(q, ids) \in Seq(Item) /\ Len(Kept(q, ids)) <= Len(q)
  BY <1>4, <1>9
<1> QED
  BY <1>12, <1>13, <1>14, <1>15, <1>16

-----------------------------------------------------------------------------
(* promote: Inserted(q, item) puts the item where its sequence belongs.    *)

\* A set of positions that is closed downwards is 1 .. its cardinality.
LEMMA InitialSegment ==
    ASSUME NEW n \in Nat, NEW D \in SUBSET (1 .. n),
           \A i \in D : \A j \in 1 .. n : j < i => j \in D
    PROVE  D = 1 .. Cardinality(D)
<1> DEFINE c == Cardinality(D)
<1>1. IsFiniteSet(D) /\ c \in Nat /\ c <= n
  BY RankType
<1>2. ASSUME NEW i \in D PROVE i \in 1 .. c
  <2>1. i \in 1 .. n /\ 1 .. i \subseteq D
    OBVIOUS
  <2>2. Cardinality(1 .. i) = i
    BY <2>1, FS_Interval
  <2>3. i <= c
    BY <1>1, <2>1, <2>2, FS_Subset
  <2> QED
    BY <1>1, <2>1, <2>3
<1>3. IsFiniteSet(1 .. c) /\ Cardinality(1 .. c) = c
  BY <1>1, FS_Interval
<1>4. D \in SUBSET (1 .. c)
  BY <1>2
<1> QED
  BY <1>3, <1>4, FS_Subset

\* The sort that follows an append moves the new item in front of the items
\* with higher sequences, and leaves the others as they were.
LEMMA InsertedElements ==
    ASSUME NEW q \in Seq(Item), InOrder(q), NEW item \in Item
    PROVE  /\ Inserted(q, item) \in Seq(Item)
           /\ Len(Inserted(q, item)) = Len(q) + 1
           /\ \E n \in 0 .. Len(q) :
                /\ \A i \in 1 .. n : /\ q[i].sequence < item.sequence
                                     /\ Inserted(q, item)[i] = q[i]
                /\ Inserted(q, item)[n + 1] = item
                /\ \A i \in n + 1 .. Len(q) :
                      /\ item.sequence <= q[i].sequence
                      /\ Inserted(q, item)[i + 1] = q[i]
<1> DEFINE D == {i \in DOMAIN q : q[i].sequence < item.sequence}
           n == Cardinality(D)
           a == SubSeq(q, 1, n)
           b == SubSeq(q, n + 1, Len(q))
<1>1. Len(q) \in Nat /\ DOMAIN q = 1 .. Len(q)
  BY LenProperties
<1>2. \A i \in 1 .. Len(q) : q[i] \in Item /\ q[i].sequence \in Int
  <2>1. \A i \in 1 .. Len(q) : q[i] \in Item
    BY ElementOfSeq
  <2> QED
    BY <2>1 DEF Item
<1>3. item.sequence \in Int
  BY DEF Item
<1>4. D \in SUBSET (1 .. Len(q))
  BY <1>1
<1>5. n \in Nat /\ n <= Len(q)
  BY <1>1, <1>4, RankType
<1>6. D = 1 .. n
  <2>1. ASSUME NEW i \in D, NEW j \in 1 .. Len(q), j < i PROVE j \in D
    <3>1. i \in 1 .. Len(q) /\ q[i].sequence < item.sequence
      BY <1>1
    <3>2. q[j].sequence <= q[i].sequence
      BY <1>1, <2>1, <3>1 DEF InOrder
    <3>3. q[i].sequence \in Int /\ q[j].sequence \in Int
      BY <1>2, <3>1
    <3>4. q[j].sequence < item.sequence
      BY <1>3, <3>1, <3>2, <3>3
    <3> QED
      BY <1>1, <3>4
  <2> HIDE DEF D
  <2> QED
    BY <1>1, <1>4, <2>1, InitialSegment
<1>7. /\ \A i \in 1 .. n : q[i].sequence < item.sequence
      /\ \A i \in n + 1 .. Len(q) : item.sequence <= q[i].sequence
  <2>1. \A i \in D : q[i].sequence < item.sequence
    OBVIOUS
  <2>2. \A i \in 1 .. Len(q) : i \notin D => ~(q[i].sequence < item.sequence)
    BY <1>1
  <2> HIDE DEF D, n
  <2>3. \A i \in n + 1 .. Len(q) : i \in 1 .. Len(q) /\ i \notin D
    BY <1>1, <1>5, <1>6
  <2> QED
    BY <1>2, <1>3, <1>6, <2>1, <2>2, <2>3
<1>8. Inserted(q, item) = (a \o <<item>>) \o b
  BY DEF Inserted
<1> HIDE DEF D, n
<1>9. a \in Seq(Item) /\ Len(a) = n /\ \A i \in 1 .. n : a[i] = q[i]
  <2>1. \A i \in 1 .. n : q[i] \in Item
    BY <1>1, <1>2, <1>5
  <2> QED
    BY <1>5, <2>1, SubSeqProperties
<1>10. /\ b \in Seq(Item) /\ Len(b) = Len(q) - n
       /\ \A i \in 1 .. Len(q) - n : b[i] = q[n + i]
  <2>1. \A i \in n + 1 .. Len(q) : q[i] \in Item
    BY <1>1, <1>2, <1>5
  <2>2. /\ b \in Seq(Item)
        /\ Len(b) = IF n + 1 <= Len(q) THEN Len(q) - (n + 1) + 1 ELSE 0
        /\ \A i \in 1 .. Len(q) - (n + 1) + 1 : b[i] = q[n + 1 + i - 1]
    BY <1>1, <1>5, <2>1, SubSeqProperties
  <2> HIDE DEF a, b
  <2>3. Len(b) = Len(q) - n
    <3>1. CASE n < Len(q)
      <4>1. n + 1 <= Len(q) /\ Len(q) - (n + 1) + 1 = Len(q) - n
        BY <1>1, <1>5, <3>1
      <4> QED
        BY <2>2, <4>1
    <3>2. CASE n = Len(q)
      <4>1. ~(n + 1 <= Len(q)) /\ Len(q) - n = 0
        BY <1>1, <3>2
      <4> QED
        BY <2>2, <4>1
    <3>3. \A x, y \in Nat : x <= y => x < y \/ x = y
      OBVIOUS
    <3>4. n < Len(q) \/ n = Len(q)
      BY <1>1, <1>5, <3>3
    <3> QED
      BY <3>1, <3>2, <3>4
  <2>4. ASSUME NEW i \in 1 .. Len(q) - n PROVE b[i] = q[n + i]
    <3>1. i \in 1 .. Len(q) - (n + 1) + 1 /\ n + 1 + i - 1 = n + i
      BY <1>1, <1>5
    <3> QED
      BY <2>2, <3>1
  <2> QED
    BY <2>2, <2>3, <2>4
<1> HIDE DEF a, b
<1>11. <<item>> \in Seq(Item) /\ Len(<<item>>) = 1 /\ <<item>>[1] = item
  OBVIOUS
<1> DEFINE c == a \o <<item>>
<1>12. /\ c \in Seq(Item) /\ Len(c) = n + 1 /\ c[n + 1] = item
       /\ \A i \in 1 .. n : c[i] = q[i]
  <2>1. /\ c \in Seq(Item) /\ Len(c) = n + 1
        /\ \A i \in 1 .. n + 1 : c[i] = IF i <= n THEN a[i] ELSE <<item>>[i - n]
    BY <1>9, <1>11, ConcatProperties
  <2> HIDE DEF c
  <2> QED
    BY <1>5, <1>9, <1>11, <2>1
<1> HIDE DEF c
<1>13. /\ c \o b \in Seq(Item) /\ Len(c \o b) = Len(q) + 1
       /\ \A i \in 1 .. Len(q) + 1 :
             (c \o b)[i] = IF i <= n + 1 THEN c[i] ELSE b[i - (n + 1)]
  <2>1. /\ c \o b \in Seq(Item) /\ Len(c \o b) = Len(c) + Len(b)
        /\ \A i \in 1 .. Len(c) + Len(b) :
              (c \o b)[i] = IF i <= Len(c) THEN c[i] ELSE b[i - Len(c)]
    BY <1>10, <1>12, ConcatProperties
  <2> QED
    BY <1>1, <1>5, <1>10, <1>12, <2>1
<1>14. Inserted(q, item) = c \o b
  BY <1>8 DEF c
<1>15. /\ \A i \in 1 .. n : Inserted(q, item)[i] = q[i]
       /\ Inserted(q, item)[n + 1] = item
  BY <1>1, <1>5, <1>12, <1>13, <1>14
<1>16. ASSUME NEW i \in n + 1 .. Len(q) PROVE Inserted(q, item)[i + 1] = q[i]
  <2>1. i + 1 \in 1 .. Len(q) + 1 /\ ~(i + 1 <= n + 1) /\ (i + 1) - (n + 1) = i - n
    BY <1>1, <1>5
  <2>2. i - n \in 1 .. Len(q) - n /\ n + (i - n) = i
    BY <1>1, <1>5
  <2> QED
    BY <1>10, <1>13, <1>14, <2>1, <2>2
<1>17. n \in 0 .. Len(q)
  BY <1>1, <1>5
<1> QED
  BY <1>7, <1>13, <1>14, <1>15, <1>16, <1>17

-----------------------------------------------------------------------------
(* What the operations preserve, queue by queue.                           *)

\* Two items of an Inbox that are not the same item.
Differ(x, y) == x.request_id # y.request_id /\ x.sequence # y.sequence

\* The uniqueness of validate(), within one queue and between two.
Distinct(q) == \A i, j \in 1 .. Len(q) : i # j => Differ(q[i], q[j])
Apart(p, q) == \A i \in 1 .. Len(p), j \in 1 .. Len(q) : Differ(p[i], q[j])

Below(q, n) == \A i \in 1 .. Len(q) : q[i].sequence < n

\* A well-formed Inbox, position by position.
Sound(box) ==
    /\ box \in Inbox
    /\ Distinct(box.next_turn) /\ InOrder(box.next_turn)
    /\ Distinct(box.next_step) /\ InOrder(box.next_step)
    /\ Apart(box.next_turn, box.next_step)
    /\ Below(box.next_turn, box.next_sequence)
    /\ Below(box.next_step, box.next_sequence)

\* Every survivor is an item of the queue with another id.
LEMMA KeptElements ==
    ASSUME NEW q \in Seq(Item), NEW ids
    PROVE  \A k \in 1 .. Len(Kept(q, ids)) : \E i \in 1 .. Len(q) :
              Kept(q, ids)[k] = q[i] /\ q[i].request_id \notin ids
BY KeptIsSubsequence

\* Taking items out keeps the queue unique and in order.
LEMMA KeptSound ==
    ASSUME NEW q \in Seq(Item), NEW ids, Distinct(q), InOrder(q)
    PROVE  Distinct(Kept(q, ids)) /\ InOrder(Kept(q, ids))
<1> DEFINE K == Kept(q, ids)
<1>1. K \in Seq(Item)
  BY KeptIsSubsequence
<1>2. PICK e \in [1 .. Len(K) -> 1 .. Len(q)] :
         /\ \A k \in 1 .. Len(K) : K[k] = q[e[k]]
         /\ \A k, l \in 1 .. Len(K) : k < l => e[k] < e[l]
  BY KeptIsSubsequence
<1> HIDE DEF K
<1>3. Len(K) \in Nat /\ DOMAIN K = 1 .. Len(K) /\ DOMAIN q = 1 .. Len(q)
      /\ Len(q) \in Nat
  BY <1>1, LenProperties
<1>4. ASSUME NEW k \in 1 .. Len(K), NEW l \in 1 .. Len(K), k < l
      PROVE  Differ(K[k], K[l]) /\ Differ(K[l], K[k])
             /\ K[k].sequence <= K[l].sequence
  <2>1. e[k] \in 1 .. Len(q) /\ e[l] \in 1 .. Len(q) /\ e[k] < e[l]
    BY <1>2, <1>4
  <2>2. e[k] # e[l]
    BY <1>3, <2>1
  <2>3. Differ(q[e[k]], q[e[l]]) /\ Differ(q[e[l]], q[e[k]])
    BY <2>1, <2>2 DEF Distinct
  <2>4. q[e[k]].sequence <= q[e[l]].sequence
    BY <1>3, <2>1 DEF InOrder
  <2> QED
    BY <1>2, <2>3, <2>4
<1>5. \A k, l \in 1 .. Len(K) : k # l => k < l \/ l < k
  BY <1>3
<1>6. Distinct(K)
  BY <1>4, <1>5 DEF Distinct
<1>7. InOrder(K)
  BY <1>3, <1>4 DEF InOrder
<1> QED
  BY <1>6, <1>7 DEF K

\* A queue that loses an item is shorter.
LEMMA KeptShorter ==
    ASSUME NEW q \in Seq(Item), NEW ids,
           NEW i \in 1 .. Len(q), q[i].request_id \in ids
    PROVE  Len(Kept(q, ids)) < Len(q)
<1> DEFINE S == {j \in DOMAIN q : q[j].request_id \notin ids}
<1>1. Len(q) \in Nat /\ DOMAIN q = 1 .. Len(q)
  BY LenProperties
<1>2. S \in SUBSET (1 .. Len(q)) /\ S # 1 .. Len(q)
  BY <1>1
<1>3. IsFiniteSet(1 .. Len(q)) /\ Cardinality(1 .. Len(q)) = Len(q)
  BY <1>1, FS_Interval
<1>4. Cardinality(S) <= Len(q) /\ Cardinality(S) # Len(q) /\ Cardinality(S) \in Nat
  BY <1>1, <1>2, <1>3, FS_Subset, RankType
<1>5. Len(Kept(q, ids)) = Cardinality(S)
  <2> DEFINE f == [k \in 1 .. Cardinality(S) |->
                      q[CHOOSE j \in S : Rank(S, j) = k]]
  <2>1. \A k \in 1 .. Cardinality(S) : \E j \in S : Rank(S, j) = k
    BY <1>1, <1>2, RankOnto
  <2>2. \A j \in S : q[j] \in Item
    BY <1>1, ElementOfSeq
  <2>3. \A k \in 1 .. Cardinality(S) :
           (CHOOSE j \in S : Rank(S, j) = k) \in S
    BY <2>1
  <2>4. f \in [1 .. Cardinality(S) -> Item]
    BY <2>2, <2>3
  <2>5. Kept(q, ids) = f
    BY DEF Kept
  <2> HIDE DEF f, S
  <2> QED
    BY <1>4, <2>4, <2>5, SeqOfFunction
<1> HIDE DEF S
<1> QED
  BY <1>1, <1>4, <1>5

\* A new item whose sequence is above all others goes last.
LEMMA AppendSound ==
    ASSUME NEW q \in Seq(Item), NEW item \in Item, Distinct(q), InOrder(q),
           Below(q, item.sequence),
           \A i \in 1 .. Len(q) : q[i].request_id # item.request_id
    PROVE  /\ Append(q, item) \in Seq(Item)
           /\ Len(Append(q, item)) = Len(q) + 1
           /\ \A i \in 1 .. Len(q) : Append(q, item)[i] = q[i]
           /\ Append(q, item)[Len(q) + 1] = item
           /\ Distinct(Append(q, item)) /\ InOrder(Append(q, item))
<1> DEFINE A == Append(q, item)
           m == Len(q)
<1>1. m \in Nat /\ DOMAIN q = 1 .. m
  BY LenProperties
<1>2. /\ A \in Seq(Item) /\ Len(A) = m + 1
      /\ \A i \in 1 .. m : A[i] = q[i]
      /\ A[m + 1] = item
  OBVIOUS
<1>3. DOMAIN A = 1 .. m + 1
  BY <1>2, LenProperties
<1>4. \A i \in 1 .. m : q[i] \in Item
  BY ElementOfSeq
<1>5. \A i \in 1 .. m : q[i].sequence \in Int
  BY <1>4 DEF Item
<1>6. item.sequence \in Int
  BY DEF Item
<1>7. \A i \in 1 .. m : /\ q[i].sequence < item.sequence
                         /\ q[i].request_id # item.request_id
  BY DEF Below
<1>8. \A i, j \in 1 .. m : i # j => Differ(q[i], q[j])
  BY DEF Distinct
<1>9. \A i, j \in 1 .. m : i < j => q[i].sequence <= q[j].sequence
  BY <1>1 DEF InOrder
<1> HIDE DEF A, m
<1>10. \A i \in 1 .. m + 1 : i \in 1 .. m \/ i = m + 1
  BY <1>1
<1>11. Distinct(A)
  <2> SUFFICES ASSUME NEW i \in 1 .. m + 1, NEW j \in 1 .. m + 1, i # j
               PROVE  Differ(A[i], A[j])
    BY <1>2 DEF Distinct
  <2>1. CASE i \in 1 .. m /\ j \in 1 .. m
    BY <1>2, <1>8, <2>1
  <2>2. CASE i \in 1 .. m /\ j = m + 1
    BY <1>2, <1>5, <1>6, <1>7, <2>2 DEF Differ
  <2>3. CASE i = m + 1 /\ j \in 1 .. m
    BY <1>2, <1>5, <1>6, <1>7, <2>3 DEF Differ
  <2> QED
    BY <1>10, <2>1, <2>2, <2>3
<1>12. InOrder(A)
  <2> SUFFICES ASSUME NEW i \in 1 .. m + 1, NEW j \in 1 .. m + 1, i < j
               PROVE  A[i].sequence <= A[j].sequence
    BY <1>3 DEF InOrder
  <2>1. i \in 1 .. m
    BY <1>1
  <2>2. CASE j \in 1 .. m
    BY <1>2, <1>9, <2>1, <2>2
  <2>3. CASE j = m + 1
    BY <1>2, <1>5, <1>6, <1>7, <2>1, <2>3
  <2> QED
    BY <1>10, <2>2, <2>3
<1> QED
  BY <1>2, <1>11, <1>12 DEF A, m

\* An item that is new to the queue is inserted without a clash.
LEMMA InsertedSound ==
    ASSUME NEW q \in Seq(Item), NEW item \in Item, Distinct(q), InOrder(q),
           \A i \in 1 .. Len(q) : Differ(q[i], item) /\ Differ(item, q[i])
    PROVE  /\ Inserted(q, item) \in Seq(Item)
           /\ Len(Inserted(q, item)) = Len(q) + 1
           /\ \A k \in 1 .. Len(q) + 1 :
                 \/ Inserted(q, item)[k] = item
                 \/ \E i \in 1 .. Len(q) : Inserted(q, item)[k] = q[i]
           /\ Distinct(Inserted(q, item)) /\ InOrder(Inserted(q, item))
<1> DEFINE A == Inserted(q, item)
           m == Len(q)
<1>1. m \in Nat /\ DOMAIN q = 1 .. m
  BY LenProperties
<1>2. A \in Seq(Item) /\ Len(A) = m + 1
  BY InsertedElements
<1>3. PICK n \in 0 .. m :
         /\ \A i \in 1 .. n : q[i].sequence < item.sequence /\ A[i] = q[i]
         /\ A[n + 1] = item
         /\ \A i \in n + 1 .. m : /\ item.sequence <= q[i].sequence
                                  /\ A[i + 1] = q[i]
  BY InsertedElements
<1>4. DOMAIN A = 1 .. m + 1
  BY <1>2, LenProperties
<1>5. \A i \in 1 .. m : q[i].sequence \in Int
  <2>1. \A i \in 1 .. m : q[i] \in Item
    BY ElementOfSeq
  <2> QED
    BY <2>1 DEF Item
<1>6. item.sequence \in Int
  BY DEF Item
<1>7. \A i, j \in 1 .. m : i # j => Differ(q[i], q[j])
  BY DEF Distinct
<1>8. \A i, j \in 1 .. m : i < j => q[i].sequence <= q[j].sequence
  BY <1>1 DEF InOrder
<1> HIDE DEF A, m
<1>9. ASSUME NEW k \in 1 .. m + 1
      PROVE  \/ k \in 1 .. n /\ k \in 1 .. m /\ A[k] = q[k]
             \/ k = n + 1 /\ A[k] = item
             \/ k - 1 \in n + 1 .. m /\ k - 1 \in 1 .. m /\ A[k] = q[k - 1]
  <2>1. CASE k <= n
    <3>1. k \in 1 .. n /\ k \in 1 .. m
      BY <1>1, <2>1
    <3> QED
      BY <1>3, <3>1
  <2>2. CASE k = n + 1
    BY <1>3, <2>2
  <2>3. CASE k > n + 1
    <3>1. k - 1 \in n + 1 .. m /\ k - 1 \in 1 .. m /\ (k - 1) + 1 = k
      BY <1>1, <2>3
    <3> QED
      BY <1>3, <3>1
  <2> QED
    BY <1>1, <2>1, <2>2, <2>3
<1>10. ASSUME NEW k \in 1 .. m + 1, NEW l \in 1 .. m + 1, k < l
       PROVE  /\ Differ(A[k], A[l]) /\ Differ(A[l], A[k])
              /\ A[k].sequence <= A[l].sequence
  <2>1. CASE k \in 1 .. n /\ l \in 1 .. n
    BY <1>1, <1>7, <1>8, <1>9, <1>10, <2>1
  <2>2. CASE k \in 1 .. n /\ l = n + 1
    <3>1. A[k] = q[k] /\ A[l] = item /\ k \in 1 .. m
      BY <1>1, <1>3, <2>2
    <3> QED
      BY <1>3, <1>5, <1>6, <2>2, <3>1 DEF m
  <2>3. CASE k \in 1 .. n /\ l - 1 \in n + 1 .. m
    <3>1. A[k] = q[k] /\ k \in 1 .. m
      BY <1>1, <1>3, <2>3
    <3>2. A[l] = q[l - 1] /\ l - 1 \in 1 .. m /\ k < l - 1
      BY <1>1, <1>9, <2>3
    <3> QED
      BY <1>1, <1>7, <1>8, <3>1, <3>2
  <2>4. CASE k = n + 1 /\ l - 1 \in n + 1 .. m
    <3>1. A[k] = item /\ A[l] = q[l - 1] /\ l - 1 \in 1 .. m
      BY <1>1, <1>9, <2>4
    <3> QED
      BY <1>3, <1>5, <1>6, <2>4, <3>1 DEF m
  <2>5. CASE k - 1 \in n + 1 .. m /\ l - 1 \in n + 1 .. m
    <3>1. A[k] = q[k - 1] /\ A[l] = q[l - 1]
      BY <1>1, <1>9, <2>5
    <3>2. k - 1 \in 1 .. m /\ l - 1 \in 1 .. m /\ k - 1 < l - 1
      BY <1>1, <1>10, <2>5
    <3> QED
      BY <1>1, <1>7, <1>8, <3>1, <3>2
  <2> QED
    BY <1>1, <1>9, <1>10, <2>1, <2>2, <2>3, <2>4, <2>5
<1>11. \A k, l \in 1 .. m + 1 : k # l => k < l \/ l < k
  BY <1>1
<1>12. Distinct(A)
  BY <1>2, <1>10, <1>11 DEF Distinct
<1>13. InOrder(A)
  BY <1>4, <1>10 DEF InOrder
<1>14. \A k \in 1 .. m + 1 : A[k] = item \/ \E i \in 1 .. m : A[k] = q[i]
  BY <1>9
<1> QED
  BY <1>2, <1>12, <1>13, <1>14 DEF A, m

\* An edit leaves ids and sequences alone.
LEMMA RewrittenElements ==
    ASSUME NEW q \in Seq(Item), NEW r
    PROVE  /\ Rewritten(q, r) \in Seq(Item)
           /\ Len(Rewritten(q, r)) = Len(q)
           /\ \A i \in 1 .. Len(q) :
                 /\ Rewritten(q, r)[i].request_id = q[i].request_id
                 /\ Rewritten(q, r)[i].sequence = q[i].sequence
<1> DEFINE W == Rewritten(q, r)
<1>1. Len(q) \in Nat /\ DOMAIN q = 1 .. Len(q)
  BY LenProperties
<1>2. \A i \in 1 .. Len(q) : q[i] \in Item
  BY ElementOfSeq
<1>3. ASSUME NEW i \in 1 .. Len(q)
      PROVE  /\ W[i] \in Item
             /\ W[i].request_id = q[i].request_id
             /\ W[i].sequence = q[i].sequence
  <2>1. W[i] = IF q[i].request_id = r THEN [q[i] EXCEPT !.edited = TRUE]
                                      ELSE q[i]
    BY <1>1 DEF Rewritten
  <2>2. q[i] \in Item
    BY <1>2
  <2> HIDE DEF W
  <2> QED
    BY <2>1, <2>2 DEF Item
<1>4. W \in [1 .. Len(q) -> Item]
  <2>1. W = [i \in 1 .. Len(q) |-> W[i]]
    BY <1>1 DEF Rewritten
  <2> HIDE DEF W
  <2> QED
    BY <1>3, <2>1
<1> HIDE DEF W
<1>5. W \in Seq(Item) /\ Len(W) = Len(q)
  BY <1>1, <1>4, SeqOfFunction
<1> QED
  BY <1>3, <1>5 DEF W

-----------------------------------------------------------------------------
(* What the operations preserve, for a whole Inbox.                        *)

\* validate() and the bound on the sequences, position by position.
LEMMA SoundIsWellFormed ==
    ASSUME NEW box \in Inbox
    PROVE  Sound(box) <=> WellFormed(box)
<1> DEFINE p == box.next_turn
           q == box.next_step
           all == p \o q
           n == box.next_sequence
<1>1. p \in Seq(Item) /\ q \in Seq(Item)
  BY DEF Inbox
<1>2. /\ Len(p) \in Nat /\ Len(q) \in Nat
      /\ DOMAIN p = 1 .. Len(p) /\ DOMAIN q = 1 .. Len(q)
  BY <1>1, LenProperties
<1>3. /\ all \in Seq(Item) /\ Len(all) = Len(p) + Len(q)
      /\ \A i \in 1 .. Len(p) + Len(q) :
            all[i] = IF i <= Len(p) THEN p[i] ELSE q[i - Len(p)]
  BY <1>1, ConcatProperties
<1>4. DOMAIN all = 1 .. Len(p) + Len(q)
  BY <1>3, LenProperties
<1>5. WellFormed(box) <=>
         /\ \A i, j \in DOMAIN all : i # j => Differ(all[i], all[j])
         /\ InOrder(p) /\ InOrder(q)
         /\ \A item \in Contents(p) \cup Contents(q) : item.sequence < n
  BY DEF WellFormed, Validate, Differ, Pending
<1>6. Sound(box) <=>
         /\ Distinct(p) /\ InOrder(p) /\ Distinct(q) /\ InOrder(q)
         /\ Apart(p, q) /\ Below(p, n) /\ Below(q, n)
  BY DEF Sound
<1>7. (\A item \in Contents(p) \cup Contents(q) : item.sequence < n)
         <=> Below(p, n) /\ Below(q, n)
  BY <1>2 DEF Contents, Below
<1> HIDE DEF p, q, all, n
<1>8. \A i \in 1 .. Len(p) :
         i \in 1 .. Len(p) + Len(q) /\ all[i] = p[i]
  BY <1>2, <1>3
<1>9. ASSUME NEW i \in 1 .. Len(q)
      PROVE  Len(p) + i \in 1 .. Len(p) + Len(q) /\ all[Len(p) + i] = q[i]
  <2>1. /\ Len(p) + i \in 1 .. Len(p) + Len(q)
        /\ ~(Len(p) + i <= Len(p)) /\ (Len(p) + i) - Len(p) = i
    BY <1>2
  <2> QED
    BY <1>3, <2>1
<1>10. ASSUME NEW i \in 1 .. Len(p) + Len(q)
       PROVE  \/ i \in 1 .. Len(p) /\ all[i] = p[i]
              \/ i - Len(p) \in 1 .. Len(q) /\ all[i] = q[i - Len(p)]
                 /\ i \notin 1 .. Len(p)
  <2>1. CASE i <= Len(p)
    BY <1>2, <1>3, <2>1
  <2>2. CASE ~(i <= Len(p))
    <3>1. i - Len(p) \in 1 .. Len(q) /\ i \notin 1 .. Len(p)
      BY <1>2, <2>2
    <3> QED
      BY <1>3, <2>2, <3>1
  <2> QED
    BY <2>1, <2>2
<1>11. ASSUME \A i, j \in DOMAIN all : i # j => Differ(all[i], all[j])
       PROVE  Distinct(p) /\ Distinct(q) /\ Apart(p, q)
  <2>1. Distinct(p)
    BY <1>4, <1>8, <1>11 DEF Distinct
  <2>2. Distinct(q)
    <3> SUFFICES ASSUME NEW i \in 1 .. Len(q), NEW j \in 1 .. Len(q), i # j
                 PROVE  Differ(q[i], q[j])
      BY DEF Distinct
    <3>1. Len(p) + i # Len(p) + j
      BY <1>2
    <3> QED
      BY <1>4, <1>9, <1>11, <3>1
  <2>3. Apart(p, q)
    <3> SUFFICES ASSUME NEW i \in 1 .. Len(p), NEW j \in 1 .. Len(q)
                 PROVE  Differ(p[i], q[j])
      BY DEF Apart
    <3>1. i # Len(p) + j
      BY <1>2
    <3> QED
      BY <1>4, <1>8, <1>9, <1>11, <3>1
  <2> QED
    BY <2>1, <2>2, <2>3
<1>12. ASSUME Distinct(p), Distinct(q), Apart(p, q)
       PROVE  \A i, j \in DOMAIN all : i # j => Differ(all[i], all[j])
  <2> SUFFICES ASSUME NEW i \in 1 .. Len(p) + Len(q),
                      NEW j \in 1 .. Len(p) + Len(q), i # j
               PROVE  Differ(all[i], all[j])
    BY <1>4
  <2>1. CASE i \in 1 .. Len(p) /\ j \in 1 .. Len(p)
    BY <1>8, <1>12, <2>1 DEF Distinct
  <2>2. CASE i \in 1 .. Len(p) /\ j \notin 1 .. Len(p)
    BY <1>8, <1>10, <1>12, <2>2 DEF Apart
  <2>3. CASE i \notin 1 .. Len(p) /\ j \in 1 .. Len(p)
    BY <1>8, <1>10, <1>12, <2>3 DEF Apart, Differ
  <2>4. CASE i \notin 1 .. Len(p) /\ j \notin 1 .. Len(p)
    <3>1. i - Len(p) # j - Len(p)
      BY <1>2
    <3> QED
      BY <1>10, <1>12, <2>4, <3>1 DEF Distinct
  <2> QED
    BY <2>1, <2>2, <2>3, <2>4
<1> QED
  BY <1>5, <1>6, <1>7, <1>11, <1>12

\* The Inbox a Session begins with.
LEMMA EmptySound == EmptyInbox \in Inbox /\ Sound(EmptyInbox)
<1>1. << >> \in Seq(Item) /\ Len(<< >>) = 0 /\ DOMAIN << >> = {}
  BY EmptySeq
<1>2. EmptyInbox \in Inbox
  BY <1>1 DEF EmptyInbox, Inbox
<1> QED
  BY <1>1, <1>2 DEF EmptyInbox, Sound, Distinct, Apart, Below, InOrder

\* claim and remove.
LEMMA WithoutSound ==
    ASSUME NEW box \in Inbox, NEW ids
    PROVE  /\ Without(box, ids) \in Inbox
           /\ Sound(box) => Sound(Without(box, ids))
           /\ Size(Without(box, ids)) <= Size(box)
<1> DEFINE p == box.next_turn
           q == box.next_step
           P == Kept(p, ids)
           Q == Kept(q, ids)
           w == Without(box, ids)
<1>1. p \in Seq(Item) /\ q \in Seq(Item)
  BY DEF Inbox
<1>2. /\ w.next_turn = P /\ w.next_step = Q
      /\ w.next_sequence = box.next_sequence
  BY DEF Without, Inbox
<1>3. P \in Seq(Item) /\ Q \in Seq(Item) /\ Len(P) <= Len(p) /\ Len(Q) <= Len(q)
  BY <1>1, KeptIsSubsequence
<1>4. w \in Inbox
  BY <1>3 DEF Without, Inbox
<1>5. Size(w) <= Size(box)
  <2>1. Len(p) \in Nat /\ Len(q) \in Nat /\ Len(P) \in Nat /\ Len(Q) \in Nat
    BY <1>1, <1>3, LenProperties
  <2>2. Size(w) = Len(P) + Len(Q) /\ Size(box) = Len(p) + Len(q)
    BY <1>2 DEF Size
  <2> HIDE DEF p, q, P, Q, w
  <2> QED
    BY <1>3, <2>1, <2>2
<1>6. ASSUME Sound(box) PROVE Sound(w)
  <2>1. /\ Distinct(p) /\ InOrder(p) /\ Distinct(q) /\ InOrder(q) /\ Apart(p, q)
        /\ Below(p, box.next_sequence) /\ Below(q, box.next_sequence)
    BY <1>6 DEF Sound
  <2>2. Distinct(P) /\ InOrder(P) /\ Distinct(Q) /\ InOrder(Q)
    BY <1>1, <2>1, KeptSound
  <2>3. /\ \A k \in 1 .. Len(P) : \E i \in 1 .. Len(p) : P[k] = p[i]
        /\ \A k \in 1 .. Len(Q) : \E i \in 1 .. Len(q) : Q[k] = q[i]
    BY <1>1, KeptElements
  <2> HIDE DEF p, q, P, Q, w
  <2>4. Apart(P, Q)
    BY <2>1, <2>3 DEF Apart
  <2>5. Below(P, box.next_sequence) /\ Below(Q, box.next_sequence)
    BY <2>1, <2>3 DEF Below
  <2> QED
    BY <1>2, <1>4, <2>2, <2>4, <2>5 DEF Sound
<1> QED
  BY <1>4, <1>5, <1>6

\* An admission, in either queue.
LEMMA AdmittedSound ==
    ASSUME NEW box \in Inbox, NEW r \in Requests, NEW target \in Targets
    PROVE  /\ Admitted(box, r, target) \in Inbox
           /\ Size(Admitted(box, r, target)) = Size(box) + 1
           /\ Sound(box) /\ r \notin Ids(Pending(box)) =>
                 Sound(Admitted(box, r, target))
           /\ \E item \in Pending(Admitted(box, r, target)) : item.request_id = r
<1> DEFINE item == [request_id |-> r, sequence |-> box.next_sequence,
                    edited |-> FALSE]
           p == box.next_turn
           q == box.next_step
           n == box.next_sequence
           a == Admitted(box, r, target)
<1>1. p \in Seq(Item) /\ q \in Seq(Item) /\ n \in Nat \ {0}
  BY DEF Inbox
<1>2. item \in Item /\ item.request_id = r /\ item.sequence = n
  BY <1>1 DEF Item
<1>3. CASE target = "next_turn"
  <2>1. /\ a.next_turn = Append(p, item) /\ a.next_step = q
        /\ a.next_sequence = n + 1
    BY <1>3 DEF Admitted, Inbox
  <2>2. a \in Inbox
    <3>1. Append(p, item) \in Seq(Item) /\ n + 1 \in Nat \ {0}
      BY <1>1, <1>2
    <3> QED
      BY <1>3, <3>1 DEF Admitted, Inbox
  <2>3. Len(Append(p, item)) = Len(p) + 1 /\ Append(p, item)[Len(p) + 1] = item
    BY <1>1, <1>2
  <2>4. Len(p) \in Nat /\ Len(q) \in Nat
    BY <1>1, LenProperties
  <2>5. Size(a) = Size(box) + 1
    <3>1. Size(a) = Len(Append(p, item)) + Len(q) /\ Size(box) = Len(p) + Len(q)
      BY <2>1 DEF Size
    <3> HIDE DEF a, p, q, item
    <3> QED
      BY <2>3, <2>4, <3>1
  <2>6. item \in Pending(a)
    <3>1. Append(p, item) \in Seq(Item)
      BY <1>1, <1>2
    <3>2. Len(p) + 1 \in DOMAIN Append(p, item)
      BY <2>3, <2>4, <3>1, LenProperties
    <3> HIDE DEF a, item
    <3> QED
      BY <2>1, <2>3, <3>2 DEF Pending, Contents
  <2>7. ASSUME Sound(box), r \notin Ids(Pending(box)) PROVE Sound(a)
    <3>1. /\ Distinct(p) /\ InOrder(p) /\ Distinct(q) /\ InOrder(q)
          /\ Apart(p, q) /\ Below(p, n) /\ Below(q, n)
      BY <2>7 DEF Sound
    <3>2. /\ \A i \in 1 .. Len(p) : p[i] \in Item /\ p[i].request_id # r
          /\ \A i \in 1 .. Len(q) : q[i] \in Item /\ q[i].request_id # r
      <4>1. DOMAIN p = 1 .. Len(p) /\ DOMAIN q = 1 .. Len(q)
        BY <1>1, LenProperties
      <4>2. /\ \A i \in 1 .. Len(p) : p[i] \in Item
            /\ \A i \in 1 .. Len(q) : q[i] \in Item
        BY <1>1, ElementOfSeq
      <4> QED
        BY <2>7, <4>1, <4>2 DEF Ids, Pending, Contents
    <3> HIDE DEF a, p, q, item, n
    <3>3. /\ Distinct(Append(p, item)) /\ InOrder(Append(p, item))
          /\ \A i \in 1 .. Len(p) : Append(p, item)[i] = p[i]
      BY <1>1, <1>2, <3>1, <3>2, AppendSound
    <3>4. \A i \in 1 .. Len(p) + 1 : i \in 1 .. Len(p) \/ i = Len(p) + 1
      BY <2>4
    <3>5. /\ \A i \in 1 .. Len(p) : p[i].sequence \in Int
          /\ \A i \in 1 .. Len(q) : q[i].sequence \in Int
      BY <3>2 DEF Item
    <3>6. Apart(Append(p, item), q)
      <4> SUFFICES ASSUME NEW i \in 1 .. Len(p) + 1, NEW j \in 1 .. Len(q)
                   PROVE  Differ(Append(p, item)[i], q[j])
        BY <2>3 DEF Apart
      <4>1. CASE i \in 1 .. Len(p)
        BY <3>1, <3>3, <4>1 DEF Apart
      <4>2. CASE i = Len(p) + 1
        BY <1>1, <1>2, <2>3, <3>1, <3>2, <3>5, <4>2 DEF Differ, Below
      <4> QED
        BY <3>4, <4>1, <4>2
    <3>7. Below(Append(p, item), n + 1)
      <4> SUFFICES ASSUME NEW i \in 1 .. Len(p) + 1
                   PROVE  Append(p, item)[i].sequence < n + 1
        BY <2>3 DEF Below
      <4>1. CASE i \in 1 .. Len(p)
        BY <1>1, <3>1, <3>3, <3>5, <4>1 DEF Below
      <4>2. CASE i = Len(p) + 1
        BY <1>1, <1>2, <2>3, <4>2
      <4> QED
        BY <3>4, <4>1, <4>2
    <3>8. Below(q, n + 1)
      BY <1>1, <3>1, <3>5 DEF Below
    <3> QED
      BY <2>1, <2>2, <3>1, <3>3, <3>6, <3>7, <3>8 DEF Sound
  <2> HIDE DEF a, item
  <2> QED
    BY <1>2, <2>2, <2>5, <2>6, <2>7 DEF a
<1>4. CASE target = "next_step"
  <2>1. /\ a.next_turn = p /\ a.next_step = Append(q, item)
        /\ a.next_sequence = n + 1
    BY <1>4 DEF Admitted, Inbox
  <2>2. a \in Inbox
    <3>1. Append(q, item) \in Seq(Item) /\ n + 1 \in Nat \ {0}
      BY <1>1, <1>2
    <3> QED
      BY <1>4, <3>1 DEF Admitted, Inbox
  <2>3. Len(Append(q, item)) = Len(q) + 1 /\ Append(q, item)[Len(q) + 1] = item
    BY <1>1, <1>2
  <2>4. Len(p) \in Nat /\ Len(q) \in Nat
    BY <1>1, LenProperties
  <2>5. Size(a) = Size(box) + 1
    <3>1. Size(a) = Len(p) + Len(Append(q, item)) /\ Size(box) = Len(p) + Len(q)
      BY <2>1 DEF Size
    <3> HIDE DEF a, p, q, item
    <3> QED
      BY <2>3, <2>4, <3>1
  <2>6. item \in Pending(a)
    <3>1. Append(q, item) \in Seq(Item)
      BY <1>1, <1>2
    <3>2. Len(q) + 1 \in DOMAIN Append(q, item)
      BY <2>3, <2>4, <3>1, LenProperties
    <3> HIDE DEF a, item
    <3> QED
      BY <2>1, <2>3, <3>2 DEF Pending, Contents
  <2>7. ASSUME Sound(box), r \notin Ids(Pending(box)) PROVE Sound(a)
    <3>1. /\ Distinct(p) /\ InOrder(p) /\ Distinct(q) /\ InOrder(q)
          /\ Apart(p, q) /\ Below(p, n) /\ Below(q, n)
      BY <2>7 DEF Sound
    <3>2. /\ \A i \in 1 .. Len(p) : p[i] \in Item /\ p[i].request_id # r
          /\ \A i \in 1 .. Len(q) : q[i] \in Item /\ q[i].request_id # r
      <4>1. DOMAIN p = 1 .. Len(p) /\ DOMAIN q = 1 .. Len(q)
        BY <1>1, LenProperties
      <4>2. /\ \A i \in 1 .. Len(p) : p[i] \in Item
            /\ \A i \in 1 .. Len(q) : q[i] \in Item
        BY <1>1, ElementOfSeq
      <4> QED
        BY <2>7, <4>1, <4>2 DEF Ids, Pending, Contents
    <3> HIDE DEF a, p, q, item, n
    <3>3. /\ Distinct(Append(q, item)) /\ InOrder(Append(q, item))
          /\ \A i \in 1 .. Len(q) : Append(q, item)[i] = q[i]
      BY <1>1, <1>2, <3>1, <3>2, AppendSound
    <3>4. \A i \in 1 .. Len(q) + 1 : i \in 1 .. Len(q) \/ i = Len(q) + 1
      BY <2>4
    <3>5. /\ \A i \in 1 .. Len(p) : p[i].sequence \in Int
          /\ \A i \in 1 .. Len(q) : q[i].sequence \in Int
      BY <3>2 DEF Item
    <3>6. Apart(p, Append(q, item))
      <4> SUFFICES ASSUME NEW i \in 1 .. Len(p), NEW j \in 1 .. Len(q) + 1
                   PROVE  Differ(p[i], Append(q, item)[j])
        BY <2>3 DEF Apart
      <4>1. CASE j \in 1 .. Len(q)
        BY <3>1, <3>3, <4>1 DEF Apart
      <4>2. CASE j = Len(q) + 1
        BY <1>1, <1>2, <2>3, <3>1, <3>2, <3>5, <4>2 DEF Differ, Below
      <4> QED
        BY <3>4, <4>1, <4>2
    <3>7. Below(Append(q, item), n + 1)
      <4> SUFFICES ASSUME NEW i \in 1 .. Len(q) + 1
                   PROVE  Append(q, item)[i].sequence < n + 1
        BY <2>3 DEF Below
      <4>1. CASE i \in 1 .. Len(q)
        BY <1>1, <3>1, <3>3, <3>5, <4>1 DEF Below
      <4>2. CASE i = Len(q) + 1
        BY <1>1, <1>2, <2>3, <4>2
      <4> QED
        BY <3>4, <4>1, <4>2
    <3>8. Below(p, n + 1)
      BY <1>1, <3>1, <3>5 DEF Below
    <3> QED
      BY <2>1, <2>2, <3>1, <3>3, <3>6, <3>7, <3>8 DEF Sound
  <2> HIDE DEF a, item
  <2> QED
    BY <1>2, <2>2, <2>5, <2>6, <2>7 DEF a
<1> QED
  BY <1>3, <1>4 DEF Targets

\* What is pending under an id is an item with that id.
LEMMA ItemOfPending ==
    ASSUME NEW box, NEW r \in Ids(Pending(box))
    PROVE  ItemOf(box, r) \in Pending(box) /\ ItemOf(box, r).request_id = r
<1>1. \E item \in Pending(box) : item.request_id = r
  BY DEF Ids
<1> QED
  BY <1>1 DEF ItemOf

\* What is pending is an item.
LEMMA PendingItems ==
    ASSUME NEW box \in Inbox
    PROVE  Pending(box) \subseteq Item
<1>1. box.next_turn \in Seq(Item) /\ box.next_step \in Seq(Item)
  BY DEF Inbox
<1> DEFINE p == box.next_turn
           q == box.next_step
<1>2. DOMAIN p = 1 .. Len(p) /\ DOMAIN q = 1 .. Len(q)
  BY <1>1, LenProperties
<1>3. /\ \A i \in 1 .. Len(p) : p[i] \in Item
      /\ \A i \in 1 .. Len(q) : q[i] \in Item
  BY <1>1, ElementOfSeq
<1> QED
  BY <1>2, <1>3 DEF Pending, Contents

\* An edit of a pending item.
LEMMA EditedSound ==
    ASSUME NEW box \in Inbox, NEW r \in Ids(Pending(box))
    PROVE  /\ Edited(box, r) \in Inbox
           /\ Size(Edited(box, r)) = Size(box)
           /\ Sound(box) => Sound(Edited(box, r))
           /\ r \in Ids(Pending(Edited(box, r)))
<1> DEFINE p == box.next_turn
           q == box.next_step
           P == Rewritten(p, r)
           Q == Rewritten(q, r)
           w == Edited(box, r)
<1>1. p \in Seq(Item) /\ q \in Seq(Item)
  BY DEF Inbox
<1>2. /\ w.next_turn = P /\ w.next_step = Q
      /\ w.next_sequence = box.next_sequence
  BY DEF Edited, Inbox
<1>3. /\ P \in Seq(Item) /\ Len(P) = Len(p)
      /\ \A i \in 1 .. Len(p) : /\ P[i].request_id = p[i].request_id
                                /\ P[i].sequence = p[i].sequence
  BY <1>1, RewrittenElements
<1>4. /\ Q \in Seq(Item) /\ Len(Q) = Len(q)
      /\ \A i \in 1 .. Len(q) : /\ Q[i].request_id = q[i].request_id
                                /\ Q[i].sequence = q[i].sequence
  BY <1>1, RewrittenElements
<1>5. w \in Inbox
  BY <1>3, <1>4 DEF Edited, Inbox
<1>6. Size(w) = Size(box)
  BY <1>2, <1>3, <1>4 DEF Size
<1>7. /\ DOMAIN p = 1 .. Len(p) /\ DOMAIN q = 1 .. Len(q)
      /\ DOMAIN P = 1 .. Len(p) /\ DOMAIN Q = 1 .. Len(q)
  BY <1>1, <1>3, <1>4, LenProperties
<1>8. ASSUME Sound(box) PROVE Sound(w)
  <2>1. /\ Distinct(p) /\ InOrder(p) /\ Distinct(q) /\ InOrder(q) /\ Apart(p, q)
        /\ Below(p, box.next_sequence) /\ Below(q, box.next_sequence)
    BY <1>8 DEF Sound
  <2> HIDE DEF p, q, P, Q, w
  <2>2. Distinct(P) /\ Distinct(Q)
    BY <1>3, <1>4, <2>1 DEF Distinct, Differ
  <2>3. InOrder(P) /\ InOrder(Q)
    BY <1>3, <1>4, <1>7, <2>1 DEF InOrder
  <2>4. Apart(P, Q)
    BY <1>3, <1>4, <2>1 DEF Apart, Differ
  <2>5. Below(P, box.next_sequence) /\ Below(Q, box.next_sequence)
    BY <1>3, <1>4, <2>1 DEF Below
  <2> QED
    BY <1>2, <1>5, <2>2, <2>3, <2>4, <2>5 DEF Sound
<1>9. r \in Ids(Pending(w))
  <2>1. \/ \E i \in 1 .. Len(p) : p[i].request_id = r
        \/ \E i \in 1 .. Len(q) : q[i].request_id = r
    BY <1>7 DEF Ids, Pending, Contents
  <2> HIDE DEF p, q, P, Q, w
  <2>2. \/ \E i \in DOMAIN P : P[i].request_id = r
        \/ \E i \in DOMAIN Q : Q[i].request_id = r
    BY <1>3, <1>4, <1>7, <2>1
  <2> QED
    BY <1>2, <2>2 DEF Ids, Pending, Contents
<1> QED
  BY <1>5, <1>6, <1>8, <1>9

\* A promotion: the item leaves next_turn and goes to its place in next_step.
LEMMA PromotedSound ==
    ASSUME NEW box \in Inbox, Sound(box),
           NEW r \in Ids(Contents(box.next_turn))
    PROVE  /\ Promoted(box, r) \in Inbox
           /\ Sound(Promoted(box, r))
           /\ Size(Promoted(box, r)) <= Size(box)
<1> DEFINE p == box.next_turn
           q == box.next_step
           item == ItemOf(box, r)
           P == Kept(p, {r})
           Q == Inserted(q, item)
           w == Promoted(box, r)
<1>1. p \in Seq(Item) /\ q \in Seq(Item)
  BY DEF Inbox
<1>2. /\ Len(p) \in Nat /\ Len(q) \in Nat
      /\ DOMAIN p = 1 .. Len(p) /\ DOMAIN q = 1 .. Len(q)
  BY <1>1, LenProperties
<1>3. /\ Distinct(p) /\ InOrder(p) /\ Distinct(q) /\ InOrder(q) /\ Apart(p, q)
      /\ Below(p, box.next_sequence) /\ Below(q, box.next_sequence)
  BY DEF Sound
<1>4. PICK i \in 1 .. Len(p) : p[i].request_id = r
  BY <1>2 DEF Ids, Contents
<1>5. item = p[i]
  <2>1. r \in Ids(Pending(box))
    BY DEF Ids, Pending
  <2>2. item \in Pending(box) /\ item.request_id = r
    BY <2>1, ItemOfPending
  <2>3. ASSUME NEW j \in 1 .. Len(q), item = q[j] PROVE FALSE
    BY <1>3, <1>4, <2>2, <2>3 DEF Apart, Differ
  <2>4. PICK j \in 1 .. Len(p) : item = p[j]
    BY <1>2, <2>2, <2>3 DEF Pending, Contents
  <2>5. j = i
    BY <1>3, <1>4, <2>2, <2>4 DEF Distinct, Differ
  <2> QED
    BY <2>4, <2>5
<1>6. item \in Item
  BY <1>1, <1>5, ElementOfSeq
<1>7. /\ w.next_turn = P /\ w.next_step = Q
      /\ w.next_sequence = box.next_sequence
  BY DEF Promoted, Inbox
<1> HIDE DEF item
<1>8. P \in Seq(Item) /\ Distinct(P) /\ InOrder(P)
  BY <1>1, <1>3, KeptIsSubsequence, KeptSound
<1>9. \A k \in 1 .. Len(P) : \E j \in 1 .. Len(p) :
         P[k] = p[j] /\ p[j].request_id # r /\ j # i
  BY <1>1, <1>4, KeptElements
<1>10. Len(P) < Len(p)
  BY <1>1, <1>4, KeptShorter
<1>11. \A k \in 1 .. Len(q) : Differ(q[k], item) /\ Differ(item, q[k])
  BY <1>3, <1>5 DEF Apart, Differ
<1>12. /\ Q \in Seq(Item) /\ Len(Q) = Len(q) + 1
       /\ \A k \in 1 .. Len(q) + 1 :
             Q[k] = item \/ \E j \in 1 .. Len(q) : Q[k] = q[j]
       /\ Distinct(Q) /\ InOrder(Q)
  BY <1>1, <1>3, <1>6, <1>11, InsertedSound
<1>13. w \in Inbox
  BY <1>8, <1>12 DEF Promoted, Inbox, item
<1> HIDE DEF p, q, P, Q, w
<1>14. Apart(P, Q)
  <2> SUFFICES ASSUME NEW k \in 1 .. Len(P), NEW l \in 1 .. Len(q) + 1
               PROVE  Differ(P[k], Q[l])
    BY <1>12 DEF Apart
  <2>1. PICK j \in 1 .. Len(p) : P[k] = p[j] /\ j # i
    BY <1>9
  <2>2. CASE Q[l] = item
    BY <1>3, <1>5, <2>1, <2>2 DEF Distinct
  <2>3. CASE \E m \in 1 .. Len(q) : Q[l] = q[m]
    BY <1>3, <2>1, <2>3 DEF Apart
  <2> QED
    BY <1>12, <2>2, <2>3
<1>15. Below(P, box.next_sequence) /\ Below(Q, box.next_sequence)
  <2>1. Below(P, box.next_sequence)
    BY <1>3, <1>9 DEF Below
  <2>2. Below(Q, box.next_sequence)
    BY <1>3, <1>5, <1>12 DEF Below
  <2> QED
    BY <2>1, <2>2
<1>16. Sound(w)
  BY <1>7, <1>8, <1>12, <1>13, <1>14, <1>15 DEF Sound
<1>17. Size(w) <= Size(box)
  <2>1. Size(w) = Len(P) + Len(Q)
    BY <1>7 DEF Size
  <2>2. Size(box) = Len(p) + Len(q)
    BY DEF Size, p, q
  <2>3. Len(P) \in Nat
    BY <1>8, LenProperties
  <2> QED
    BY <1>2, <1>10, <1>12, <2>1, <2>2, <2>3
<1> QED
  BY <1>13, <1>16, <1>17 DEF w

-----------------------------------------------------------------------------
(* What the operations make of the items, as sets.                         *)

\* The items of a queue are the elements at its positions.
LEMMA ContentsOf ==
    ASSUME NEW q \in Seq(Item)
    PROVE  /\ Contents(q) = {q[i] : i \in 1 .. Len(q)}
           /\ Contents(q) \subseteq Item
<1>1. DOMAIN q = 1 .. Len(q) /\ \A i \in 1 .. Len(q) : q[i] \in Item
  BY LenProperties, ElementOfSeq
<1> QED
  BY <1>1 DEF Contents

\* An admission adds its item to the queue.
LEMMA ContentsAppend ==
    ASSUME NEW q \in Seq(Item), NEW item \in Item
    PROVE  Contents(Append(q, item)) = Contents(q) \cup {item}
<1> DEFINE A == Append(q, item)
<1>1. /\ A \in Seq(Item) /\ Len(A) = Len(q) + 1 /\ Len(q) \in Nat
      /\ \A i \in 1 .. Len(q) : A[i] = q[i]
      /\ A[Len(q) + 1] = item
  BY AppendProperties, LenProperties
<1> HIDE DEF A
<1>2. \A i \in 1 .. Len(A) : i \in 1 .. Len(q) \/ i = Len(q) + 1
  BY <1>1
<1>3. Len(q) + 1 \in 1 .. Len(A) /\ 1 .. Len(q) \subseteq 1 .. Len(A)
  BY <1>1
<1>4. Contents(A) = {A[i] : i \in 1 .. Len(A)}
  BY <1>1, ContentsOf
<1>5. Contents(q) = {q[i] : i \in 1 .. Len(q)}
  BY ContentsOf
<1> QED
  BY <1>1, <1>2, <1>3, <1>4, <1>5 DEF A

\* A claim or a removal takes out the items with the given ids, and no other.
LEMMA ContentsKept ==
    ASSUME NEW q \in Seq(Item), NEW ids
    PROVE  Contents(Kept(q, ids)) =
              {item \in Contents(q) : item.request_id \notin ids}
<1> DEFINE K == Kept(q, ids)
<1>1. K \in Seq(Item)
  BY KeptIsSubsequence
<1>2. \A k \in 1 .. Len(K) : \E i \in 1 .. Len(q) :
          K[k] = q[i] /\ q[i].request_id \notin ids
  BY KeptElements
<1>3. \A i \in 1 .. Len(q) : q[i].request_id \notin ids =>
          \E k \in 1 .. Len(K) : K[k] = q[i]
  <2>1. PICK e \in [1 .. Len(K) -> 1 .. Len(q)] :
          /\ \A k \in 1 .. Len(K) : K[k] = q[e[k]]
          /\ \A i \in 1 .. Len(q) : q[i].request_id \notin ids =>
                \E k \in 1 .. Len(K) : e[k] = i
    BY KeptIsSubsequence
  <2> QED
    BY <2>1
<1> HIDE DEF K
<1>4. Contents(K) = {K[i] : i \in 1 .. Len(K)}
  BY <1>1, ContentsOf
<1>5. Contents(q) = {q[i] : i \in 1 .. Len(q)}
  BY ContentsOf
<1>6. \A item \in Contents(K) :
         item \in Contents(q) /\ item.request_id \notin ids
  BY <1>2, <1>4, <1>5
<1>7. \A item \in Contents(q) : item.request_id \notin ids =>
         item \in Contents(K)
  BY <1>3, <1>4, <1>5
<1>8. Contents(K) = {item \in Contents(q) : item.request_id \notin ids}
  BY <1>6, <1>7
<1> QED
  BY <1>8 DEF K

\* A promotion adds its item to the other queue.
LEMMA ContentsInserted ==
    ASSUME NEW q \in Seq(Item), InOrder(q), NEW item \in Item
    PROVE  Contents(Inserted(q, item)) = Contents(q) \cup {item}
<1> DEFINE A == Inserted(q, item)
           m == Len(q)
<1>1. PICK n \in 0 .. m :
        /\ \A i \in 1 .. n : A[i] = q[i]
        /\ A[n + 1] = item
        /\ \A i \in n + 1 .. m : A[i + 1] = q[i]
  BY InsertedElements
<1>2. A \in Seq(Item) /\ Len(A) = m + 1 /\ m \in Nat
  BY InsertedElements, LenProperties
<1> HIDE DEF A, m
<1>3. \A k \in 1 .. m + 1 :
        A[k] = item \/ \E i \in 1 .. m : A[k] = q[i]
  <2> SUFFICES ASSUME NEW k \in 1 .. m + 1
               PROVE  A[k] = item \/ \E i \in 1 .. m : A[k] = q[i]
    OBVIOUS
  <2>1. CASE k \in 1 .. n
    <3>1. k \in 1 .. m
      BY <2>1, <1>2
    <3> QED
      BY <2>1, <3>1, <1>1
  <2>2. CASE k = n + 1
    BY <2>2, <1>1
  <2>3. CASE k > n + 1
    <3>1. k - 1 \in n + 1 .. m /\ k - 1 \in 1 .. m /\ (k - 1) + 1 = k
      BY <2>3, <1>2
    <3> QED
      BY <3>1, <1>1
  <2> QED
    BY <2>1, <2>2, <2>3, <1>2
<1>4. \A i \in 1 .. m : \E k \in 1 .. m + 1 : A[k] = q[i]
  <2> SUFFICES ASSUME NEW i \in 1 .. m
               PROVE  \E k \in 1 .. m + 1 : A[k] = q[i]
    OBVIOUS
  <2>1. CASE i \in 1 .. n
    <3>1. i \in 1 .. m + 1 /\ A[i] = q[i]
      BY <2>1, <1>1, <1>2
    <3> QED
      BY <3>1
  <2>2. CASE i \in n + 1 .. m
    <3>1. i + 1 \in 1 .. m + 1 /\ A[i + 1] = q[i]
      BY <2>2, <1>1, <1>2
    <3> QED
      BY <3>1
  <2> QED
    BY <2>1, <2>2, <1>2
<1>5. n + 1 \in 1 .. m + 1
  BY <1>2
<1>6. Contents(A) = {A[i] : i \in 1 .. m + 1}
  BY <1>2, ContentsOf
<1>7. Contents(q) = {q[i] : i \in 1 .. m}
  BY ContentsOf DEF m
<1> QED
  BY <1>1, <1>3, <1>4, <1>5, <1>6, <1>7 DEF A

\* An edit marks the items with its id, and leaves the others.
LEMMA ContentsRewritten ==
    ASSUME NEW q \in Seq(Item), NEW r
    PROVE  Contents(Rewritten(q, r)) =
              {IF item.request_id = r THEN [item EXCEPT !.edited = TRUE]
                                      ELSE item : item \in Contents(q)}
<1> DEFINE W == Rewritten(q, r)
           mark(item) == IF item.request_id = r
                           THEN [item EXCEPT !.edited = TRUE] ELSE item
<1>1. DOMAIN q = 1 .. Len(q)
  BY LenProperties
<1>2. W \in Seq(Item) /\ Len(W) = Len(q)
  BY RewrittenElements
<1>3. \A i \in 1 .. Len(q) : W[i] = mark(q[i])
  BY <1>1 DEF Rewritten
<1> HIDE DEF W, mark
<1>4. Contents(W) = {W[i] : i \in 1 .. Len(q)}
  BY <1>2, ContentsOf
<1>5. Contents(q) = {q[i] : i \in 1 .. Len(q)}
  BY ContentsOf
<1>6. Contents(W) = {mark(item) : item \in Contents(q)}
  BY <1>3, <1>4, <1>5
<1> QED
  BY <1>6 DEF W, mark

\* In a sound Inbox an id, like a sequence, belongs to one item, in one of
\* the queues.
LEMMA SoundItems ==
    ASSUME NEW box, Sound(box)
    PROVE  /\ \A x, y \in Contents(box.next_turn) : x # y => Differ(x, y)
           /\ \A x, y \in Contents(box.next_step) : x # y => Differ(x, y)
           /\ \A x \in Contents(box.next_turn), y \in Contents(box.next_step) :
                 Differ(x, y)
           /\ \A x \in Pending(box) :
                 x \in Item /\ x.sequence < box.next_sequence
           /\ \A x \in Pending(box) : ItemOf(box, x.request_id) = x
<1> DEFINE p == box.next_turn
           q == box.next_step
<1>1. p \in Seq(Item) /\ q \in Seq(Item)
  BY DEF Sound, Inbox
<1>2. /\ Contents(p) = {p[i] : i \in 1 .. Len(p)} /\ Contents(p) \subseteq Item
      /\ Contents(q) = {q[i] : i \in 1 .. Len(q)} /\ Contents(q) \subseteq Item
  BY <1>1, ContentsOf
<1>3. /\ Distinct(p) /\ Distinct(q) /\ Apart(p, q)
      /\ Below(p, box.next_sequence) /\ Below(q, box.next_sequence)
  BY DEF Sound
<1>4. Pending(box) = Contents(p) \cup Contents(q)
  BY DEF Pending
<1> HIDE DEF p, q
<1>5. \A x, y \in Contents(p) : x # y => Differ(x, y)
  BY <1>2, <1>3 DEF Distinct
<1>6. \A x, y \in Contents(q) : x # y => Differ(x, y)
  BY <1>2, <1>3 DEF Distinct
<1>7. \A x \in Contents(p), y \in Contents(q) : Differ(x, y)
  BY <1>2, <1>3 DEF Apart
<1>8. \A x \in Pending(box) : x \in Item /\ x.sequence < box.next_sequence
  BY <1>2, <1>3, <1>4 DEF Below
<1>9. \A x, y \in Pending(box) : x.request_id = y.request_id => x = y
  BY <1>4, <1>5, <1>6, <1>7 DEF Differ
<1>10. ASSUME NEW x \in Pending(box)
       PROVE  ItemOf(box, x.request_id) = x
  <2>1. x.request_id \in Ids(Pending(box))
    BY DEF Ids
  <2> QED
    BY <2>1, <1>9, ItemOfPending
<1> QED
  BY <1>5, <1>6, <1>7, <1>8, <1>10 DEF p, q
=============================================================================
