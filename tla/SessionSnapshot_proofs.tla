----------------------- MODULE SessionSnapshot_proofs -----------------------
(***************************************************************************)
(* What the file of a Session holds, for any number of requests and        *)
(* events, whatever fails, is rolled back or crashes.                      *)
(***************************************************************************)
EXTENDS SessionSnapshot, SequenceTheorems, WellFoundedInduction, TLAPS

-----------------------------------------------------------------------------
(* Induction and recursion over the positions of a sequence, by sets.      *)

\* A set of numbers that is not empty has a least element.
LEMMA LeastNumber ==
    ASSUME NEW T \in SUBSET Nat, T # {}
    PROVE  \E x \in T : \A y \in T : x <= y
<1> DEFINE R == OpToRel(<, Nat)
<1>1. IsWellFoundedOn(R, Nat)
  BY NatLessThanWellFounded
<1>2. \A x, y \in Nat : x < y => <<x, y>> \in R
  BY DEF OpToRel
<1> HIDE DEF R
<1>3. PICK x \in T : \A y \in T : ~(<<y, x>> \in R)
  BY <1>1, WFMin
<1>4. \A y \in T : ~(y < x)
  BY <1>2, <1>3
<1>5. x \in Nat /\ \A y \in T : y \in Nat
  OBVIOUS
<1>6. \A y \in T : x <= y
  BY <1>4, <1>5
<1> QED
  BY <1>6

\* What is true of no events, and of one more whenever it is true of some, is
\* true of all.
LEMMA Positions ==
    ASSUME NEW n \in Nat, NEW P \in SUBSET (0 .. n), 0 \in P,
           \A i \in 1 .. n : i - 1 \in P => i \in P
    PROVE  \A i \in 0 .. n : i \in P
<1> SUFFICES ASSUME (0 .. n) \ P # {} PROVE FALSE
  OBVIOUS
<1> DEFINE T == (0 .. n) \ P
<1>1. T \in SUBSET Nat
  OBVIOUS
<1>2. PICK x \in T : \A y \in T : x <= y
  <2> HIDE DEF T
  <2> QED
    BY <1>1, LeastNumber DEF T
<1>3. x \in 1 .. n /\ x - 1 \in 0 .. n
  OBVIOUS
<1>4. x - 1 \notin T
  <2>1. ~(x <= x - 1)
    BY <1>3
  <2> QED
    BY <1>2, <2>1
<1> QED
  BY <1>3, <1>4

\* f holds the values a step function goes through.
Iterated(f, first, n, G) ==
    f[0] = first /\ \A i \in 1 .. n : f[i] = G[<<f[i - 1], i>>]

\* f and g take the same steps.
InStep(f, g, n) == \A i \in 1 .. n : f[i - 1] = g[i - 1] => f[i] = g[i]

\* A step function can be iterated along a sequence.
LEMMA Iterates ==
    ASSUME NEW S, NEW first \in S, NEW n \in Nat,
           NEW G \in [S \X (1 .. n) -> S]
    PROVE  \E f \in [0 .. n -> S] : Iterated(f, first, n, G)
<1> USE DEF Iterated
<1> DEFINE Runs(f, k) == Iterated(f, first, k, G)
           P == {k \in 0 .. n : \E f \in [0 .. k -> S] : Runs(f, k)}
<1>1. 0 \in P
  <2> DEFINE f == [i \in 0 .. 0 |-> first]
  <2>1. f \in [0 .. 0 -> S] /\ f[0] = first
    OBVIOUS
  <2>2. Runs(f, 0)
    BY <2>1
  <2> HIDE DEF f
  <2> QED
    BY <2>1, <2>2
<1>2. ASSUME NEW k \in 1 .. n, k - 1 \in P PROVE k \in P
  <2>1. PICK f \in [0 .. k - 1 -> S] : Runs(f, k - 1)
    BY <1>2
  <2> DEFINE g == [i \in 0 .. k |->
                      IF i = k THEN G[<<f[k - 1], k>>] ELSE f[i]]
  <2>2. k - 1 \in 0 .. k - 1 /\ \A i \in 0 .. k : i # k => i \in 0 .. k - 1
    OBVIOUS
  <2>3. f[k - 1] \in S /\ <<f[k - 1], k>> \in S \X (1 .. n)
    BY <2>2
  <2>4. g \in [0 .. k -> S]
    BY <2>2, <2>3
  <2>5. g[0] = first
    BY <2>1
  <2>6. ASSUME NEW i \in 1 .. k PROVE g[i] = G[<<g[i - 1], i>>]
    <3>1. i - 1 \in 0 .. k /\ i - 1 # k /\ i \in 0 .. k
      OBVIOUS
    <3>2. g[i - 1] = f[i - 1]
      BY <3>1
    <3>3. CASE i = k
      BY <3>1, <3>2, <3>3
    <3>4. CASE i # k
      <4>1. i \in 1 .. k - 1
        BY <3>4
      <4> QED
        BY <2>1, <3>1, <3>2, <3>4, <4>1
    <3> QED
      BY <3>3, <3>4
  <2> HIDE DEF g
  <2> QED
    BY <2>4, <2>5, <2>6
<1> HIDE DEF P
<1>3. P \in SUBSET (0 .. n)
  BY DEF P
<1>4. n \in P
  BY <1>1, <1>2, <1>3, Positions
<1> QED
  BY <1>4 DEF P

\* Two iterations that begin alike and take the same steps are the same.
LEMMA SameIterates ==
    ASSUME NEW n \in Nat, NEW f, NEW g, f[0] = g[0], InStep(f, g, n)
    PROVE  \A i \in 0 .. n : f[i] = g[i]
<1> DEFINE P == {i \in 0 .. n : f[i] = g[i]}
<1>1. P \in SUBSET (0 .. n) /\ 0 \in P
  OBVIOUS
<1>2. \A i \in 1 .. n : i - 1 \in P => i \in P
  BY DEF InStep
<1>3. \A i \in P : f[i] = g[i]
  OBVIOUS
<1> HIDE DEF P
<1> QED
  BY <1>1, <1>2, <1>3, Positions

-----------------------------------------------------------------------------
(* What is derived from events.                                            *)

\* user, the messages among the first events, counted from none.
Users(u, events) ==
    /\ u \in [0 .. Len(events) -> Seq(Requests)]
    /\ u[0] = << >>
    /\ \A i \in 1 .. Len(events) :
          u[i] = IF events[i].kind = "user"
                   THEN Append(u[i - 1], events[i].request) ELSE u[i - 1]

\* Derived(events) is the last of them.
LEMMA DerivedIterates ==
    ASSUME NEW events \in Seq(Event)
    PROVE  \E u : Users(u, events) /\ Derived(events) = u[Len(events)]
<1> DEFINE n == Len(events)
           S == Seq(Requests)
           step(s, i) == IF events[i].kind = "user"
                           THEN Append(s, events[i].request) ELSE s
           G == [p \in S \X (1 .. n) |-> step(p[1], p[2])]
           user[i \in 0 .. n] == IF i = 0 THEN << >>
                                 ELSE IF events[i].kind = "user"
                                   THEN Append(user[i - 1], events[i].request)
                                   ELSE user[i - 1]
<1>1. n \in Nat /\ \A i \in 1 .. n : events[i] \in Event
  BY LenProperties, ElementOfSeq
<1>2. ASSUME NEW s \in S, NEW i \in 1 .. n PROVE step(s, i) \in S
  <2>1. events[i].request \in Requests
    BY <1>1 DEF Event
  <2> QED
    BY <2>1, AppendProperties
<1>3. << >> \in S
  OBVIOUS
<1>4. /\ G \in [S \X (1 .. n) -> S]
      /\ \A s \in S, i \in 1 .. n : G[<<s, i>>] = step(s, i)
  <2> HIDE DEF step, S
  <2> QED
    BY <1>2
<1>5. Derived(events) = user[n]
  BY DEF Derived
<1>6. \A u : Users(u, events) <=>
         /\ u \in [0 .. n -> S]
         /\ u[0] = << >>
         /\ \A i \in 1 .. n : u[i] = IF events[i].kind = "user"
                                       THEN Append(u[i - 1], events[i].request)
                                       ELSE u[i - 1]
  BY DEF Users
<1> HIDE DEF n, S, G
<1>7. PICK f \in [0 .. n -> S] : Iterated(f, << >>, n, G)
  BY <1>1, <1>3, <1>4, Iterates, Zenon
<1>8. ASSUME NEW i \in 1 .. n
      PROVE  f[i] = IF events[i].kind = "user"
                      THEN Append(f[i - 1], events[i].request) ELSE f[i - 1]
  <2>1. f[i - 1] \in S
    BY <1>1
  <2>2. f[i] = step(f[i - 1], i)
    <3> HIDE DEF step
    <3> QED
      BY <1>4, <1>7, <2>1 DEF Iterated
  <2> QED
    BY <2>2
<1>9. f = [i \in 0 .. n |-> IF i = 0 THEN << >>
                            ELSE IF events[i].kind = "user"
                              THEN Append(f[i - 1], events[i].request)
                              ELSE f[i - 1]]
  <2>1. ASSUME NEW i \in 0 .. n
        PROVE  f[i] = IF i = 0 THEN << >>
                      ELSE IF events[i].kind = "user"
                        THEN Append(f[i - 1], events[i].request)
                        ELSE f[i - 1]
    <3>1. CASE i = 0
      BY <1>7, <3>1 DEF Iterated
    <3>2. CASE i # 0
      <4>1. i \in 1 .. n
        BY <1>1, <3>2
      <4> QED
        BY <1>8, <3>2, <4>1
    <3> QED
      BY <3>1, <3>2
  <2>2. f = [i \in 0 .. n |-> f[i]]
    OBVIOUS
  <2> QED
    BY <2>1, <2>2, Zenon
<1>10. user = [i \in 0 .. n |-> IF i = 0 THEN << >>
                                ELSE IF events[i].kind = "user"
                                  THEN Append(user[i - 1], events[i].request)
                                  ELSE user[i - 1]]
  BY <1>9 DEF user
<1> HIDE DEF user
<1>11. user[0] = f[0]
  <2>1. 0 \in 0 .. n
    BY <1>1
  <2> QED
    BY <1>7, <1>10, <2>1 DEF Iterated
<1>12. ASSUME NEW i \in 1 .. n, user[i - 1] = f[i - 1] PROVE user[i] = f[i]
  <2>1. i \in 0 .. n /\ i # 0
    BY <1>1
  <2>2. user[i] = IF i = 0 THEN << >>
                  ELSE IF events[i].kind = "user"
                    THEN Append(user[i - 1], events[i].request)
                    ELSE user[i - 1]
    BY <1>10, <2>1
  <2> QED
    BY <1>8, <1>12, <2>1, <2>2
<1>13. \A i \in 0 .. n : user[i] = f[i]
  <2>1. InStep(user, f, n)
    BY <1>12 DEF InStep
  <2> QED
    BY <1>1, <1>11, <2>1, SameIterates, Zenon
<1>14. Users(f, events)
  BY <1>6, <1>7, <1>8 DEF Iterated
<1>15. user[n] = f[n]
  BY <1>1, <1>13
<1> QED
  BY <1>5, <1>14, <1>15 DEF n

\* w, the messages after the first of the added ones, counted from none.
Merges(w, old, added) ==
    /\ w \in [0 .. Len(added) -> Seq(Requests)]
    /\ w[0] = old
    /\ \A i \in 1 .. Len(added) :
          w[i] = IF added[i] \in Elements(w[i - 1])
                   THEN w[i - 1] ELSE Append(w[i - 1], added[i])

\* Derived(events) is a sequence of requests.
LEMMA DerivedType ==
    ASSUME NEW events \in Seq(Event)
    PROVE  Derived(events) \in Seq(Requests)
<1>1. PICK u : Users(u, events) /\ Derived(events) = u[Len(events)]
  BY DerivedIterates
<1>2. Len(events) \in 0 .. Len(events)
  OBVIOUS
<1> QED
  BY <1>1, <1>2 DEF Users

\* Merged(old, events) is the last of them, for the messages of the events.
LEMMA MergedIterates ==
    ASSUME NEW old \in Seq(Requests), NEW events \in Seq(Event)
    PROVE  \E w : /\ Merges(w, old, Derived(events))
                  /\ Merged(old, events) = w[Len(Derived(events))]
<1> DEFINE added == Derived(events)
           n == Len(added)
           S == Seq(Requests)
           step(s, i) == IF added[i] \in Elements(s)
                           THEN s ELSE Append(s, added[i])
           G == [p \in S \X (1 .. n) |-> step(p[1], p[2])]
           fresh[i \in 0 .. n] == IF i = 0 THEN old
                                  ELSE IF added[i] \in Elements(fresh[i - 1])
                                    THEN fresh[i - 1]
                                    ELSE Append(fresh[i - 1], added[i])
<1>1. n \in Nat /\ \A i \in 1 .. n : added[i] \in Requests
  BY DerivedType, LenProperties, ElementOfSeq
<1>2. ASSUME NEW s \in S, NEW i \in 1 .. n PROVE step(s, i) \in S
  <2>1. added[i] \in Requests
    BY <1>1
  <2> HIDE DEF added
  <2> QED
    BY <2>1, AppendProperties
<1>3. old \in S
  OBVIOUS
<1>4. /\ G \in [S \X (1 .. n) -> S]
      /\ \A s \in S, i \in 1 .. n : G[<<s, i>>] = step(s, i)
  <2> HIDE DEF step, S, n
  <2> QED
    BY <1>2
<1>5. Merged(old, events) = fresh[n]
  BY DEF Merged
<1>6. \A w : Merges(w, old, added) <=>
         /\ w \in [0 .. n -> S]
         /\ w[0] = old
         /\ \A i \in 1 .. n : w[i] = IF added[i] \in Elements(w[i - 1])
                                       THEN w[i - 1]
                                       ELSE Append(w[i - 1], added[i])
  <2> HIDE DEF added
  <2> QED
    BY DEF Merges
<1> HIDE DEF n, S, G, added
<1>7. PICK f \in [0 .. n -> S] : Iterated(f, old, n, G)
  BY <1>1, <1>3, <1>4, Iterates, Zenon
<1>8. ASSUME NEW i \in 1 .. n
      PROVE  f[i] = IF added[i] \in Elements(f[i - 1])
                      THEN f[i - 1] ELSE Append(f[i - 1], added[i])
  <2>1. f[i - 1] \in S
    BY <1>1
  <2>2. f[i] = step(f[i - 1], i)
    <3> HIDE DEF step
    <3> QED
      BY <1>4, <1>7, <2>1 DEF Iterated
  <2> QED
    BY <2>2
<1>9. fresh = [i \in 0 .. n |-> IF i = 0 THEN old
                                ELSE IF added[i] \in Elements(fresh[i - 1])
                                  THEN fresh[i - 1]
                                  ELSE Append(fresh[i - 1], added[i])]
  <2>1. ASSUME NEW i \in 0 .. n
        PROVE  f[i] = IF i = 0 THEN old
                      ELSE IF added[i] \in Elements(f[i - 1])
                        THEN f[i - 1] ELSE Append(f[i - 1], added[i])
    <3>1. CASE i = 0
      BY <1>7, <3>1 DEF Iterated
    <3>2. CASE i # 0
      <4>1. i \in 1 .. n
        BY <1>1, <3>2
      <4> QED
        BY <1>8, <3>2, <4>1
    <3> QED
      BY <3>1, <3>2
  <2>2. f = [i \in 0 .. n |-> f[i]]
    OBVIOUS
  <2>3. f = [i \in 0 .. n |-> IF i = 0 THEN old
                              ELSE IF added[i] \in Elements(f[i - 1])
                                THEN f[i - 1] ELSE Append(f[i - 1], added[i])]
    BY <2>1, <2>2, Zenon
  <2> QED
    BY <2>3 DEF fresh
<1> HIDE DEF fresh
<1>10. fresh[0] = f[0]
  <2>1. 0 \in 0 .. n
    BY <1>1
  <2> QED
    BY <1>7, <1>9, <2>1 DEF Iterated
<1>11. InStep(fresh, f, n)
  <2>1. ASSUME NEW i \in 1 .. n, fresh[i - 1] = f[i - 1]
        PROVE  fresh[i] = f[i]
    <3>1. i \in 0 .. n /\ i # 0
      BY <1>1
    <3>2. fresh[i] = IF i = 0 THEN old
                     ELSE IF added[i] \in Elements(fresh[i - 1])
                       THEN fresh[i - 1] ELSE Append(fresh[i - 1], added[i])
      BY <1>9, <3>1
    <3> QED
      BY <1>8, <2>1, <3>1, <3>2
  <2> QED
    BY <2>1 DEF InStep
<1>12. \A i \in 0 .. n : fresh[i] = f[i]
  BY <1>1, <1>10, <1>11, SameIterates, Zenon
<1>13. Merges(f, old, added)
  BY <1>6, <1>7, <1>8 DEF Iterated
<1>14. fresh[n] = f[n]
  BY <1>1, <1>12
<1> QED
  BY <1>5, <1>13, <1>14 DEF n, added

\* Merged(old, events) is a sequence of requests.
LEMMA MergedType ==
    ASSUME NEW old \in Seq(Requests), NEW events \in Seq(Event)
    PROVE  Merged(old, events) \in Seq(Requests)
<1>1. PICK w : /\ Merges(w, old, Derived(events))
               /\ Merged(old, events) = w[Len(Derived(events))]
  BY MergedIterates
<1>2. Len(Derived(events)) \in 0 .. Len(Derived(events))
  BY DerivedType, LenProperties
<1> QED
  BY <1>1, <1>2 DEF Merges

\* No events have no messages.
LEMMA DerivedNone == Derived(<< >>) = << >>
<1>1. << >> \in Seq(Event) /\ Len(<< >>) = 0
  OBVIOUS
<1>2. PICK z : Users(z, << >>) /\ Derived(<< >>) = z[Len(<< >>)]
  BY <1>1, DerivedIterates
<1> QED
  BY <1>1, <1>2 DEF Users

\* An event adds the message of its request, if it is the user's.
LEMMA DerivedAppend ==
    ASSUME NEW events \in Seq(Event), NEW e \in Event
    PROVE  Derived(Append(events, e)) =
              IF e.kind = "user" THEN Append(Derived(events), e.request)
                                 ELSE Derived(events)
<1> DEFINE n == Len(events)
           more == Append(events, e)
<1>1. /\ more \in Seq(Event) /\ Len(more) = n + 1 /\ n \in Nat
      /\ \A i \in 1 .. n : more[i] = events[i]
      /\ more[n + 1] = e
  BY AppendProperties
<1>2. PICK u : Users(u, events) /\ Derived(events) = u[n]
  BY DerivedIterates
<1> HIDE DEF more
<1>3. PICK v : Users(v, more) /\ Derived(more) = v[n + 1]
  BY <1>1, DerivedIterates
<1> HIDE DEF n
<1>4. InStep(u, v, n)
  <2>1. ASSUME NEW i \in 1 .. n, u[i - 1] = v[i - 1] PROVE u[i] = v[i]
    <3>1. i \in 1 .. Len(more) /\ more[i] = events[i]
      BY <1>1
    <3>2. v[i] = IF more[i].kind = "user"
                   THEN Append(v[i - 1], more[i].request) ELSE v[i - 1]
      BY <1>3, <3>1 DEF Users
    <3>3. u[i] = IF events[i].kind = "user"
                   THEN Append(u[i - 1], events[i].request) ELSE u[i - 1]
      BY <1>2 DEF Users, n
    <3> QED
      BY <2>1, <3>1, <3>2, <3>3
  <2> QED
    BY <2>1 DEF InStep
<1>5. u[0] = v[0]
  BY <1>2, <1>3 DEF Users
<1>6. u[n] = v[n]
  <2>1. \A i \in 0 .. n : u[i] = v[i]
    BY <1>1, <1>4, <1>5, SameIterates, Zenon
  <2> QED
    BY <1>1, <2>1
<1>7. Derived(more) = IF e.kind = "user" THEN Append(Derived(events), e.request)
                                         ELSE Derived(events)
  <2>1. n + 1 \in 1 .. Len(more) /\ (n + 1) - 1 = n
    BY <1>1
  <2>2. v[n + 1] = IF more[n + 1].kind = "user"
                     THEN Append(v[(n + 1) - 1], more[n + 1].request)
                     ELSE v[(n + 1) - 1]
    BY <1>3, <2>1 DEF Users
  <2> QED
    BY <1>1, <1>2, <1>3, <1>6, <2>1, <2>2
<1> QED
  BY <1>7 DEF more

\* p is what q begins with.
Begins(p, q) == Len(p) <= Len(q) /\ \A i \in 1 .. Len(p) : q[i] = p[i]

\* What is added to the end leaves the beginning alone.
LEMMA BeginsSteps ==
    ASSUME NEW p \in Seq(Requests), NEW q \in Seq(Requests), NEW x \in Requests,
           Begins(p, q)
    PROVE  Begins(p, p) /\ Begins(p, Append(q, x))
BY AppendProperties DEF Begins

\* A sequence begins with another if its first part is that one.
LEMMA BeginsIsFirstPart ==
    ASSUME NEW p \in Seq(Requests), NEW q \in Seq(Requests), Begins(p, q)
    PROVE  Len(q) >= Len(p) /\ SubSeq(q, 1, Len(p)) = p
BY DEF Begins

\* A merge keeps the messages there were, in front.
LEMMA MergedBegins ==
    ASSUME NEW old \in Seq(Requests), NEW events \in Seq(Event)
    PROVE  Begins(old, Merged(old, events))
<1> DEFINE added == Derived(events)
           n == Len(added)
<1>1. n \in Nat /\ \A i \in 1 .. n : added[i] \in Requests
  BY DerivedType, LenProperties, ElementOfSeq
<1>2. PICK w : Merges(w, old, added) /\ Merged(old, events) = w[n]
  BY MergedIterates
<1> HIDE DEF added, n
<1> DEFINE P == {i \in 0 .. n : Begins(old, w[i])}
<1>3. 0 \in P
  BY <1>1, <1>2 DEF Merges, Begins, n
<1>4. ASSUME NEW i \in 1 .. n, i - 1 \in P PROVE i \in P
  <2>1. w[i - 1] \in Seq(Requests) /\ Begins(old, w[i - 1])
    BY <1>1, <1>2, <1>4 DEF Merges, n
  <2>2. w[i] = w[i - 1] \/ w[i] = Append(w[i - 1], added[i])
    BY <1>2 DEF Merges, n
  <2>3. Begins(old, w[i])
    BY <1>1, <2>1, <2>2, BeginsSteps
  <2> QED
    BY <1>1, <2>3
<1> HIDE DEF P
<1>5. \A i \in 0 .. n : i \in P
  <2>1. P \in SUBSET (0 .. n)
    BY DEF P
  <2> QED
    BY <1>1, <1>3, <1>4, <2>1, Positions
<1> QED
  BY <1>1, <1>2, <1>5 DEF P

\* Elements of a sequence that grows.
LEMMA ElementsAppend ==
    ASSUME NEW q \in Seq(Requests), NEW x \in Requests
    PROVE  Elements(Append(q, x)) = Elements(q) \cup {x}
<1>1. /\ Len(q) \in Nat /\ DOMAIN q = 1 .. Len(q)
      /\ DOMAIN Append(q, x) = 1 .. Len(q) + 1
      /\ \A i \in 1 .. Len(q) : Append(q, x)[i] = q[i]
      /\ Append(q, x)[Len(q) + 1] = x
  BY AppendProperties, LenProperties
<1> QED
  BY <1>1 DEF Elements

\* Two merges go through the same messages as long as they add the same.
LEMMA MergesAgree ==
    ASSUME NEW old, NEW w, NEW z,
           NEW a \in Seq(Requests), NEW b \in Seq(Requests),
           Merges(w, old, a), Merges(z, old, b), Begins(a, b)
    PROVE  \A i \in 0 .. Len(a) : w[i] = z[i]
<1>1. InStep(w, z, Len(a))
  <2>1. ASSUME NEW i \in 1 .. Len(a), w[i - 1] = z[i - 1] PROVE w[i] = z[i]
    <3>1. i \in 1 .. Len(b) /\ b[i] = a[i]
      BY DEF Begins
    <3>2. w[i] = IF a[i] \in Elements(w[i - 1])
                   THEN w[i - 1] ELSE Append(w[i - 1], a[i])
      BY DEF Merges
    <3>3. z[i] = IF b[i] \in Elements(z[i - 1])
                   THEN z[i - 1] ELSE Append(z[i - 1], b[i])
      BY <3>1 DEF Merges
    <3> QED
      BY <2>1, <3>1, <3>2, <3>3
  <2> QED
    BY <2>1 DEF InStep
<1>2. w[0] = z[0] /\ Len(a) \in Nat
  BY LenProperties DEF Merges
<1> QED
  BY <1>1, <1>2, SameIterates, Zenon

\* No events add nothing.
LEMMA MergedNone ==
    ASSUME NEW old \in Seq(Requests)
    PROVE  Merged(old, << >>) = old
<1>1. << >> \in Seq(Event) /\ Derived(<< >>) = << >> /\ Len(<< >>) = 0
  BY DerivedNone
<1>2. PICK w : /\ Merges(w, old, Derived(<< >>))
               /\ Merged(old, << >>) = w[Len(Derived(<< >>))]
  BY <1>1, MergedIterates
<1> QED
  BY <1>1, <1>2 DEF Merges

\* An event adds its message at the end, unless it is there already.
LEMMA MergedAppend ==
    ASSUME NEW old \in Seq(Requests), NEW events \in Seq(Event), NEW e \in Event
    PROVE  Merged(old, Append(events, e)) =
              IF /\ e.kind = "user"
                 /\ e.request \notin Elements(Merged(old, events))
                THEN Append(Merged(old, events), e.request)
                ELSE Merged(old, events)
<1> DEFINE a == Derived(events)
           more == Append(events, e)
           b == Derived(more)
           n == Len(a)
<1>1. more \in Seq(Event) /\ e.request \in Requests
  BY AppendProperties DEF Event
<1>2. a \in Seq(Requests) /\ b \in Seq(Requests) /\ n \in Nat
  <2> HIDE DEF more
  <2> QED
    BY <1>1, DerivedType, LenProperties
<1>3. b = IF e.kind = "user" THEN Append(a, e.request) ELSE a
  BY DerivedAppend
<1>4. PICK w : Merges(w, old, a) /\ Merged(old, events) = w[n]
  BY MergedIterates
<1> HIDE DEF more
<1>5. PICK z : Merges(z, old, b) /\ Merged(old, more) = z[Len(b)]
  BY <1>1, MergedIterates
<1> HIDE DEF a, b
<1>6. Begins(a, b)
  <2>1. Begins(a, a)
    BY <1>2 DEF Begins
  <2> QED
    BY <1>1, <1>2, <1>3, <2>1, BeginsSteps
<1>7. w[n] = z[n]
  <2>1. \A i \in 0 .. n : w[i] = z[i]
    BY <1>2, <1>4, <1>5, <1>6, MergesAgree
  <2> QED
    BY <1>2, <2>1
<1>8. Merged(old, more) = IF /\ e.kind = "user"
                             /\ e.request \notin Elements(Merged(old, events))
                            THEN Append(Merged(old, events), e.request)
                            ELSE Merged(old, events)
  <2>1. CASE e.kind # "user"
    BY <1>3, <1>4, <1>5, <1>7, <2>1
  <2>2. CASE e.kind = "user"
    <3>1. /\ Len(b) = n + 1 /\ b[n + 1] = e.request
          /\ n + 1 \in 1 .. Len(b) /\ (n + 1) - 1 = n
      BY <1>1, <1>2, <1>3, <2>2, AppendProperties
    <3>2. z[n + 1] = IF b[n + 1] \in Elements(z[(n + 1) - 1])
                       THEN z[(n + 1) - 1]
                       ELSE Append(z[(n + 1) - 1], b[n + 1])
      BY <1>5, <3>1 DEF Merges
    <3> QED
      BY <1>4, <1>5, <1>7, <2>2, <3>1, <3>2
  <2> QED
    BY <2>1, <2>2
<1> QED
  BY <1>8 DEF more

\* So the messages only grow, and so does the set of them.
LEMMA MergedGrows ==
    ASSUME NEW old \in Seq(Requests), NEW events \in Seq(Event), NEW e \in Event,
           NEW p \in Seq(Requests), Begins(p, Merged(old, events))
    PROVE  /\ Begins(p, Merged(old, Append(events, e)))
           /\ Elements(Merged(old, events))
                 \subseteq Elements(Merged(old, Append(events, e)))
<1>1. Merged(old, events) \in Seq(Requests) /\ e.request \in Requests
  BY MergedType DEF Event
<1>2. \/ Merged(old, Append(events, e)) = Merged(old, events)
      \/ Merged(old, Append(events, e)) = Append(Merged(old, events), e.request)
  BY MergedAppend
<1>3. CASE Merged(old, Append(events, e)) = Merged(old, events)
  BY <1>3
<1>4. CASE Merged(old, Append(events, e)) = Append(Merged(old, events), e.request)
  <2> DEFINE m == Merged(old, events)
  <2>1. Begins(p, Append(m, e.request))
    <3> HIDE DEF m
    <3>1. m \in Seq(Requests) /\ Begins(p, m)
      BY <1>1 DEF m
    <3> QED
      BY <1>1, <3>1, BeginsSteps
  <2>2. Elements(m) \subseteq Elements(Append(m, e.request))
    <3> HIDE DEF m
    <3>1. m \in Seq(Requests)
      BY <1>1 DEF m
    <3> QED
      BY <1>1, <3>1, ElementsAppend
  <2> QED
    BY <1>4, <2>1, <2>2
<1> QED
  BY <1>2, <1>3, <1>4

-----------------------------------------------------------------------------
(* Type correctness.                                                       *)

SnapType == [pc : {"off", "top", "sleeping", "captured", "writing"},
             seq : -1 .. MaxSeq, messages : Seq(Requests), index : Index]

\* A turn has its request, and a rollback a message that is there: what is
\* kept is what comes before it.
Typed ==
    /\ TypeOK
    /\ Seq_ <= MaxSeq
    /\ turn.pc # "none" => turn.request \in Requests
    /\ roll.pc = "flushing" => roll.target \in Elements(Merged(baseline, live))

\* The status of a request is one, and so is what is written of it.
LEMMA IndexType ==
    ASSUME NEW events \in Seq(Event), NEW messages \in Seq(Requests),
           NEW index \in Index
    PROVE  /\ NoIndex \in Index
           /\ Captured(events, messages) \in Index
           /\ Updated(index, Captured(events, messages)) \in Index
<1>1. NoIndex \in Index
  BY DEF NoIndex, Index, Statuses
<1>2. \A r \in Requests : StatusIn(events, r) \in Statuses
  BY DEF StatusIn, Statuses
<1>3. Captured(events, messages) \in Index
  BY <1>2 DEF Captured, Index, Statuses
<1>4. \A c \in Index : Updated(index, c) \in Index
  BY DEF Updated, Index
<1> QED
  BY <1>1, <1>3, <1>4

\* A mark starts the task if there is none.
LEMMA MarkTyped ==
    ASSUME Typed, MarkDirty
    PROVE  dirty' \in BOOLEAN /\ newer' \in BOOLEAN /\ snap' \in SnapType
BY DEF Typed, TypeOK, MarkDirty, SnapType

\* An event that is logged takes the next number.
LEMMA LogTyped ==
    ASSUME Typed, NEW kind \in Kinds, NEW r \in Requests, Log(kind, r)
    PROVE  /\ live' = Append(live, [kind |-> kind, request |-> r])
           /\ live' \in Seq(Event) /\ timeline' \in Seq(Event)
           /\ Len(live') = Len(live) + 1
           /\ Seq_ < MaxSeq /\ Seq_' = Seq_ + 1
           /\ baseline' = baseline /\ base' = base /\ seen' = seen
           /\ dirty' \in BOOLEAN /\ newer' \in BOOLEAN /\ snap' \in SnapType
           /\ Elements(Merged(baseline, live))
                 \subseteq Elements(Merged(baseline', live'))
<1> DEFINE e == [kind |-> kind, request |-> r]
<1>1. e \in Event
  BY DEF Event
<1>2. /\ live \in Seq(Event) /\ timeline \in Seq(Event)
      /\ baseline \in Seq(Requests) /\ base \in Int
  BY DEF Typed, TypeOK
<1>3. /\ live' = Append(live, e) /\ timeline' = Append(timeline, e)
      /\ Seq_ < MaxSeq
      /\ baseline' = baseline /\ base' = base /\ seen' = seen
  BY DEF Log
<1> HIDE DEF e
<1>4. /\ live' \in Seq(Event) /\ timeline' \in Seq(Event)
      /\ Len(live') = Len(live) + 1
  BY <1>1, <1>2, <1>3, AppendProperties
<1>5. Seq_' = Seq_ + 1
  BY <1>2, <1>3, <1>4, LenProperties DEF Seq_
<1>6. dirty' \in BOOLEAN /\ newer' \in BOOLEAN /\ snap' \in SnapType
  BY MarkTyped DEF Log
<1>7. Elements(Merged(baseline, live)) \subseteq Elements(Merged(baseline, Append(live, e)))
  <2>1. << >> \in Seq(Requests) /\ Begins(<< >>, Merged(baseline, live))
    BY <1>2, MergedType, LenProperties DEF Begins
  <2> QED
    BY <1>1, <1>2, <2>1, MergedGrows
<1> QED
  BY <1>3, <1>4, <1>5, <1>6, <1>7 DEF e

\* The messages before one of them.
LEMMA KeptType ==
    ASSUME NEW messages \in Seq(Requests), NEW target \in Elements(messages)
    PROVE  LET cut == CHOOSE i \in DOMAIN messages : messages[i] = target
               kept == SubSeq(messages, 1, cut - 1)
           IN  /\ kept \in Seq(Requests)
               /\ Begins(kept, messages)
<1> DEFINE cut == CHOOSE i \in DOMAIN messages : messages[i] = target
           kept == SubSeq(messages, 1, cut - 1)
<1>1. cut \in DOMAIN messages
  BY DEF Elements
<1> HIDE DEF cut
<1>2. cut \in 1 .. Len(messages) /\ Len(messages) \in Nat
  BY <1>1, LenProperties
<1>3. \A i \in 1 .. cut - 1 : messages[i] \in Requests
  BY <1>2, ElementOfSeq
<1>4. /\ kept \in Seq(Requests)
      /\ Len(kept) = IF 1 <= cut - 1 THEN (cut - 1) - 1 + 1 ELSE 0
      /\ \A i \in 1 .. (cut - 1) - 1 + 1 : kept[i] = messages[1 + i - 1]
  BY <1>2, <1>3, SubSeqProperties
<1> HIDE DEF kept
<1>5. Begins(kept, messages)
  BY <1>2, <1>4 DEF Begins
<1> QED
  BY <1>4, <1>5 DEF kept, cut

\* Events up to a number are events.
LEMMA UptoType ==
    ASSUME NEW events \in Seq(Event), NEW seq \in Int, seq >= -1
    PROVE  Upto(events, seq) \in Seq(Event)
<1> DEFINE last == IF seq < Len(events) THEN seq + 1 ELSE Len(events)
<1>1. Len(events) \in Nat /\ last \in Int /\ 0 <= last /\ last <= Len(events)
  BY LenProperties
<1>2. Upto(events, seq) = SubSeq(events, 1, last)
  BY DEF Upto
<1> HIDE DEF last
<1>3. \A i \in 1 .. last : events[i] \in Event
  BY <1>1, ElementOfSeq
<1>4. SubSeq(events, 1, last) \in Seq(Event)
  BY <1>1, <1>3, SubSeqProperties
<1> QED
  BY <1>2, <1>4

\* The parts of the type invariant.
SnapshotTyped ==
    /\ dirty \in BOOLEAN /\ newer \in BOOLEAN
    /\ snap \in SnapType
    /\ flushes \subseteq {"turn", "rollback"} \X (-1 .. MaxSeq)
    /\ flushed \subseteq {"turn", "rollback"} \X {"done", "failed"}
FileTyped ==
    /\ file \in [seq : -1 .. MaxSeq, messages : Seq(Requests), index : Index]
    /\ lock \in {"free", "snapshot", "rollback"}
    /\ answered \subseteq Requests
MemoryTyped ==
    /\ baseline \in Seq(Requests)
    /\ base \in 0 .. MaxSeq + 1
    /\ live \in Seq(Event)
    /\ timeline \in Seq(Event) /\ seen \in Seq(Event)
    /\ Seq_ <= MaxSeq
ActorsTyped ==
    /\ turn \in [pc : {"none", "accepted", "started", "ending"},
                 request : Requests \cup {NoRequest}]
    /\ turn.pc # "none" => turn.request \in Requests
    /\ roll \in [pc : {"none", "flushing", "writing"},
                 target : Requests \cup {NoRequest},
                 seq : -1 .. MaxSeq, kept : Seq(Requests)]
    /\ roll.pc = "flushing" => roll.target \in Elements(Merged(baseline, live))
    /\ up \in BOOLEAN

LEMMA TypedParts ==
    Typed <=> SnapshotTyped /\ FileTyped /\ MemoryTyped /\ ActorsTyped
BY DEF Typed, TypeOK, SnapshotTyped, FileTyped, MemoryTyped, ActorsTyped,
       SnapType

\* The same in the next state.
LEMMA TypedPartsNext ==
    (SnapshotTyped /\ FileTyped /\ MemoryTyped /\ ActorsTyped)' => Typed'
BY DEF Typed, TypeOK, SnapshotTyped, FileTyped, MemoryTyped, ActorsTyped,
       SnapType

\* The number of the last event is one, and so is what a reader may ask for.
LEMMA SeqType ==
    ASSUME Typed
    PROVE  /\ Len(live) \in Nat /\ base \in Int
           /\ Seq_ \in -1 .. MaxSeq /\ Seq_ = base + Len(live) - 1
           /\ MaxSeq \in Nat
           /\ Merged(baseline, live) \in Seq(Requests)
<1>1. /\ baseline \in Seq(Requests) /\ live \in Seq(Event)
      /\ base \in 0 .. MaxSeq + 1 /\ Seq_ <= MaxSeq
  BY TypedParts DEF MemoryTyped
<1>2. Len(live) \in Nat /\ MaxSeq \in Nat
  BY <1>1, LenProperties, SnapshotAssumption
<1>3. Merged(baseline, live) \in Seq(Requests)
  BY <1>1, MergedType
<1> QED
  BY <1>1, <1>2, <1>3 DEF Seq_

\* A turn: what it logs, and what it waits for.
LEMMA TurnTyped ==
    ASSUME Typed,
           \/ \E r \in Requests : Accept(r)
           \/ Refuse \/ Start \/ Returns
           \/ \E outcome \in Outcomes : End(outcome)
    PROVE  Typed'
<1> USE TypedParts
<1>1. ASSUME NEW kind \in Kinds, NEW r \in Requests, Log(kind, r)
      PROVE  /\ MemoryTyped'
             /\ dirty' \in BOOLEAN /\ newer' \in BOOLEAN /\ snap' \in SnapType
             /\ Seq_ + 1 \in -1 .. MaxSeq
             /\ Elements(Merged(baseline, live))
                   \subseteq Elements(Merged(baseline', live'))
  <2>1. Seq_ \in -1 .. MaxSeq /\ MaxSeq \in Nat
    BY SeqType
  <2>2. /\ live' \in Seq(Event) /\ timeline' \in Seq(Event)
        /\ Seq_ < MaxSeq /\ Seq_' = Seq_ + 1
        /\ baseline' = baseline /\ base' = base /\ seen' = seen
        /\ dirty' \in BOOLEAN /\ newer' \in BOOLEAN /\ snap' \in SnapType
        /\ Elements(Merged(baseline, live))
              \subseteq Elements(Merged(baseline', live'))
    BY <1>1, LogTyped
  <2>3. MemoryTyped'
    BY <2>1, <2>2 DEF MemoryTyped
  <2> QED
    BY <2>1, <2>2, <2>3
<1>2. CASE \E r \in Requests : Accept(r)
  <2>1. PICK r \in Requests : Accept(r)
    BY <1>2
  <2>2. CASE Log("user", r)
    BY <1>1, <2>1, <2>2, TypedPartsNext
       DEF Accept, Kinds, SnapshotTyped, FileTyped, ActorsTyped, store
  <2>3. CASE UNCHANGED <<memory, client, dirty, newer, snap>>
    BY <2>1, <2>3, TypedPartsNext
       DEF Accept, SnapshotTyped, FileTyped, ActorsTyped, MemoryTyped, store,
           memory, client, Seq_
  <2> QED
    BY <2>1, <2>2, <2>3 DEF Accept
<1>3. CASE Refuse
  BY <1>3, TypedPartsNext
     DEF Refuse, SnapshotTyped, FileTyped, ActorsTyped, MemoryTyped, store,
         memory, client, pending, Seq_, NoTurn
<1>4. CASE Start
  BY <1>1, <1>4, TypedPartsNext
     DEF Start, Kinds, SnapshotTyped, FileTyped, ActorsTyped, store
<1>5. CASE \E outcome \in Outcomes : End(outcome)
  <2>1. PICK outcome \in Outcomes : End(outcome)
    BY <1>5
  <2>2. outcome \in Kinds
    BY SnapshotAssumption DEF Kinds
  <2>3. turn.request \in Requests
    BY <2>1 DEF End, ActorsTyped
  <2>4. /\ MemoryTyped'
        /\ dirty' \in BOOLEAN /\ newer' \in BOOLEAN /\ snap' \in SnapType
        /\ Seq_ + 1 \in -1 .. MaxSeq
        /\ Elements(Merged(baseline, live))
              \subseteq Elements(Merged(baseline', live'))
    BY <1>1, <2>1, <2>2, <2>3 DEF End
  <2> QED
    BY <2>1, <2>3, <2>4, TypedPartsNext
       DEF End, SnapshotTyped, FileTyped, ActorsTyped, store
<1>6. CASE Returns
  BY <1>6, TypedPartsNext
     DEF Returns, SnapshotTyped, FileTyped, ActorsTyped, MemoryTyped, store,
         memory, client, Seq_, NoTurn
<1> QED
  BY <1>2, <1>3, <1>4, <1>5, <1>6

\* The task that writes snapshots.
LEMMA SnapTyped ==
    ASSUME Typed, SnapStep
    PROVE  Typed'
<1> USE TypedParts
<1>1. NoSnap \in SnapType /\ [NoSnap EXCEPT !.pc = "top"] \in SnapType
  <2>1. NoIndex \in Index
    BY DEF NoIndex, Index, Statuses
  <2>2. -1 \in -1 .. MaxSeq /\ << >> \in Seq(Requests)
    BY SeqType
  <2> QED
    BY <2>1, <2>2 DEF NoSnap, SnapType
<1>2. \A f \in flushes, result \in {"done", "failed"} :
         <<f[1], result>> \in {"turn", "rollback"} \X {"done", "failed"}
  BY DEF SnapshotTyped
<1>3. CASE SnapTop
  BY <1>3, TypedPartsNext
     DEF SnapTop, SnapshotTyped, FileTyped, ActorsTyped, MemoryTyped, store,
         memory, client, Seq_, SnapType
<1>4. CASE SnapCaptures
  <2>1. snap' \in SnapType
    <3> DEFINE messages == Merged(baseline, live)
               index == Captured(live, messages)
    <3>1. messages \in Seq(Requests) /\ Seq_ \in -1 .. MaxSeq
      BY SeqType
    <3>2. index \in Index
      <4> HIDE DEF messages
      <4> QED
        BY ONLY TypedParts, <3>1, IndexType, Typed DEF MemoryTyped, FileTyped
    <3>3. snap' = [pc |-> "captured", seq |-> Seq_, messages |-> messages,
                   index |-> index]
      BY <1>4 DEF SnapCaptures
    <3> HIDE DEF messages, index
    <3> QED
      BY <3>1, <3>2, <3>3 DEF SnapType
  <2> QED
    BY <1>4, <2>1, TypedPartsNext
       DEF SnapCaptures, SnapshotTyped, FileTyped, ActorsTyped, MemoryTyped,
           store, memory, client, Seq_
<1>5. CASE SnapLocks
  BY <1>5, TypedPartsNext
     DEF SnapLocks, SnapshotTyped, FileTyped, ActorsTyped, MemoryTyped,
         memory, client, Seq_, SnapType
<1>6. CASE SnapWritten
  <2>1. SnapshotTyped'
    <3>1. newer' = newer /\ Round
      BY <1>6 DEF SnapWritten
    <3>2. CASE newer
      BY <1>1, <3>1, <3>2 DEF Round, SnapshotTyped
    <3>3. CASE ~newer
      <4>1. /\ dirty' = FALSE /\ snap' = NoSnap /\ flushes' = {}
            /\ flushed' = flushed \cup {<<f[1], "done">> : f \in flushes}
        BY <3>1, <3>3 DEF Round
      <4>2. flushed' \subseteq {"turn", "rollback"} \X {"done", "failed"}
        BY <1>2, <4>1 DEF SnapshotTyped
      <4> QED
        BY <1>1, <3>1, <4>1, <4>2 DEF SnapshotTyped
    <3> QED
      BY <3>2, <3>3
  <2>2. FileTyped'
    <3>1. CASE file.seq > snap.seq
      BY <1>6, <3>1 DEF SnapWritten, FileTyped
    <3>2. CASE ~(file.seq > snap.seq)
      <4> DEFINE index == Updated(file.index, snap.index)
      <4>1. index \in Index
        BY DEF FileTyped, SnapshotTyped, SnapType, Updated, Index
      <4>2. /\ file' = [seq |-> snap.seq, messages |-> snap.messages,
                        index |-> index]
            /\ answered' = answered \cup
                  {r \in Requests : index[r] = "completed"}
            /\ lock' = "free"
        BY <1>6, <3>2 DEF SnapWritten
      <4> HIDE DEF index
      <4> QED
        BY <4>1, <4>2 DEF FileTyped, SnapshotTyped, SnapType
    <3> QED
      BY <3>1, <3>2
  <2> QED
    BY <1>6, <2>1, <2>2, TypedPartsNext
       DEF SnapWritten, ActorsTyped, MemoryTyped, memory, client, Seq_
<1>7. CASE SnapFails
  BY <1>1, <1>2, <1>7, TypedPartsNext
     DEF SnapFails, SnapshotTyped, FileTyped, ActorsTyped, MemoryTyped,
         memory, client, Seq_
<1> QED
  BY <1>3, <1>4, <1>5, <1>6, <1>7 DEF SnapStep

\* A rollback.
LEMMA RollbackTyped ==
    ASSUME Typed,
           RollbackStep \/ \E target \in Requests : Rollback(target)
    PROVE  Typed'
<1> USE TypedParts
<1>1. CASE \E target \in Requests : Rollback(target)
  <2>1. PICK target \in Requests : Rollback(target)
    BY <1>1
  <2>2. dirty' \in BOOLEAN /\ newer' \in BOOLEAN /\ snap' \in SnapType
    BY <2>1, MarkTyped DEF Rollback
  <2>3. Seq_ \in -1 .. MaxSeq
    BY SeqType
  <2>4. roll' = [pc |-> "flushing", target |-> target, seq |-> -1,
                 kept |-> << >>]
    BY <2>1 DEF Rollback, NoRoll
  <2>5. -1 \in -1 .. MaxSeq /\ << >> \in Seq(Requests)
    BY SeqType
  <2>6. /\ turn' = turn /\ up' = up /\ baseline' = baseline /\ live' = live
        /\ target \in Elements(Merged(baseline, live))
    BY <2>1 DEF Rollback, memory
  <2>7. ActorsTyped'
    <3>1. /\ roll'.pc = "flushing" /\ roll'.target = target
          /\ roll' \in [pc : {"none", "flushing", "writing"},
                        target : Requests \cup {NoRequest},
                        seq : -1 .. MaxSeq, kept : Seq(Requests)]
      BY <2>4, <2>5
    <3> QED
      BY <2>6, <3>1 DEF ActorsTyped
  <2> QED
    <3>1. MemoryTyped' /\ FileTyped'
      BY <2>1 DEF Rollback, FileTyped, MemoryTyped, store, memory, client, Seq_
    <3>2. flushes' = flushes \cup {<<"rollback", Seq_>>} /\ flushed' = flushed
      BY <2>1 DEF Rollback
    <3>3. SnapshotTyped'
      BY <2>2, <2>3, <3>2 DEF SnapshotTyped
    <3> QED
      BY <2>7, <3>1, <3>3, TypedPartsNext
<1>2. NoRoll \in [pc : {"none", "flushing", "writing"},
                  target : Requests \cup {NoRequest},
                  seq : -1 .. MaxSeq, kept : Seq(Requests)]
      /\ NoRoll.pc = "none"
  BY SeqType DEF NoRoll
<1>3. CASE RollbackGivesUp
  <2>1. flushed' \subseteq flushed
    BY <1>3 DEF RollbackGivesUp
  <2> QED
    BY <1>2, <1>3, <2>1, TypedPartsNext
       DEF RollbackGivesUp, SnapshotTyped, FileTyped, ActorsTyped, MemoryTyped,
           store, memory, client, Seq_
<1>4. CASE RollbackLocks
  <2> DEFINE messages == Merged(baseline, live)
             cut == CHOOSE i \in DOMAIN messages : messages[i] = roll.target
             kept == SubSeq(messages, 1, cut - 1)
  <2>1. messages \in Seq(Requests) /\ roll.target \in Elements(messages)
    BY <1>4, SeqType DEF RollbackLocks, ActorsTyped
  <2>2. kept \in Seq(Requests)
    <3> HIDE DEF messages
    <3> QED
      BY <2>1, KeptType
  <2>3. roll' = [roll EXCEPT !.pc = "writing", !.seq = file.seq,
                             !.kept = kept]
    BY <1>4 DEF RollbackLocks
  <2> HIDE DEF messages, cut, kept
  <2>4. ActorsTyped'
    BY <1>4, <2>2, <2>3 DEF RollbackLocks, ActorsTyped, FileTyped
  <2> QED
    BY <1>4, <2>4, TypedPartsNext
       DEF RollbackLocks, SnapshotTyped, FileTyped, MemoryTyped, memory,
           client, Seq_
<1>5. CASE RollbackCommits
  <2>1. /\ roll.kept \in Seq(Requests) /\ roll.seq \in -1 .. MaxSeq
        /\ MaxSeq \in Nat
    BY SeqType DEF ActorsTyped
  <2>2. FileTyped'
    BY <1>5, <2>1 DEF RollbackCommits, FileTyped, KeptSeq, Index, Statuses
  <2>3. Upto(timeline, roll.seq) \in Seq(Event)
    <3>1. timeline \in Seq(Event) /\ roll.seq \in Int /\ roll.seq >= -1
      BY <2>1 DEF MemoryTyped
    <3> QED
      BY <3>1, UptoType
  <2>4. /\ baseline' = roll.kept /\ live' = << >> /\ base' = roll.seq + 1
        /\ timeline' = Upto(timeline, roll.seq) /\ seen' = seen
    BY <1>5 DEF RollbackCommits, KeptSeq
  <2>5. MemoryTyped'
    <3>1. Len(live') = 0 /\ live' \in Seq(Event)
      BY <2>4
    <3>2. Seq_' = roll.seq
      BY <2>1, <2>4, <3>1 DEF Seq_
    <3>3. base' \in 0 .. MaxSeq + 1 /\ roll.seq <= MaxSeq
      BY <2>1, <2>4
    <3> QED
      BY <2>1, <2>3, <2>4, <3>1, <3>2, <3>3 DEF MemoryTyped
  <2> QED
    BY <1>2, <1>5, <2>2, <2>5, TypedPartsNext
       DEF RollbackCommits, SnapshotTyped, ActorsTyped, pending
<1>6. CASE RollbackFails
  BY <1>2, <1>6, TypedPartsNext
     DEF RollbackFails, SnapshotTyped, FileTyped, ActorsTyped, MemoryTyped,
         pending, memory, client, Seq_
<1> QED
  BY <1>1, <1>3, <1>4, <1>5, <1>6 DEF RollbackStep

\* A client that attaches, and the process.
LEMMA ProcessTyped ==
    ASSUME Typed, Attach \/ Crash \/ Restart
    PROVE  Typed'
<1> USE TypedParts
<1>1. CASE Attach
  <2> DEFINE after == Len(seen) - 1
             first == IF after < base THEN 1 ELSE after - base + 2
  <2>1. /\ Len(seen) \in Nat /\ base \in Int /\ Len(live) \in Nat
        /\ Seq_ = base + Len(live) - 1
        /\ live \in Seq(Event) /\ seen \in Seq(Event) /\ timeline \in Seq(Event)
    BY SeqType, LenProperties DEF MemoryTyped
  <2>2. seen' = IF after < file.seq \/ after > Seq_
                  THEN timeline ELSE seen \o Tail_(after)
    BY <1>1 DEF Attach
  <2>3. Tail_(after) = SubSeq(live, first, Len(live))
    BY DEF Tail_
  <2>4. first \in Int /\ 1 <= first
    BY <2>1
  <2> HIDE DEF after, first
  <2>5. Tail_(after) \in Seq(Event)
    <3>1. \A i \in first .. Len(live) : live[i] \in Event
      BY <2>1, <2>4, ElementOfSeq
    <3> QED
      BY <2>1, <2>3, <2>4, <3>1, SubSeqProperties
  <2>6. seen \o Tail_(after) \in Seq(Event)
    BY <2>1, <2>5, ConcatProperties
  <2>7. seen' \in Seq(Event)
    BY <2>1, <2>2, <2>6
  <2>8. /\ UNCHANGED <<file, lock, answered>>
        /\ UNCHANGED <<baseline, base, live, timeline>>
        /\ UNCHANGED <<dirty, newer, snap, flushes, flushed, turn, roll, up>>
    BY <1>1 DEF Attach, store, memory, pending
  <2> QED
    BY <2>7, <2>8, TypedPartsNext
       DEF SnapshotTyped, FileTyped, ActorsTyped, MemoryTyped, Seq_
<1>2. CASE Crash
  <2>1. /\ file.seq \in -1 .. MaxSeq /\ file.messages \in Seq(Requests)
        /\ MaxSeq \in Nat
    BY SeqType DEF FileTyped
  <2>2. Upto(timeline, file.seq) \in Seq(Event)
    <3>1. timeline \in Seq(Event) /\ file.seq \in Int /\ file.seq >= -1
      BY <2>1 DEF MemoryTyped
    <3> QED
      BY <3>1, UptoType
  <2>3. /\ baseline' = file.messages /\ base' = file.seq + 1 /\ live' = << >>
        /\ timeline' = Upto(timeline, file.seq) /\ seen' = seen
    BY <1>2 DEF Crash
  <2>4. MemoryTyped'
    <3>1. Len(live') = 0 /\ live' \in Seq(Event)
      BY <2>3
    <3>2. Seq_' = file.seq
      BY <2>1, <2>3, <3>1 DEF Seq_
    <3>3. base' \in 0 .. MaxSeq + 1 /\ file.seq <= MaxSeq
      BY <2>1, <2>3
    <3> QED
      BY <2>1, <2>2, <2>3, <3>1, <3>2, <3>3 DEF MemoryTyped
  <2>5. SnapshotTyped'
    <3>1. NoIndex \in Index
      BY DEF NoIndex, Index, Statuses
    <3>2. -1 \in -1 .. MaxSeq /\ << >> \in Seq(Requests)
      BY <2>1
    <3> QED
      BY <1>2, <3>1, <3>2 DEF Crash, NoSnap, SnapType, SnapshotTyped
  <2>6. ActorsTyped' /\ FileTyped'
    <3>1. -1 \in -1 .. MaxSeq /\ << >> \in Seq(Requests)
      BY <2>1
    <3> QED
      BY <1>2, <3>1 DEF Crash, NoTurn, NoRoll, ActorsTyped, FileTyped
  <2> QED
    BY <2>4, <2>5, <2>6, TypedPartsNext
<1>3. CASE Restart
  BY <1>3, TypedPartsNext
     DEF Restart, SnapshotTyped, FileTyped, ActorsTyped, MemoryTyped, store,
         memory, pending, client, Seq_
<1> QED
  BY <1>1, <1>2, <1>3

\* A session begins without events, messages or requests.
LEMMA InitTyped ==
    ASSUME Init
    PROVE  Typed
<1>1. MaxSeq \in Nat
  BY SnapshotAssumption
<1>2. /\ NoIndex \in Index /\ -1 \in -1 .. MaxSeq
      /\ << >> \in Seq(Requests) /\ << >> \in Seq(Event) /\ Len(<< >>) = 0
  BY <1>1 DEF NoIndex, Index, Statuses
<1>3. SnapshotTyped /\ FileTyped
  BY <1>2 DEF Init, SnapshotTyped, FileTyped, NoSnap, SnapType
<1>4. MemoryTyped
  BY <1>1, <1>2 DEF Init, MemoryTyped, Seq_
<1>5. ActorsTyped
  BY <1>2 DEF Init, ActorsTyped, NoTurn, NoRoll
<1> QED
  BY <1>3, <1>4, <1>5, TypedParts

\* Every step keeps the types.
LEMMA StepTyped ==
    ASSUME Typed, [Next]_vars
    PROVE  Typed'
<1>1. CASE UNCHANGED vars
  BY <1>1, TypedParts, TypedPartsNext
     DEF vars, SnapshotTyped, FileTyped, ActorsTyped, MemoryTyped, store,
         memory, pending, client, Seq_
<1> QED
  BY <1>1, TurnTyped, SnapTyped, RollbackTyped, ProcessTyped DEF Next

\* Whatever fails, is rolled back or crashes: every variable has its type, and
\* a rollback always finds the message it cuts at (rollback_session raises
\* otherwise).
THEOREM SnapshotTypes == Spec => []Typed
<1>1. Init => Typed
  BY InitTyped
<1>2. Typed /\ [Next]_vars => Typed'
  BY StepTyped
<1> QED
  BY <1>1, <1>2, PTL DEF Spec

-----------------------------------------------------------------------------
(* The lock, and the number of the file.                                   *)

\* Who writes has the lock; the file has the number a rollback has read.
Locked ==
    /\ snap.pc = "writing" => lock = "snapshot"
    /\ roll.pc = "writing" => lock = "rollback" /\ roll.seq = file.seq

\* What leaves the file, the lock and the rollback alone: the turn, a client,
\* a restart.  It may log an event and start the task of the snapshots.
QuietStep ==
    /\ UNCHANGED <<file, lock, baseline, base, roll>>
    /\ live' = live \/ \E e \in Event : live' = Append(live, e)
    /\ snap' = snap \/ (snap.pc = "off" /\ snap'.pc = "top")
    /\ \A f \in flushes' : f[1] = "rollback" => f \in flushes
    /\ \A result \in {"done", "failed"} :
          <<"rollback", result>> \in flushed' => <<"rollback", result>> \in flushed

LEMMA QuietSteps ==
    ASSUME Typed,
           \/ \E r \in Requests : Accept(r)
           \/ Refuse \/ Start \/ Returns
           \/ \E outcome \in Outcomes : End(outcome)
           \/ Attach \/ Restart \/ UNCHANGED vars
    PROVE  QuietStep
<1> USE TypedParts
<1>1. ASSUME MarkDirty
      PROVE  snap' = snap \/ (snap.pc = "off" /\ snap'.pc = "top")
  BY <1>1 DEF MarkDirty, SnapshotTyped, SnapType
<1>2. ASSUME NEW kind \in Kinds, NEW r \in Requests, Log(kind, r)
      PROVE  /\ baseline' = baseline /\ base' = base
             /\ \E e \in Event : live' = Append(live, e)
             /\ snap' = snap \/ (snap.pc = "off" /\ snap'.pc = "top")
  <2>1. [kind |-> kind, request |-> r] \in Event
    BY DEF Event
  <2> QED
    BY <1>1, <1>2, <2>1 DEF Log
<1>3. CASE \E r \in Requests : Accept(r)
  <2>1. PICK r \in Requests : Accept(r)
    BY <1>3
  <2>2. CASE Log("user", r)
    BY <1>2, <2>1, <2>2 DEF Accept, Kinds, QuietStep, store
  <2>3. CASE UNCHANGED <<memory, client, dirty, newer, snap>>
    BY <2>1, <2>3 DEF Accept, QuietStep, store, memory
  <2> QED
    BY <2>1, <2>2, <2>3 DEF Accept
<1>4. CASE Refuse
  BY <1>4 DEF Refuse, QuietStep, store, memory, pending
<1>5. CASE Start
  BY <1>2, <1>5 DEF Start, Kinds, QuietStep, store, ActorsTyped
<1>6. CASE Returns
  BY <1>6 DEF Returns, QuietStep, store, memory
<1>7. CASE \E outcome \in Outcomes : End(outcome)
  <2>1. PICK outcome \in Outcomes : End(outcome)
    BY <1>7
  <2>2. outcome \in Kinds
    BY SnapshotAssumption DEF Kinds
  <2>3. turn.request \in Requests
    BY <2>1 DEF End, ActorsTyped
  <2>4. /\ baseline' = baseline /\ base' = base
        /\ \E e \in Event : live' = Append(live, e)
        /\ snap' = snap \/ (snap.pc = "off" /\ snap'.pc = "top")
    BY <1>2, <2>1, <2>2, <2>3 DEF End
  <2> QED
    BY <2>1, <2>4 DEF End, QuietStep, store
<1>8. CASE Attach \/ Restart \/ UNCHANGED vars
  BY <1>8 DEF Attach, Restart, vars, QuietStep, store, memory, pending
<1> QED
  BY <1>3, <1>4, <1>5, <1>6, <1>7, <1>8

\* A step keeps the lock where it is needed, and the file its number.
LEMMA LockedStep ==
    ASSUME Typed, Locked, [Next]_vars
    PROVE  Locked' /\ file'.seq >= file.seq
<1> USE TypedParts
<1>1. /\ file.seq \in Int /\ snap.seq \in Int /\ roll.seq \in Int
      /\ snap \in SnapType
  BY SeqType DEF FileTyped, SnapshotTyped, ActorsTyped, SnapType
<1>2. CASE QuietStep
  BY <1>1, <1>2 DEF QuietStep, Locked
<1>3. ASSUME NEW target \in Requests, Rollback(target)
      PROVE  Locked' /\ file'.seq >= file.seq
  BY <1>1, <1>3 DEF Rollback, MarkDirty, Locked, NoRoll, store, SnapType
<1>4. CASE SnapTop
  BY <1>1, <1>4 DEF SnapTop, Locked, store, SnapType
<1>5. CASE SnapCaptures
  BY <1>1, <1>5 DEF SnapCaptures, Locked, store
<1>6. CASE SnapLocks
  BY <1>1, <1>6 DEF SnapLocks, Locked
<1>7. CASE SnapWritten
  <2>1. snap'.pc # "writing"
    BY <1>7 DEF SnapWritten, Round, NoSnap
  <2>2. roll' = roll /\ roll.pc # "writing"
    BY <1>7 DEF SnapWritten, Locked
  <2>3. file'.seq >= file.seq
    BY <1>1, <1>7 DEF SnapWritten
  <2> QED
    BY <2>1, <2>2, <2>3 DEF Locked
<1>8. CASE SnapFails
  BY <1>1, <1>8 DEF SnapFails, Locked, NoSnap
<1>9. CASE RollbackGivesUp
  BY <1>1, <1>9 DEF RollbackGivesUp, Locked, NoRoll, store
<1>10. CASE RollbackLocks
  <2>1. roll'.seq = file.seq /\ roll'.pc = "writing" /\ lock' = "rollback"
    BY <1>10 DEF RollbackLocks, ActorsTyped
  <2> QED
    BY <1>1, <1>10, <2>1 DEF RollbackLocks, Locked
<1>11. CASE RollbackCommits
  BY <1>1, <1>11 DEF RollbackCommits, Locked, NoRoll, KeptSeq, pending
<1>12. CASE RollbackFails
  BY <1>1, <1>12 DEF RollbackFails, Locked, NoRoll, pending
<1>13. CASE Crash
  BY <1>1, <1>13 DEF Crash, Locked, NoRoll, NoSnap
<1> QED
  BY <1>2, <1>3, <1>4, <1>5, <1>6, <1>7, <1>8, <1>9, <1>10, <1>11, <1>12, <1>13,
     QuietSteps DEF Next, SnapStep, RollbackStep

\* The number of the file never goes back: a snapshot that comes late is not
\* written (_write_snapshot), and a rollback keeps the number its flush has
\* reached (rollback_session).
THEOREM FileNumbersGrow == Spec => SeqNeverGoesBack
<1>1. Init => Locked
  BY DEF Init, Locked, NoSnap, NoRoll
<1>2. Typed /\ Locked /\ [Next]_vars => Locked'
  BY LockedStep
<1>3. Typed /\ Locked /\ [Next]_vars => [file'.seq >= file.seq]_vars
  BY LockedStep
<1>4. Spec => []Typed
  BY SnapshotTypes
<1> QED
  BY <1>1, <1>2, <1>3, <1>4, PTL DEF Spec, SeqNeverGoesBack

-----------------------------------------------------------------------------
(* What the messages of a snapshot cover.                                  *)

\* The messages are those of a baseline and of the events up to a number,
\* when the first of the events has the number b.
Covers(b, old, events, seq, messages) ==
    /\ b - 1 <= seq /\ seq <= b + Len(events) - 1
    /\ messages = Merged(old, SubSeq(events, 1, seq - b + 1))

\* What is logged later leaves that alone.
LEMMA CoversMore ==
    ASSUME NEW b \in Int, NEW old, NEW events \in Seq(Event), NEW e \in Event,
           NEW seq \in Int, NEW messages, Covers(b, old, events, seq, messages)
    PROVE  Covers(b, old, Append(events, e), seq, messages)
<1> DEFINE more == Append(events, e)
           k == seq - b + 1
<1>1. /\ more \in Seq(Event) /\ Len(more) = Len(events) + 1
      /\ Len(events) \in Nat
      /\ \A i \in 1 .. Len(events) : more[i] = events[i]
  BY AppendProperties, LenProperties
<1>2. k \in Int /\ k >= 0 /\ k <= Len(events)
  BY <1>1 DEF Covers
<1> HIDE DEF more, k
<1>3. SubSeq(more, 1, k) = SubSeq(events, 1, k)
  <2>1. \A i \in 1 .. k : events[i] \in Event /\ more[i] = events[i]
    BY <1>1, <1>2, ElementOfSeq
  <2> QED
    BY <1>1, <1>2, <2>1
<1>4. messages = Merged(old, SubSeq(events, 1, k))
  BY DEF Covers, k
<1>5. messages = Merged(old, SubSeq(more, 1, k))
  BY <1>3, <1>4
<1>6. b - 1 <= seq /\ seq <= b + Len(more) - 1
  BY <1>1, <1>2 DEF k
<1>7. Covers(b, old, more, seq, messages)
  BY <1>5, <1>6, Zenon DEF Covers, k
<1> QED
  BY <1>7 DEF more

\* All the events, and none.
LEMMA CoversAll ==
    ASSUME NEW b \in Int, NEW old \in Seq(Requests), NEW events \in Seq(Event)
    PROVE  /\ Covers(b, old, events, b + Len(events) - 1, Merged(old, events))
           /\ Covers(b, old, << >>, b - 1, old)
<1> DEFINE last == b + Len(events) - 1
<1>1. /\ Len(events) \in Nat
      /\ last - b + 1 = Len(events)
      /\ b - 1 <= last /\ last <= b + Len(events) - 1
  BY LenProperties
<1>2. SubSeq(events, 1, Len(events)) = events
  BY SubSeqFull
<1>3. Covers(b, old, events, last, Merged(old, events))
  <2> HIDE DEF last
  <2> QED
    BY <1>1, <1>2, Zenon DEF Covers
<1>4. Covers(b, old, << >>, b - 1, old)
  <2> DEFINE first == b - 1
             none == << >>
  <2>1. /\ first - b + 1 = 0 /\ Len(none) = 0
        /\ b - 1 <= first /\ first <= b + Len(none) - 1
    OBVIOUS
  <2>2. SubSeq(none, 1, 0) = none
    BY SubSeqEmpty
  <2>3. Merged(old, none) = old
    BY MergedNone
  <2>4. Covers(b, old, none, first, old)
    <3> HIDE DEF first, none
    <3> QED
      BY <2>1, <2>2, <2>3, Zenon DEF Covers
  <2> QED
    BY <2>4
<1> QED
  BY <1>3, <1>4

\* Messages that cover at least the last event cover all of them.
LEMMA CoversLast ==
    ASSUME NEW b \in Int, NEW old \in Seq(Requests), NEW events \in Seq(Event),
           NEW seq \in Int, NEW messages,
           Covers(b, old, events, seq, messages), seq >= b + Len(events) - 1
    PROVE  messages = Merged(old, events)
<1>1. Len(events) \in Nat /\ seq <= b + Len(events) - 1
  BY LenProperties DEF Covers
<1>2. seq - b + 1 = Len(events)
  BY <1>1
<1>3. SubSeq(events, 1, Len(events)) = events
  BY SubSeqFull
<1> QED
  BY <1>2, <1>3, Zenon DEF Covers

\* The messages with which a life, or a rollback, has left the memory are in
\* front of what a snapshot has captured; if it is not older than the file, it
\* may be written.
Holding == snap.pc \in {"captured", "writing"}
Fresh == Covers(base, baseline, live, snap.seq, snap.messages)

\* A rollback has one flush: it is waiting, or done, or failed.
OneFlush ==
    /\ \A result \in {"done", "failed"} :
          <<"rollback", result>> \in flushed =>
             /\ roll.pc = "flushing"
             /\ \A f \in flushes : f[1] # "rollback"
    /\ <<"rollback", "done">> \notin flushed \/ <<"rollback", "failed">> \notin flushed
    /\ \A f \in flushes : f[1] = "rollback" => roll.pc = "flushing"

\* What is captured once the flush of a rollback is done covers the events it
\* says it covers: nothing has been cut since.
FreshAfterFlush ==
    roll.pc = "flushing" /\ <<"rollback", "done">> \in flushed /\ Holding => Fresh

\* What a rollback keeps is in front of all that may be written after it.
KeptInFront ==
    roll.pc = "writing" =>
       /\ Begins(roll.kept, Merged(baseline, live))
       /\ Holding /\ snap.seq >= roll.seq => Begins(roll.kept, snap.messages)

BaselineInFront ==
    /\ Begins(baseline, file.messages)
    /\ Holding /\ snap.seq >= file.seq => Begins(baseline, snap.messages)

History == OneFlush /\ FreshAfterFlush /\ KeptInFront /\ BaselineInFront

\* The same, of the variables these depend on.
LEMMA HistoryQuiet ==
    ASSUME Typed, History, QuietStep
    PROVE  History'
<1> USE TypedParts
<1>1. UNCHANGED <<file, lock, baseline, base, roll>>
  BY DEF QuietStep
<1>2. \/ Holding' /\ Holding /\ snap' = snap
      \/ ~Holding'
  BY DEF QuietStep, Holding
<1>3. OneFlush'
  BY DEF QuietStep, History, OneFlush
<1>4. FreshAfterFlush'
  <2>1. SUFFICES ASSUME roll.pc = "flushing", <<"rollback", "done">> \in flushed',
                        Holding'
                 PROVE  Fresh'
    BY <1>1 DEF FreshAfterFlush
  <2>2. Fresh /\ snap' = snap
    BY <1>2, <2>1 DEF QuietStep, History, FreshAfterFlush
  <2>3. /\ base \in Int /\ live \in Seq(Event) /\ snap.seq \in Int
    BY SeqType DEF MemoryTyped, SnapshotTyped, SnapType
  <2>4. Covers(base, baseline, live', snap.seq, snap.messages)
    BY <2>2, <2>3, CoversMore DEF QuietStep, Fresh
  <2> QED
    BY <1>1, <2>2, <2>4 DEF Fresh
<1>5. KeptInFront'
  <2>1. SUFFICES ASSUME roll.pc = "writing"
                 PROVE  /\ Begins(roll.kept, Merged(baseline, live'))
                        /\ Holding' /\ snap'.seq >= roll.seq
                              => Begins(roll.kept, snap'.messages)
    BY <1>1 DEF KeptInFront
  <2>2. /\ Begins(roll.kept, Merged(baseline, live))
        /\ Holding /\ snap.seq >= roll.seq => Begins(roll.kept, snap.messages)
    BY <2>1 DEF History, KeptInFront
  <2>3. /\ live \in Seq(Event) /\ baseline \in Seq(Requests)
        /\ roll.kept \in Seq(Requests)
    BY DEF MemoryTyped, ActorsTyped
  <2>4. Begins(roll.kept, Merged(baseline, live'))
    BY <2>2, <2>3, MergedGrows DEF QuietStep
  <2> QED
    BY <1>2, <2>2, <2>4
<1>6. BaselineInFront'
  BY <1>1, <1>2 DEF History, BaselineInFront
<1> QED
  BY <1>3, <1>4, <1>5, <1>6 DEF History

\* What the task captures begins with all it has to.
LEMMA HistorySnap ==
    ASSUME Typed, Locked, History, SnapStep
    PROVE  History'
<1> USE TypedParts DEF History
<1>1. /\ base \in Int /\ baseline \in Seq(Requests) /\ live \in Seq(Event)
      /\ file.seq \in Int /\ snap.seq \in Int /\ roll.seq \in Int
      /\ snap \in SnapType
      /\ Seq_ = base + Len(live) - 1
  BY SeqType DEF MemoryTyped, FileTyped, SnapshotTyped, ActorsTyped, SnapType
<1>2. UNCHANGED <<baseline, base, live, roll>>
  BY DEF SnapStep, SnapTop, SnapCaptures, SnapLocks, SnapWritten, SnapFails,
         memory
<1>3. CASE SnapTop
  <2>1. ~Holding'
    BY <1>1, <1>3 DEF SnapTop, Holding, SnapType
  <2>2. UNCHANGED <<file, flushes, flushed>>
    BY <1>3 DEF SnapTop, store
  <2> QED
    BY <1>2, <2>1, <2>2
       DEF OneFlush, FreshAfterFlush, KeptInFront, BaselineInFront
<1>4. CASE SnapCaptures
  <2>1. /\ UNCHANGED <<file, flushes, flushed>>
        /\ snap'.seq = Seq_ /\ snap'.messages = Merged(baseline, live)
    BY <1>4 DEF SnapCaptures, store
  <2>2. Covers(base, baseline, live, snap'.seq, snap'.messages)
    BY <1>1, <2>1, CoversAll
  <2>3. Begins(baseline, snap'.messages)
    BY <1>1, <2>1, MergedBegins
  <2>4. Fresh'
    BY <1>2, <2>2 DEF Fresh
  <2> QED
    BY <1>2, <2>1, <2>3, <2>4
       DEF OneFlush, FreshAfterFlush, KeptInFront, BaselineInFront
<1>5. CASE SnapLocks
  <2>1. /\ UNCHANGED <<file, flushes, flushed>>
        /\ snap'.seq = snap.seq /\ snap'.messages = snap.messages
        /\ Holding
    BY <1>1, <1>5 DEF SnapLocks, Holding, SnapType
  <2>2. Fresh => Fresh'
    BY <1>2, <2>1 DEF Fresh
  <2> QED
    BY <1>2, <2>1, <2>2
       DEF OneFlush, FreshAfterFlush, KeptInFront, BaselineInFront
<1>6. ASSUME SnapWritten \/ SnapFails
      PROVE  OneFlush' /\ FreshAfterFlush' /\ KeptInFront'
  <2>1. ~Holding'
    BY <1>6 DEF SnapWritten, SnapFails, Round, NoSnap, Holding
  <2>2. \/ UNCHANGED <<flushes, flushed>>
        \/ /\ flushes' = {}
           /\ \E result \in {"done", "failed"} :
                 flushed' = flushed \cup {<<f[1], result>> : f \in flushes}
    BY <1>6 DEF SnapWritten, SnapFails, Round
  <2>3. OneFlush'
    <3>1. CASE UNCHANGED <<flushes, flushed>>
      BY <1>2, <3>1 DEF OneFlush
    <3>2. CASE /\ flushes' = {}
               /\ \E result \in {"done", "failed"} :
                     flushed' = flushed \cup {<<f[1], result>> : f \in flushes}
      <4>1. PICK result \in {"done", "failed"} :
               flushed' = flushed \cup {<<f[1], result>> : f \in flushes}
        BY <3>2
      <4>2. ASSUME NEW x \in {"done", "failed"},
                   <<"rollback", x>> \in flushed', <<"rollback", x>> \notin flushed
            PROVE  x = result /\ \E f \in flushes : f[1] = "rollback"
        BY <4>1, <4>2
      <4> QED
        BY <1>2, <3>2, <4>1, <4>2 DEF OneFlush
    <3> QED
      BY <2>2, <3>1, <3>2
  <2>4. roll.pc # "writing" \/ roll' = roll
    BY <1>2
  <2> QED
    BY <1>2, <2>1, <2>3 DEF FreshAfterFlush, KeptInFront
<1>7. CASE SnapWritten
  <2>1. ~Holding' /\ Holding
    BY <1>7 DEF SnapWritten, Round, NoSnap, Holding
  <2>2. Begins(baseline, file'.messages)
    BY <1>1, <1>7, <2>1 DEF SnapWritten, BaselineInFront
  <2> QED
    BY <1>2, <1>6, <1>7, <2>1, <2>2 DEF BaselineInFront
<1>8. CASE SnapFails
  <2>1. ~Holding' /\ file' = file
    BY <1>8 DEF SnapFails, NoSnap, Holding
  <2> QED
    BY <1>2, <1>6, <1>8, <2>1 DEF BaselineInFront
<1> QED
  BY <1>3, <1>4, <1>5, <1>7, <1>8 DEF SnapStep

\* A rollback keeps the messages before its target, in what is written too.
LEMMA HistoryRollback ==
    ASSUME Typed, Locked, History,
           RollbackStep \/ \E target \in Requests : Rollback(target)
    PROVE  History'
<1> USE TypedParts DEF History
<1>1. /\ base \in Int /\ baseline \in Seq(Requests) /\ live \in Seq(Event)
      /\ file.seq \in Int /\ snap.seq \in Int /\ roll.seq \in Int
      /\ snap \in SnapType /\ roll.kept \in Seq(Requests)
      /\ Seq_ = base + Len(live) - 1
      /\ Merged(baseline, live) \in Seq(Requests)
  BY SeqType DEF MemoryTyped, FileTyped, SnapshotTyped, ActorsTyped, SnapType
<1>2. CASE \E target \in Requests : Rollback(target)
  <2>1. PICK target \in Requests : Rollback(target)
    BY <1>2
  <2>2. /\ UNCHANGED <<file, baseline, base, live, flushed>>
        /\ flushes' = flushes \cup {<<"rollback", Seq_>>}
        /\ roll.pc = "none" /\ roll'.pc = "flushing"
    BY <2>1 DEF Rollback, store, memory, NoRoll
  <2>3. ~Holding' \/ (Holding /\ snap' = snap)
    BY <1>1, <2>1 DEF Rollback, MarkDirty, Holding, SnapType
  <2>4. OneFlush'
    BY <2>2 DEF OneFlush
  <2>5. <<"rollback", "done">> \notin flushed'
    BY <2>2 DEF OneFlush
  <2> QED
    BY <2>2, <2>3, <2>4, <2>5
       DEF FreshAfterFlush, KeptInFront, BaselineInFront
<1>3. CASE RollbackGivesUp
  <2>1. /\ UNCHANGED <<file, baseline, base, live, snap, flushes>>
        /\ roll.pc = "flushing" /\ roll' = NoRoll /\ NoRoll.pc = "none"
        /\ \E result \in {"done", "failed"} :
              /\ <<"rollback", result>> \in flushed
              /\ flushed' = flushed \ {<<"rollback", result>>}
    BY <1>3 DEF RollbackGivesUp, store, memory, NoRoll
  <2>2. OneFlush'
    BY <2>1 DEF OneFlush
  <2> QED
    BY <2>1, <2>2
       DEF FreshAfterFlush, KeptInFront, BaselineInFront, Holding
<1>4. CASE RollbackLocks
  <2> DEFINE messages == Merged(baseline, live)
             cut == CHOOSE i \in DOMAIN messages : messages[i] = roll.target
             kept == SubSeq(messages, 1, cut - 1)
  <2>1. messages \in Seq(Requests) /\ roll.target \in Elements(messages)
    BY <1>1, <1>4 DEF RollbackLocks, ActorsTyped
  <2>2. kept \in Seq(Requests) /\ Begins(kept, messages)
    <3> HIDE DEF messages
    <3> QED
      BY <2>1, KeptType
  <2>3. roll' = [roll EXCEPT !.pc = "writing", !.seq = file.seq,
                             !.kept = kept]
    BY <1>4 DEF RollbackLocks
  <2> HIDE DEF cut, kept
  <2>4. roll'.pc = "writing" /\ roll'.kept = kept /\ roll'.seq = file.seq
    BY <2>3 DEF ActorsTyped
  <2>5. /\ UNCHANGED <<file, baseline, base, live, snap, flushes>>
        /\ roll.pc = "flushing" /\ <<"rollback", "done">> \in flushed
        /\ flushed' = flushed \ {<<"rollback", "done">>}
        /\ file.seq >= Seq_
    BY <1>4 DEF RollbackLocks, memory
  <2>6. ASSUME Holding, snap.seq >= file.seq PROVE snap.messages = messages
    <3>1. Covers(base, baseline, live, snap.seq, snap.messages)
      BY <2>5, <2>6 DEF FreshAfterFlush, Fresh
    <3>2. snap.seq >= base + Len(live) - 1
      BY <1>1, <2>5, <2>6, SeqType
    <3> QED
      BY <1>1, <3>1, <3>2, CoversLast
  <2>7. KeptInFront'
    BY <2>2, <2>4, <2>5, <2>6 DEF KeptInFront, Holding
  <2>8. OneFlush'
    BY <2>4, <2>5 DEF OneFlush
  <2> QED
    BY <2>4, <2>5, <2>7, <2>8 DEF FreshAfterFlush, BaselineInFront, Holding
<1>5. CASE RollbackCommits
  <2>1. /\ file'.messages = roll.kept /\ file'.seq = roll.seq
        /\ baseline' = roll.kept
        /\ roll.pc = "writing" /\ roll' = NoRoll /\ NoRoll.pc = "none"
        /\ UNCHANGED <<flushes, flushed, snap>>
    BY <1>5 DEF RollbackCommits, KeptSeq, NoRoll, pending
  <2>2. BaselineInFront'
    <3>1. Begins(roll.kept, roll.kept)
      BY <1>1, LenProperties DEF Begins
    <3>2. Holding /\ snap.seq >= roll.seq => Begins(roll.kept, snap.messages)
      BY <2>1 DEF KeptInFront
    <3> QED
      BY <2>1, <3>1, <3>2 DEF BaselineInFront, Holding
  <2>3. OneFlush'
    BY <2>1 DEF OneFlush
  <2> QED
    BY <2>1, <2>2, <2>3 DEF FreshAfterFlush, KeptInFront
<1>6. CASE RollbackFails
  <2>1. /\ UNCHANGED <<file, baseline, base, live, snap, flushes, flushed>>
        /\ roll.pc = "writing" /\ roll' = NoRoll /\ NoRoll.pc = "none"
    BY <1>6 DEF RollbackFails, memory, pending, NoRoll
  <2> QED
    BY <2>1 DEF OneFlush, FreshAfterFlush, KeptInFront, BaselineInFront, Holding
<1> QED
  BY <1>2, <1>3, <1>4, <1>5, <1>6 DEF RollbackStep

\* A crash leaves the file, and the memory begins with its messages.
LEMMA HistoryStep ==
    ASSUME Typed, Locked, History, [Next]_vars
    PROVE  History'
<1>1. CASE Crash
  <2>1. /\ file' = file /\ baseline' = file.messages
        /\ snap'.pc = "off" /\ roll'.pc = "none"
        /\ flushes' = {} /\ flushed' = {}
    BY <1>1 DEF Crash, NoSnap, NoRoll
  <2>2. file.messages \in Seq(Requests)
    BY TypedParts DEF FileTyped
  <2>3. Begins(file.messages, file.messages)
    BY <2>2, LenProperties DEF Begins
  <2> QED
    BY <2>1, <2>3 DEF History, OneFlush, FreshAfterFlush, KeptInFront,
                      BaselineInFront, Holding
<1> QED
  BY <1>1, QuietSteps, HistoryQuiet, HistorySnap, HistoryRollback DEF Next

\* The messages a life of the Session began with, or a rollback left, stay in
\* the file, whatever is rolled back, fails or crashes (_write_snapshot and
\* rollback_session write the file in turns, and the numbers tell them which
\* of them is older).
THEOREM HistoryStays == Spec => []HistoryIsKept
<1>1. Init => Locked /\ History
  <2>1. Begins(<< >>, << >>)
    BY DEF Begins
  <2>2. ASSUME Init
        PROVE  /\ baseline = << >> /\ file.messages = << >>
               /\ snap.pc = "off" /\ roll.pc = "none"
               /\ flushes = {} /\ flushed = {}
    BY <2>2 DEF Init, NoSnap, NoRoll
  <2> QED
    BY <2>1, <2>2 DEF Locked, History, OneFlush, FreshAfterFlush, KeptInFront,
                      BaselineInFront, Holding
<1>2. Typed /\ Locked /\ History /\ [Next]_vars => (Locked /\ History)'
  BY LockedStep, HistoryStep
<1>3. Typed /\ History => HistoryIsKept
  <2>1. SUFFICES ASSUME Typed, History PROVE HistoryIsKept
    OBVIOUS
  <2>2. /\ baseline \in Seq(Requests) /\ file.messages \in Seq(Requests)
        /\ Begins(baseline, file.messages)
    BY <2>1, TypedParts
       DEF History, BaselineInFront, MemoryTyped, FileTyped
  <2> QED
    BY <2>2, BeginsIsFirstPart DEF HistoryIsKept
<1>4. Spec => []Typed
  BY SnapshotTypes
<1> QED
  BY <1>1, <1>2, <1>3, <1>4, PTL DEF Spec

-----------------------------------------------------------------------------
(* A Session that is not rolled back.                                      *)

\* The live events are the last of the timeline.
LiveEnds(b, events, all) ==
    /\ Len(all) = b + Len(events)
    /\ \A i \in 1 .. Len(events) : all[b + i] = events[i]

\* The numbers count one history: the file covers it up to its number, and so
\* does what is captured, up to the last event if nothing has come since; a
\* flush waits for an event there has been.
Counted ==
    /\ roll.pc = "none"
    /\ Covers(base, baseline, live, file.seq, file.messages)
    /\ Holding => Fresh
    /\ Holding /\ ~newer => snap.seq >= Seq_
    /\ \A f \in flushes : f[2] <= Seq_
    /\ LiveEnds(base, live, timeline)

\* What the steps of a turn do to that: nothing, or one event more.
CountStep ==
    /\ UNCHANGED <<file, baseline, base, roll>>
    /\ \/ /\ UNCHANGED <<live, timeline, newer, snap>>
          /\ flushes' \subseteq flushes
       \/ \E e \in Event :
             /\ live' = Append(live, e) /\ timeline' = Append(timeline, e)
             /\ newer' = TRUE
             /\ snap' = snap \/ snap'.pc = "top"
             /\ Seq_' = Seq_ + 1
             /\ flushes' \subseteq flushes \cup {<<"turn", Seq_ + 1>>}

LEMMA CountSteps ==
    ASSUME Typed,
           \/ \E r \in Requests : Accept(r)
           \/ Refuse \/ Start \/ Returns
           \/ \E outcome \in Outcomes : End(outcome)
           \/ Attach \/ Restart \/ UNCHANGED vars
    PROVE  CountStep
<1> USE TypedParts
<1>1. ASSUME NEW kind \in Kinds, NEW r \in Requests, Log(kind, r)
      PROVE  /\ baseline' = baseline /\ base' = base
             /\ \E e \in Event :
                   /\ live' = Append(live, e) /\ timeline' = Append(timeline, e)
                   /\ newer' = TRUE
                   /\ snap' = snap \/ snap'.pc = "top"
                   /\ Seq_' = Seq_ + 1
  <2>1. [kind |-> kind, request |-> r] \in Event
    BY DEF Event
  <2>2. Seq_' = Seq_ + 1
    BY <1>1, LogTyped
  <2>3. snap' = snap \/ snap'.pc = "top"
    BY <1>1 DEF Log, MarkDirty, SnapshotTyped, SnapType
  <2> QED
    BY <1>1, <2>1, <2>2, <2>3 DEF Log, MarkDirty
<1>2. CASE \E r \in Requests : Accept(r)
  <2>1. PICK r \in Requests : Accept(r)
    BY <1>2
  <2>2. CASE Log("user", r)
    BY <1>1, <2>1, <2>2 DEF Accept, Kinds, CountStep, store
  <2>3. CASE UNCHANGED <<memory, client, dirty, newer, snap>>
    BY <2>1, <2>3 DEF Accept, CountStep, store, memory, client
  <2> QED
    BY <2>1, <2>2, <2>3 DEF Accept
<1>3. CASE Refuse
  BY <1>3 DEF Refuse, CountStep, store, memory, pending, client
<1>4. CASE Start
  BY <1>1, <1>4 DEF Start, Kinds, CountStep, store, ActorsTyped
<1>5. CASE Returns
  BY <1>5 DEF Returns, CountStep, store, memory, client
<1>6. CASE \E outcome \in Outcomes : End(outcome)
  <2>1. PICK outcome \in Outcomes : End(outcome)
    BY <1>6
  <2>2. outcome \in Kinds
    BY SnapshotAssumption DEF Kinds
  <2>3. turn.request \in Requests
    BY <2>1 DEF End, ActorsTyped
  <2>4. /\ Log(outcome, turn.request)
        /\ flushes' = flushes \cup {<<"turn", Seq_ + 1>>}
        /\ file' = file /\ roll' = roll
    BY <2>1 DEF End, store
  <2> QED
    BY <1>1, <2>2, <2>3, <2>4 DEF CountStep
<1>7. CASE Attach \/ Restart \/ UNCHANGED vars
  BY <1>7 DEF Attach, Restart, vars, CountStep, store, memory, pending, client
<1> QED
  BY <1>2, <1>3, <1>4, <1>5, <1>6, <1>7

\* One event more is one more at the end of both.
LEMMA LiveEndsMore ==
    ASSUME NEW b \in Nat, NEW events \in Seq(Event), NEW all \in Seq(Event),
           NEW e \in Event, LiveEnds(b, events, all)
    PROVE  LiveEnds(b, Append(events, e), Append(all, e))
<1> DEFINE more == Append(events, e)
           longer == Append(all, e)
<1>1. /\ Len(more) = Len(events) + 1 /\ Len(longer) = Len(all) + 1
      /\ Len(events) \in Nat /\ Len(all) \in Nat
      /\ \A i \in 1 .. Len(events) : more[i] = events[i]
      /\ \A i \in 1 .. Len(all) : longer[i] = all[i]
      /\ more[Len(events) + 1] = e /\ longer[Len(all) + 1] = e
  BY AppendProperties, LenProperties
<1> HIDE DEF more, longer
<1>2. Len(all) = b + Len(events)
  BY DEF LiveEnds
<1>3. ASSUME NEW i \in 1 .. Len(more) PROVE longer[b + i] = more[i]
  <2>1. CASE i \in 1 .. Len(events)
    <3>1. b + i \in 1 .. Len(all)
      BY <1>1, <1>2, <2>1
    <3> QED
      BY <1>1, <2>1, <3>1 DEF LiveEnds
  <2>2. CASE i = Len(events) + 1
    <3>1. b + i = Len(all) + 1
      BY <1>1, <1>2, <2>2
    <3> QED
      BY <1>1, <2>2, <3>1
  <2> QED
    BY <1>1, <2>1, <2>2
<1>4. LiveEnds(b, more, longer)
  BY <1>1, <1>2, <1>3 DEF LiveEnds
<1> QED
  BY <1>4 DEF more, longer

LEMMA CountedQuiet ==
    ASSUME Typed, Counted, CountStep
    PROVE  Counted'
<1> USE TypedParts
<1>1. /\ base \in Int /\ base \in Nat /\ live \in Seq(Event)
      /\ timeline \in Seq(Event)
      /\ file.seq \in Int /\ snap.seq \in Int /\ Seq_ \in Int
      /\ \A f \in flushes : f[2] \in Int
  BY SeqType DEF MemoryTyped, FileTyped, SnapshotTyped, SnapType
<1>2. UNCHANGED <<file, baseline, base, roll>>
  BY DEF CountStep
<1>3. CASE UNCHANGED <<live, timeline, newer, snap>> /\ flushes' \subseteq flushes
  <2>1. Seq_' = Seq_
    BY <1>2, <1>3 DEF Seq_
  <2>2. Fresh => Fresh'
    BY <1>2, <1>3 DEF Fresh
  <2> QED
    BY <1>2, <1>3, <2>1, <2>2 DEF Counted, Holding
<1>4. ASSUME NEW e \in Event,
             live' = Append(live, e), timeline' = Append(timeline, e),
             newer' = TRUE, snap' = snap \/ snap'.pc = "top",
             Seq_' = Seq_ + 1,
             flushes' \subseteq flushes \cup {<<"turn", Seq_ + 1>>}
      PROVE  Counted'
  <2>1. Covers(base, baseline, live', file.seq, file.messages)
    BY <1>1, <1>4, CoversMore DEF Counted
  <2>2. Holding' => Fresh'
    <3>1. SUFFICES ASSUME Holding' PROVE Fresh'
      OBVIOUS
    <3>2. Holding /\ snap' = snap
      BY <1>4, <3>1 DEF Holding
    <3>3. Covers(base, baseline, live', snap.seq, snap.messages)
      BY <1>1, <1>4, <3>2, CoversMore DEF Counted, Fresh
    <3> QED
      BY <1>2, <3>2, <3>3 DEF Fresh
  <2>3. \A f \in flushes' : f[2] <= Seq_'
    <3>1. ASSUME NEW f \in flushes' PROVE f[2] <= Seq_ + 1
      <4>1. CASE f \in flushes
        BY <1>1, <4>1 DEF Counted
      <4>2. CASE f = <<"turn", Seq_ + 1>>
        BY <1>1, <4>2
      <4> QED
        BY <1>4, <3>1, <4>1, <4>2
    <3> QED
      BY <1>4, <3>1
  <2>4. LiveEnds(base, live', timeline')
    BY <1>1, <1>4, LiveEndsMore DEF Counted
  <2> QED
    BY <1>2, <1>4, <2>1, <2>2, <2>3, <2>4 DEF Counted
<1> QED
  BY <1>3, <1>4 DEF CountStep

LEMMA CountedSnap ==
    ASSUME Typed, Counted, SnapStep
    PROVE  Counted'
<1> USE TypedParts
<1>1. /\ base \in Int /\ baseline \in Seq(Requests) /\ live \in Seq(Event)
      /\ file.seq \in Int /\ snap.seq \in Int
      /\ Seq_ \in Int /\ Seq_ = base + Len(live) - 1
      /\ snap \in SnapType
  BY SeqType DEF MemoryTyped, FileTyped, SnapshotTyped, SnapType
<1>2. /\ UNCHANGED <<baseline, base, live, timeline, roll>>
      /\ flushes' \subseteq flushes
  BY DEF SnapStep, SnapTop, SnapCaptures, SnapLocks, SnapWritten, SnapFails,
         Round, memory, client
<1>3. Seq_' = Seq_
  BY <1>2 DEF Seq_
<1>4. CASE SnapTop
  <2>1. ~Holding' /\ file' = file
    BY <1>1, <1>4 DEF SnapTop, Holding, SnapType, store
  <2> QED
    BY <1>2, <1>3, <2>1 DEF Counted
<1>5. CASE SnapCaptures
  <2>1. snap'.seq = Seq_ /\ snap'.messages = Merged(baseline, live) /\ file' = file
    BY <1>5 DEF SnapCaptures, store
  <2>2. Covers(base, baseline, live, snap'.seq, snap'.messages)
    BY <1>1, <2>1, CoversAll
  <2>3. Fresh'
    BY <1>2, <2>2 DEF Fresh
  <2> QED
    BY <1>1, <1>2, <1>3, <2>1, <2>3 DEF Counted
<1>6. CASE SnapLocks
  <2>1. /\ UNCHANGED <<file, newer>>
        /\ snap'.seq = snap.seq /\ snap'.messages = snap.messages
        /\ Holding
    BY <1>1, <1>6 DEF SnapLocks, Holding, SnapType
  <2>2. Fresh => Fresh'
    BY <1>2, <2>1 DEF Fresh
  <2> QED
    BY <1>2, <1>3, <2>1, <2>2 DEF Counted
<1>7. CASE SnapWritten
  <2>1. ~Holding' /\ Holding
    BY <1>7 DEF SnapWritten, Round, NoSnap, Holding
  <2>2. Covers(base, baseline, live, snap.seq, snap.messages)
    BY <2>1 DEF Counted, Fresh
  <2>3. \/ file' = file
        \/ file'.seq = snap.seq /\ file'.messages = snap.messages
    BY <1>7 DEF SnapWritten
  <2>4. Covers(base, baseline, live, file'.seq, file'.messages)
    BY <2>2, <2>3 DEF Counted
  <2> QED
    BY <1>2, <1>3, <2>1, <2>4 DEF Counted
<1>8. CASE SnapFails
  <2>1. ~Holding' /\ file' = file
    BY <1>8 DEF SnapFails, NoSnap, Holding
  <2> QED
    BY <1>2, <1>3, <2>1 DEF Counted
<1> QED
  BY <1>4, <1>5, <1>6, <1>7, <1>8 DEF SnapStep

\* A restart goes on from the file, with the timeline up to its number.
LEMMA CountedCrash ==
    ASSUME Typed, Counted, Crash
    PROVE  Counted'
<1> USE TypedParts
<1>1. /\ base \in Int /\ live \in Seq(Event) /\ timeline \in Seq(Event)
      /\ Len(live) \in Nat /\ Len(timeline) \in Nat
      /\ file.seq \in Int /\ file.seq >= -1 /\ file.messages \in Seq(Requests)
  BY SeqType, LenProperties DEF MemoryTyped, FileTyped
<1>2. /\ file' = file /\ baseline' = file.messages /\ base' = file.seq + 1
      /\ live' = << >> /\ timeline' = Upto(timeline, file.seq)
      /\ snap'.pc = "off" /\ roll'.pc = "none" /\ flushes' = {}
  BY DEF Crash, NoSnap, NoRoll
<1>3. Covers(base', baseline', live', file'.seq, file'.messages)
  <2>1. file.seq + 1 \in Int /\ (file.seq + 1) - 1 = file.seq /\ << >> \in Seq(Event)
    BY <1>1
  <2>2. Covers(file.seq + 1, file.messages, << >>, (file.seq + 1) - 1,
               file.messages)
    BY <1>1, <2>1, CoversAll
  <2> QED
    BY <1>2, <2>1, <2>2
<1>4. LiveEnds(base', live', timeline')
  <2>1. file.seq < Len(timeline)
    BY <1>1 DEF Counted, Covers, LiveEnds
  <2>2. timeline' = SubSeq(timeline, 1, file.seq + 1)
    BY <1>2, <2>1 DEF Upto
  <2>3. \A i \in 1 .. file.seq + 1 : timeline[i] \in Event
    BY <1>1, <2>1, ElementOfSeq
  <2>4. Len(timeline') = file.seq + 1
    BY <1>1, <2>2, <2>3, SubSeqProperties
  <2> QED
    BY <1>1, <1>2, <2>4 DEF LiveEnds
<1> QED
  BY <1>2, <1>3, <1>4 DEF Counted, Holding

LEMMA CountedStep ==
    ASSUME MayRollback = FALSE, Typed, Counted, [Next]_vars
    PROVE  Counted'
<1>1. ~RollbackStep /\ \A r \in Requests : ~Rollback(r)
  BY DEF Counted, RollbackStep, RollbackGivesUp, RollbackLocks,
         RollbackCommits, RollbackFails, Rollback
<1> QED
  BY <1>1, CountSteps, CountedQuiet, CountedSnap, CountedCrash DEF Next

\* Of a Session that is not rolled back, all this holds always.
LEMMA AlwaysCounted == ASSUME MayRollback = FALSE PROVE Spec => []Counted
<1>1. Init => Counted
  <2>1. SUFFICES ASSUME Init PROVE Counted
    OBVIOUS
  <2>2. /\ base = 0 /\ baseline = << >> /\ live = << >> /\ timeline = << >>
        /\ file.seq = -1 /\ file.messages = << >>
        /\ snap.pc = "off" /\ roll.pc = "none" /\ flushes = {}
    BY <2>1 DEF Init, NoSnap, NoRoll
  <2>3. Covers(0, << >>, << >>, 0 - 1, << >>)
    <3>1. 0 \in Int /\ << >> \in Seq(Requests) /\ << >> \in Seq(Event)
      OBVIOUS
    <3> QED
      BY <3>1, CoversAll, Zenon
  <2>4. 0 - 1 = -1
    OBVIOUS
  <2>5. LiveEnds(0, << >>, << >>)
    BY DEF LiveEnds
  <2> QED
    BY <2>2, <2>3, <2>4, <2>5 DEF Counted, Holding
<1>2. Typed /\ Counted /\ [Next]_vars => Counted'
  BY CountedStep
<1>3. Spec => []Typed
  BY SnapshotTypes
<1> QED
  BY <1>1, <1>2, <1>3, PTL DEF Spec

\* The file covers the events up to its number, no more and no less
\* (_write_snapshot captures events, messages and number together; log() goes
\* on from the file), as long as nothing is rolled back.
THEOREM FileMatchesItsNumber ==
    ASSUME MayRollback = FALSE
    PROVE  Spec => []SnapshotMatchesItsSeq
<1>1. Typed /\ Counted => SnapshotMatchesItsSeq
  <2>1. Typed => Seq_ = base + Len(live) - 1
    BY SeqType
  <2> QED
    BY <2>1, Zenon DEF Counted, Covers, SnapshotMatchesItsSeq
<1> QED
  BY <1>1, SnapshotTypes, AlwaysCounted, PTL

\* A flush that is told "done" has what was logged before it in the file
\* (flush_log waits for a snapshot of its generation), as long as nothing is
\* rolled back.
THEOREM FlushesAreBarriers ==
    ASSUME MayRollback = FALSE
    PROVE  Spec => FlushIsABarrier
<1> DEFINE Barrier == \A f \in flushes :
              <<f[1], "done">> \in flushed' \ flushed => file'.seq >= f[2]
<1>1. Typed /\ Counted /\ [Next]_vars => Barrier
  <2>1. SUFFICES ASSUME Typed, Counted, [Next]_vars, NEW f \in flushes,
                        <<f[1], "done">> \in flushed' \ flushed
                 PROVE  file'.seq >= f[2]
    OBVIOUS
  <2>2. /\ file.seq \in Int /\ snap.seq \in Int /\ Seq_ \in Int /\ f[2] \in Int
    BY <2>1, TypedParts, SeqType DEF FileTyped, SnapshotTyped, SnapType
  <2>3. SnapWritten /\ ~newer
    <3>1. \A q : flushed' = flushed \ {q} => FALSE
      BY <2>1
    <3>2. flushed' # flushed /\ flushed' # {}
      BY <2>1
    <3>3. ~SnapFails
      BY <2>1 DEF SnapFails
    <3> QED
      BY <2>1, <3>1, <3>2, <3>3
         DEF Next, Accept, Refuse, Start, End, Returns, Rollback, SnapStep,
             SnapTop, SnapCaptures, SnapLocks, SnapWritten, Round,
             RollbackStep, RollbackGivesUp, RollbackLocks, RollbackCommits,
             RollbackFails, Attach, Crash, Restart, vars, pending
  <2>4. snap.seq >= Seq_ /\ f[2] <= Seq_
    BY <2>1, <2>3 DEF Counted, Holding, SnapWritten
  <2>5. file'.seq >= snap.seq
    BY <2>2, <2>3 DEF SnapWritten
  <2>6. file'.seq \in Int
    BY <2>2, <2>3 DEF SnapWritten
  <2> QED
    BY <2>2, <2>4, <2>5, <2>6
<1>2. Typed /\ Counted /\ [Next]_vars => [Barrier]_vars
  BY <1>1
<1> QED
  BY <1>2, SnapshotTypes, AlwaysCounted, PTL DEF Spec, FlushIsABarrier

\* The events after a number follow those up to it.
LEMMA TailFollows ==
    ASSUME NEW b \in Nat, NEW events \in Seq(Event), NEW all \in Seq(Event),
           LiveEnds(b, events, all),
           NEW n \in Nat, b <= n, n <= Len(all)
    PROVE  SubSeq(all, 1, n) \o SubSeq(events, n - b + 1, Len(events)) = all
<1> DEFINE first == n - b + 1
           head == SubSeq(all, 1, n)
           tail == SubSeq(events, first, Len(events))
<1>1. /\ Len(all) \in Nat /\ Len(events) \in Nat
      /\ Len(all) = b + Len(events)
      /\ first \in Int /\ 1 <= first
      /\ \A i \in 1 .. n : all[i] \in Event
      /\ \A i \in first .. Len(events) : events[i] \in Event
  BY LenProperties, ElementOfSeq DEF LiveEnds
<1> HIDE DEF first
<1>2. /\ head \in Seq(Event) /\ Len(head) = n
      /\ \A i \in 1 .. n : head[i] = all[i]
  BY <1>1, SubSeqProperties
<1>3. /\ tail \in Seq(Event)
      /\ Len(tail) = Len(events) - first + 1
      /\ \A i \in 1 .. Len(events) - first + 1 : tail[i] = events[first + i - 1]
  BY <1>1, SubSeqProperties DEF first
<1> HIDE DEF head, tail
<1>4. Len(tail) = Len(all) - n
  BY <1>1, <1>3 DEF first
<1>5. /\ head \o tail \in Seq(Event)
      /\ Len(head \o tail) = Len(all)
      /\ \A i \in 1 .. Len(all) :
            (head \o tail)[i] = IF i <= n THEN head[i] ELSE tail[i - n]
  <2>1. /\ head \o tail \in Seq(Event)
        /\ Len(head \o tail) = Len(head) + Len(tail)
        /\ \A i \in 1 .. Len(head) + Len(tail) :
              (head \o tail)[i] = IF i <= Len(head) THEN head[i]
                                                    ELSE tail[i - Len(head)]
    BY <1>2, <1>3, ConcatProperties
  <2>2. Len(head) + Len(tail) = Len(all)
    BY <1>1, <1>2, <1>4
  <2> QED
    BY <1>2, <2>1, <2>2
<1>6. ASSUME NEW i \in 1 .. Len(all) PROVE (head \o tail)[i] = all[i]
  <2>1. CASE i <= n
    BY <1>2, <1>5, <2>1
  <2>2. CASE ~(i <= n)
    <3>1. /\ i - n \in 1 .. Len(events) - first + 1
          /\ first + (i - n) - 1 = i - b
          /\ i - b \in 1 .. Len(events) /\ b + (i - b) = i
      BY <1>1, <2>2 DEF first
    <3>2. tail[i - n] = events[i - b]
      BY <1>3, <3>1
    <3>3. events[i - b] = all[i]
      BY <3>1 DEF LiveEnds
    <3> QED
      BY <1>5, <2>2, <3>2, <3>3
  <2> QED
    BY <2>1, <2>2
<1>7. head \o tail = all
  BY <1>5, <1>6, SeqEqual
<1> QED
  BY <1>7 DEF head, tail, first

\* A client whose events are those of the Session has them all after an attach
\* (events_after sends what is missing, or has the client fetch the messages),
\* as long as nothing is rolled back.
THEOREM ClientsCatchUp ==
    ASSUME MayRollback = FALSE
    PROVE  Spec => ClientCatchesUp
<1> DEFINE Catch == Attach /\ seen = Upto(timeline, Len(seen) - 1)
                       => seen' = timeline
<1>1. Typed /\ Counted => Catch
  <2>1. SUFFICES ASSUME Typed, Counted, Attach,
                        seen = Upto(timeline, Len(seen) - 1)
                 PROVE  seen' = timeline
    OBVIOUS
  <2> DEFINE after == Len(seen) - 1
  <2>2. /\ base \in Nat /\ live \in Seq(Event) /\ timeline \in Seq(Event)
        /\ Len(live) \in Nat /\ Len(seen) \in Nat /\ Len(timeline) \in Nat
        /\ file.seq \in Int /\ Seq_ = base + Len(live) - 1
    BY <2>1, TypedParts, SeqType, LenProperties DEF MemoryTyped, FileTyped
  <2>3. seen' = IF after < file.seq \/ after > Seq_
                  THEN timeline ELSE seen \o Tail_(after)
    BY <2>1 DEF Attach
  <2>4. CASE after < file.seq \/ after > Seq_
    BY <2>3, <2>4
  <2>5. CASE ~(after < file.seq \/ after > Seq_)
    <3>1. base - 1 <= file.seq /\ LiveEnds(base, live, timeline)
      BY <2>1 DEF Counted, Covers
    <3>2. Len(timeline) = base + Len(live)
      BY <3>1 DEF LiveEnds
    <3>3. base <= Len(seen) /\ Len(seen) <= Len(timeline)
          /\ after < Len(timeline) /\ after + 1 = Len(seen)
      BY <2>2, <2>5, <3>1, <3>2
    <3>4. seen = SubSeq(timeline, 1, Len(seen))
      BY <2>1, <3>3 DEF Upto
    <3>5. Tail_(after) = SubSeq(live, Len(seen) - base + 1, Len(live))
      <4>1. (IF after < base THEN 1 ELSE after - base + 2) = Len(seen) - base + 1
        BY <2>2, <3>3
      <4> QED
        BY <4>1, Zenon DEF Tail_
    <3>6. SubSeq(timeline, 1, Len(seen))
             \o SubSeq(live, Len(seen) - base + 1, Len(live)) = timeline
      <4>1. ASSUME NEW n \in Nat, base <= n, n <= Len(timeline)
            PROVE  SubSeq(timeline, 1, n)
                      \o SubSeq(live, n - base + 1, Len(live)) = timeline
        BY <2>2, <3>1, <4>1, TailFollows
      <4>2. Len(seen) \in Nat /\ base <= Len(seen) /\ Len(seen) <= Len(timeline)
        BY <2>2, <3>3
      <4> QED
        BY <4>1, <4>2, Zenon
    <3> QED
      BY <2>3, <2>5, <3>4, <3>5, <3>6
  <2> QED
    BY <2>4, <2>5
<1>2. Typed /\ Counted /\ [Next]_vars => [Catch]_vars
  BY <1>1
<1> QED
  BY <1>2, SnapshotTypes, AlwaysCounted, PTL DEF Spec, ClientCatchesUp

-----------------------------------------------------------------------------
(* A snapshot may be taken anywhere.                                       *)

\* The first i events are the first i - 1, and one more.
LEMMA FirstEvents ==
    ASSUME NEW events \in Seq(Event), NEW i \in 1 .. Len(events)
    PROVE  /\ SubSeq(events, 1, i - 1) \in Seq(Event)
           /\ events[i] \in Event
           /\ SubSeq(events, 1, i) = Append(SubSeq(events, 1, i - 1), events[i])
<1> DEFINE less == SubSeq(events, 1, i - 1)
           upto == SubSeq(events, 1, i)
           more == Append(less, events[i])
<1>1. /\ Len(events) \in Nat /\ i \in Int /\ i - 1 \in Int
      /\ \A j \in 1 .. i : events[j] \in Event
      /\ \A j \in 1 .. i - 1 : events[j] \in Event
      /\ events[i] \in Event
  BY LenProperties, ElementOfSeq
<1>2. /\ less \in Seq(Event) /\ Len(less) = i - 1
      /\ \A j \in 1 .. i - 1 : less[j] = events[j]
  BY <1>1, SubSeqProperties
<1>3. /\ upto \in Seq(Event) /\ Len(upto) = i
      /\ \A j \in 1 .. i : upto[j] = events[j]
  BY <1>1, SubSeqProperties
<1> HIDE DEF less, upto
<1>4. /\ more \in Seq(Event) /\ Len(more) = i
      /\ \A j \in 1 .. i - 1 : more[j] = less[j]
      /\ more[i] = events[i]
  BY <1>1, <1>2, AppendProperties
<1> HIDE DEF more
<1>5. \A j \in 1 .. i : upto[j] = more[j]
  BY <1>1, <1>2, <1>3, <1>4
<1>6. upto = more
  BY <1>3, <1>4, <1>5, SeqEqual
<1> QED
  BY <1>1, <1>2, <1>6 DEF less, upto, more

\* Events that are added to the messages of earlier ones leave the messages of
\* them all: where the file of a Session was written, and the process started
\* again, makes no difference to its messages (_merge_messages).
THEOREM MergedInTwo ==
    ASSUME NEW old \in Seq(Requests),
           NEW first \in Seq(Event), NEW then \in Seq(Event)
    PROVE  Merged(Merged(old, first), then) = Merged(old, first \o then)
<1> DEFINE n == Len(then)
           part(i) == SubSeq(then, 1, i)
           once(i) == Merged(old, first \o part(i))
           twice(i) == Merged(Merged(old, first), part(i))
           P == {i \in 0 .. n : once(i) = twice(i)}
<1>1. /\ n \in Nat /\ Merged(old, first) \in Seq(Requests)
      /\ part(0) = << >> /\ part(n) = then
      /\ first \o << >> = first
  BY LenProperties, MergedType, SubSeqEmpty, SubSeqFull, ConcatEmptySeq
<1>2. 0 \in P
  <2>1. once(0) = twice(0)
    BY <1>1, MergedNone
  <2> QED
    BY <1>1, <2>1
<1>3. ASSUME NEW i \in 1 .. n, i - 1 \in P PROVE i \in P
  <2> DEFINE p == part(i - 1)
             e == then[i]
             m == Merged(old, first)
  <2>1. p \in Seq(Event) /\ e \in Event /\ part(i) = Append(p, e)
    BY FirstEvents
  <2>2. Merged(old, first \o p) = Merged(m, p)
    BY <1>3
  <2>3. m \in Seq(Requests)
    BY <1>1
  <2> HIDE DEF p, e, m
  <2>4. first \o p \in Seq(Event) /\ first \o Append(p, e) = Append(first \o p, e)
    <3>1. /\ Append(p, e) = p \o << e >>
          /\ << e >> \in Seq(Event)
          /\ first \o p \in Seq(Event)
          /\ Append(first \o p, e) = (first \o p) \o << e >>
      BY <2>1, AppendIsConcat, ConcatProperties
    <3>2. first \o (p \o << e >>) = (first \o p) \o << e >>
      BY <2>1, <3>1, ConcatAssociative
    <3> QED
      BY <3>1, <3>2
  <2>5. Merged(old, Append(first \o p, e)) =
           IF /\ e.kind = "user"
              /\ e.request \notin Elements(Merged(old, first \o p))
             THEN Append(Merged(old, first \o p), e.request)
             ELSE Merged(old, first \o p)
    <3> DEFINE q == first \o p
    <3>1. q \in Seq(Event)
      BY <2>4
    <3> HIDE DEF q
    <3>2. Merged(old, Append(q, e)) =
             IF /\ e.kind = "user"
                /\ e.request \notin Elements(Merged(old, q))
               THEN Append(Merged(old, q), e.request)
               ELSE Merged(old, q)
      BY <2>1, <3>1, MergedAppend
    <3> QED
      BY <3>2 DEF q
  <2>6. Merged(m, Append(p, e)) =
           IF /\ e.kind = "user"
              /\ e.request \notin Elements(Merged(m, p))
             THEN Append(Merged(m, p), e.request)
             ELSE Merged(m, p)
    BY <2>1, <2>3, MergedAppend
  <2>7. Merged(old, first \o Append(p, e)) = Merged(m, Append(p, e))
    BY <2>2, <2>4, <2>5, <2>6
  <2>8. once(i) = twice(i)
    BY <2>1, <2>7 DEF m
  <2> QED
    BY <1>1, <2>8
<1>4. n \in P
  <2>1. P \in SUBSET (0 .. n)
    OBVIOUS
  <2> HIDE DEF P, n, part
  <2>2. \A i \in 0 .. n : i \in P
    BY <1>1, <1>2, <1>3, <2>1, Positions
  <2> QED
    BY <1>1, <2>2
<1>5. once(n) = twice(n)
  BY <1>4
<1> QED
  BY <1>1, <1>5
=============================================================================
