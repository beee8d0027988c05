-------------------------- MODULE AscendingProofs --------------------------
(***************************************************************************)
(* InOrder puts the slots it is given in order, and in one way only; slots *)
(* that come after others are put after them.                              *)
(***************************************************************************)
EXTENDS Ascending, Integers, FiniteSetTheorems, SequenceTheorems, WellFoundedInduction, TLAPS

(* The least-number principle, which stands for induction here.            *)
LEMMA LeastNumber ==
  ASSUME NEW T, T \subseteq Nat, T # {}
  PROVE  \E x \in T : \A y \in T : x <= y
  <1>1. PICK x \in T : \A y \in T : ~(<<y, x>> \in OpToRel(<, Nat))
    BY WFMin, NatLessThanWellFounded, Zenon
  <1>2. \A y \in T : ~(y < x)
    BY <1>1 DEF OpToRel
  <1> QED BY <1>2

(* What the CHOOSE of InOrder asks for.                                    *)
Ascends(f, S) ==
  /\ f \in [1 .. Cardinality(S) -> S]
  /\ \A i, j \in 1 .. Cardinality(S) : i < j => f[i] < f[j]

(* Slots are finitely many.                                                *)
LEMMA FiniteSlots ==
  ASSUME NEW n \in Nat, NEW S \in SUBSET (1 .. n)
  PROVE  IsFiniteSet(S) /\ Cardinality(S) \in Nat
  <1>1. IsFiniteSet(1 .. n)
    BY FS_Interval
  <1>2. IsFiniteSet(S)
    BY <1>1, FS_Subset
  <1> QED BY <1>2, FS_CardinalityType

(* A set of slots can be put in order, whichever slots are in it.          *)
LEMMA OrderExists ==
  ASSUME NEW n \in Nat, NEW S \in SUBSET (1 .. n)
  PROVE  \E f : Ascends(f, S)
  <1> DEFINE T == {k \in Nat : \E R \in SUBSET (1 .. k) : ~ \E f : Ascends(f, R)}
  <1> SUFFICES ASSUME T # {} PROVE FALSE
    OBVIOUS
  <1>1. PICK k \in T : \A l \in T : k <= l
    BY LeastNumber
  <1>2. PICK R \in SUBSET (1 .. k) : ~ \E f : Ascends(f, R)
    OBVIOUS
  <1>3. IsFiniteSet(R) /\ Cardinality(R) \in Nat
    BY FiniteSlots
  <1>4. R # {}
    <2> SUFFICES ASSUME R = {} PROVE FALSE
      OBVIOUS
    <2>1. Ascends([i \in {} |-> i], R)
      <3>1. Cardinality(R) = 0 /\ 1 .. Cardinality(R) = {}
        BY FS_EmptySet
      <3> QED BY <3>1 DEF Ascends
    <2> QED BY <1>2, <2>1
  <1>5. k \in Nat \ {0} /\ k - 1 \in Nat /\ ~(k <= k - 1)
    <2>1. PICK x : x \in R
      BY <1>4
    <2>2. x \in 1 .. k /\ k \in Nat
      BY <2>1
    <2> QED BY <2>2
  <1>6. k \in R
    <2> SUFFICES ASSUME k \notin R PROVE FALSE
      OBVIOUS
    <2>1. R \in SUBSET (1 .. (k - 1))
      BY <1>5
    <2>2. k - 1 \in T
      BY <1>2, <1>5, <2>1
    <2> QED BY <1>1, <1>5, <2>2
  <1> DEFINE Q == R \ {k}
             c == Cardinality(Q)
  <1>7. PICK g : Ascends(g, Q)
    <2>1. Q \in SUBSET (1 .. (k - 1))
      BY <1>5
    <2>2. k - 1 \notin T
      BY <1>1, <1>5
    <2> QED BY <1>5, <2>1, <2>2
  <1>8. c \in Nat /\ Cardinality(R) = c + 1
    <2>1. IsFiniteSet(Q) /\ c = Cardinality(R) - 1
      BY <1>3, <1>6, FS_RemoveElement
    <2>2. c \in Nat
      BY <2>1, FS_CardinalityType
    <2> QED BY <1>3, <2>1, <2>2
  <1> DEFINE f == [i \in 1 .. (c + 1) |-> IF i <= c THEN g[i] ELSE k]
  <1>9. \A i \in 1 .. c : g[i] \in Q
    BY <1>7 DEF Ascends
  <1>10. \A i, j \in 1 .. c : i < j => g[i] < g[j]
    BY <1>7 DEF Ascends
  <1>11. \A x \in Q : x \in R /\ x < k
    OBVIOUS
  <1> HIDE DEF c, Q
  <1>12. f \in [1 .. (c + 1) -> R]
    BY <1>6, <1>8, <1>9, <1>11
  <1>13. ASSUME NEW i \in 1 .. (c + 1), NEW j \in 1 .. (c + 1), i < j
         PROVE  f[i] < f[j]
    <2>1. i \in 1 .. c /\ f[i] = g[i]
      BY <1>8, <1>13
    <2>2. CASE j \in 1 .. c
      BY <1>8, <1>10, <1>13, <2>1, <2>2
    <2>3. CASE j = c + 1
      <3>1. f[j] = k
        BY <1>8, <2>3
      <3> QED BY <1>9, <1>11, <2>1, <3>1
    <2> QED BY <1>8, <2>2, <2>3
  <1>14. Ascends(f, R)
    BY <1>8, <1>12, <1>13 DEF Ascends
  <1> QED BY <1>2, <1>14

(* And in one way only.                                                    *)
LEMMA OrderIsUnique ==
  ASSUME NEW S \in SUBSET Nat, IsFiniteSet(S), NEW f, Ascends(f, S), NEW g, Ascends(g, S)
  PROVE  f = g
  <1> DEFINE c == Cardinality(S)
             D == {i \in 1 .. c : f[i] # g[i]}
  <1>1. c \in Nat
    BY FS_CardinalityType
  <1>2. ASSUME NEW h, Ascends(h, S)
        PROVE  /\ h \in [1 .. c -> S] /\ \A i, j \in 1 .. c : i < j => h[i] < h[j]
               /\ \A x \in S : \E i \in 1 .. c : h[i] = x
    <2>1. h \in [1 .. c -> S] /\ \A i, j \in 1 .. c : i < j => h[i] < h[j]
      BY <1>2 DEF Ascends
    <2> HIDE DEF c
    <2>2. \A i, j \in 1 .. c : h[i] = h[j] => i = j
      <3> SUFFICES ASSUME NEW i \in 1 .. c, NEW j \in 1 .. c, h[i] = h[j], i # j PROVE FALSE
        OBVIOUS
      <3>1. i < j \/ j < i
        BY <1>1
      <3>2. h[i] \in Nat /\ h[j] \in Nat
        BY <2>1
      <3> QED BY <2>1, <3>1, <3>2
    <2>3. h \in Injection(1 .. c, S)
      BY <2>1, <2>2 DEF Injection, IsInjective
    <2>4. Cardinality(1 .. c) = c
      BY <1>1, FS_Interval
    <2>5. h \in Surjection(1 .. c, S)
      BY <2>3, <2>4, FS_Injection DEF c
    <2> QED BY <2>1, <2>5 DEF Surjection
  <1>3. f \in [1 .. c -> S] /\ g \in [1 .. c -> S]
    BY <1>2
  <1>8. CASE D = {}
    <2>1. \A i \in 1 .. c : f[i] = g[i]
      BY <1>8
    <2> HIDE DEF c, D
    <2>2. f = [i \in 1 .. c |-> f[i]] /\ g = [i \in 1 .. c |-> g[i]]
      BY <1>3
    <2>3. [i \in 1 .. c |-> f[i]] = [i \in 1 .. c |-> g[i]]
      BY <2>1
    <2> QED BY <2>2, <2>3
  <1> SUFFICES ASSUME D # {} PROVE FALSE
    BY <1>8
  <1>4. PICK i \in D : \A j \in D : i <= j
    <2>1. D \subseteq Nat
      OBVIOUS
    <2> HIDE DEF D
    <2> QED BY <2>1, LeastNumber
  <1>5. \A j \in 1 .. c : j < i => f[j] = g[j]
    BY <1>4
  (* The smaller of the two is nowhere in the other order. *)
  <1>6. ASSUME NEW a, Ascends(a, S), NEW b, Ascends(b, S),
               \A j \in 1 .. c : j < i => a[j] = b[j], a[i] < b[i]
        PROVE  FALSE
    <2>1. /\ a \in [1 .. c -> S] /\ b \in [1 .. c -> S]
          /\ \A k, j \in 1 .. c : k < j => a[k] < a[j]
          /\ \A k, j \in 1 .. c : k < j => b[k] < b[j]
          /\ \A x \in S : \E j \in 1 .. c : b[j] = x
      BY <1>2, <1>6
    <2> HIDE DEF c
    <2>2. i \in 1 .. c /\ a[i] \in S /\ b[i] \in S
      BY <2>1
    <2>3. PICK j \in 1 .. c : b[j] = a[i]
      BY <2>1, <2>2
    <2>4. CASE j < i
      <3>1. a[j] = a[i] /\ a[j] < a[i]
        BY <1>6, <2>1, <2>2, <2>3, <2>4
      <3>2. a[i] \in Nat
        BY <2>2
      <3> QED BY <3>1, <3>2
    <2>5. CASE ~(j < i)
      <3>1. j = i \/ i < j
        BY <1>1, <2>2, <2>5
      <3>2. b[i] < b[j] \/ b[i] = b[j]
        BY <2>1, <2>2, <3>1
      <3>3. a[i] \in Nat /\ b[i] \in Nat
        BY <2>2
      <3> QED BY <1>6, <2>3, <3>2, <3>3
    <2> QED BY <2>4, <2>5
  <1>7. f[i] < g[i] \/ g[i] < f[i]
    <2>1. f[i] \in Nat /\ g[i] \in Nat /\ f[i] # g[i]
      BY <1>3
    <2> QED BY <2>1
  <1> QED BY <1>5, <1>6, <1>7

(* So InOrder is one.                                                      *)
LEMMA InOrderAscends ==
  ASSUME NEW n \in Nat, NEW S \in SUBSET (1 .. n)
  PROVE  Ascends(InOrder(S), S)
  <1>1. PICK f : Ascends(f, S)
    BY OrderExists
  <1>2. f \in [1 .. Cardinality(S) -> S] /\
        \A i, j \in 1 .. Cardinality(S) : i < j => f[i] < f[j]
    BY <1>1 DEF Ascends
  <1> QED BY <1>2 DEF InOrder, Ascends

LEMMA InOrderIsSequence ==
  ASSUME NEW n \in Nat, NEW S \in SUBSET (1 .. n)
  PROVE  InOrder(S) \in Seq(1 .. n)
  <1>1. Cardinality(S) \in Nat
    BY FiniteSlots
  <1>2. InOrder(S) \in [1 .. Cardinality(S) -> S]
    BY InOrderAscends DEF Ascends
  <1>3. InOrder(S) \in Seq(S)
    BY <1>1, <1>2
  <1> QED BY <1>3, SeqMonotonic

(* Slots that come after others are put after them.                        *)
LEMMA InOrderConcat ==
  ASSUME NEW n \in Nat, NEW S \in SUBSET (1 .. n), NEW T \in SUBSET (1 .. n),
         \A x \in S, y \in T : x < y
  PROVE  InOrder(S \cup T) = InOrder(S) \o InOrder(T)
  <1> DEFINE a == Cardinality(S)
             b == Cardinality(T)
             f == InOrder(S)
             g == InOrder(T)
             h == f \o g
  <1>1. /\ IsFiniteSet(S) /\ IsFiniteSet(T) /\ IsFiniteSet(S \cup T)
        /\ a \in Nat /\ b \in Nat /\ Cardinality(S \cup T) = a + b
    <2>1. IsFiniteSet(S) /\ IsFiniteSet(T)
      BY FiniteSlots
    <2>2. S \cap T = {}
      BY DEF a
    <2>3. a \in Nat /\ b \in Nat /\ Cardinality(S \cap T) = 0
      BY <2>1, <2>2, FS_CardinalityType, FS_EmptySet
    <2>4. /\ IsFiniteSet(S \cup T)
          /\ Cardinality(S \cup T) = a + b - Cardinality(S \cap T)
      BY <2>1, FS_Union
    <2> QED BY <2>1, <2>3, <2>4
  <1>2. Ascends(f, S) /\ Ascends(g, T) /\ Ascends(InOrder(S \cup T), S \cup T)
    BY InOrderAscends
  <1> HIDE DEF f, g
  <1>3. /\ f \in [1 .. a -> S] /\ \A i, j \in 1 .. a : i < j => f[i] < f[j]
        /\ g \in [1 .. b -> T] /\ \A i, j \in 1 .. b : i < j => g[i] < g[j]
    BY <1>2 DEF Ascends
  <1> HIDE DEF a, b
  <1>4. f \in Seq(S \cup T) /\ Len(f) = a /\ g \in Seq(S \cup T) /\ Len(g) = b
    BY <1>1, <1>3
  <1>5. /\ h \in Seq(S \cup T) /\ Len(h) = a + b
        /\ \A i \in 1 .. (a + b) : h[i] = IF i <= a THEN f[i] ELSE g[i - a]
    BY <1>4, ConcatProperties
  <1> HIDE DEF h
  <1>6. h \in [1 .. (a + b) -> S \cup T]
    BY <1>5
  <1>7. ASSUME NEW i \in 1 .. (a + b), NEW j \in 1 .. (a + b), i < j
        PROVE  h[i] < h[j]
    <2>1. CASE i <= a /\ j <= a
      BY <1>1, <1>3, <1>5, <1>7, <2>1
    <2>2. CASE i <= a /\ ~(j <= a)
      <3>1. i \in 1 .. a /\ j - a \in 1 .. b
        BY <1>1, <2>2
      <3>2. h[i] = f[i] /\ h[j] = g[j - a]
        BY <1>5, <2>2
      <3>3. f[i] \in S /\ g[j - a] \in T
        BY <1>3, <3>1
      <3> QED BY <3>2, <3>3
    <2>3. CASE ~(i <= a) /\ ~(j <= a)
      <3>1. i - a \in 1 .. b /\ j - a \in 1 .. b /\ i - a < j - a
        BY <1>1, <1>7, <2>3
      <3>2. h[i] = g[i - a] /\ h[j] = g[j - a]
        BY <1>5, <2>3
      <3> QED BY <1>3, <3>1, <3>2
    <2> QED BY <1>1, <1>7, <2>1, <2>2, <2>3
  <1>8. Ascends(h, S \cup T)
    BY <1>1, <1>6, <1>7 DEF Ascends
  <1>9. S \cup T \in SUBSET Nat
    OBVIOUS
  <1>10. InOrder(S \cup T) = h
    BY <1>1, <1>2, <1>8, <1>9, OrderIsUnique
  <1> QED BY <1>10 DEF h, f, g
=============================================================================
