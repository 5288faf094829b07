--------------------------- MODULE SequenceLemmas ---------------------------
(***************************************************************************)
(* Facts about sequences that several proofs need: what removing an        *)
(* element and appending one do, how many elements a sequence without      *)
(* repetitions has; and induction over an interval of numbers.             *)
(***************************************************************************)
EXTENDS SequencesExt, SequenceTheorems, FiniteSetTheorems, TLAPS

(* RemoveAt, with which a close shortens a list. *)
LEMMA RemoveAtElements ==
  ASSUME NEW S, NEW q \in Seq(S), NEW i \in 1 .. Len(q)
  PROVE  /\ RemoveAt(q, i) \in Seq(S)
         /\ Len(RemoveAt(q, i)) = Len(q) - 1
         /\ \A j \in 1 .. Len(q) - 1 :
              RemoveAt(q, i)[j] = IF j < i THEN q[j] ELSE q[j + 1]
<1> DEFINE a == SubSeq(q, 1, i - 1)
           b == SubSeq(q, i + 1, Len(q))
<1>1. a \in Seq(S) /\ Len(a) = i - 1 /\ \A j \in 1 .. i - 1 : a[j] = q[j]
  OBVIOUS
<1>2. b \in Seq(S) /\ Len(b) = Len(q) - i /\ \A j \in 1 .. Len(q) - i : b[j] = q[i + j]
  OBVIOUS
<1> HIDE DEF a, b
<1>3. RemoveAt(q, i) = a \o b
  BY DEF RemoveAt, a, b
<1>4. a \o b \in Seq(S) /\ Len(a \o b) = Len(q) - 1
  <2>1. Len(q) \in Nat /\ i \in Int
    OBVIOUS
  <2>2. a \o b \in Seq(S) /\ Len(a \o b) = Len(a) + Len(b)
    BY <1>1, <1>2, ConcatProperties, Zenon
  <2> QED BY <1>1, <1>2, <2>1, <2>2
<1>5. ASSUME NEW j \in 1 .. Len(q) - 1
      PROVE  (a \o b)[j] = IF j < i THEN q[j] ELSE q[j + 1]
  BY <1>1, <1>2, ConcatProperties
<1> QED BY <1>3, <1>4, <1>5

(* InsertAt, the insertion in the middle of a list. *)
LEMMA InsertAtElements ==
  ASSUME NEW S, NEW q \in Seq(S), NEW i \in 1 .. Len(q) + 1, NEW e \in S
  PROVE  /\ InsertAt(q, i, e) \in Seq(S)
         /\ Len(InsertAt(q, i, e)) = Len(q) + 1
         /\ \A j \in 1 .. Len(q) + 1 :
              InsertAt(q, i, e)[j] = IF j < i THEN q[j] ELSE IF j = i THEN e ELSE q[j - 1]
<1> DEFINE a == SubSeq(q, 1, i - 1)
           b == SubSeq(q, i, Len(q))
<1>0. Len(q) \in Nat /\ i \in Int
  OBVIOUS
<1>1. a \in Seq(S) /\ Len(a) = i - 1 /\ \A j \in 1 .. i - 1 : a[j] = q[j]
  OBVIOUS
<1>2. b \in Seq(S) /\ Len(b) = Len(q) - i + 1
      /\ \A j \in 1 .. Len(q) - i + 1 : b[j] = q[i + j - 1]
  OBVIOUS
<1> HIDE DEF a, b
<1> DEFINE c == a \o <<e>>
<1>3. c \in Seq(S) /\ Len(c) = i /\ c[i] = e /\ \A j \in 1 .. i - 1 : c[j] = q[j]
  BY <1>0, <1>1
<1>4. InsertAt(q, i, e) = c \o b
  BY DEF InsertAt, a, b
<1> HIDE DEF c
<1>5. c \o b \in Seq(S) /\ Len(c \o b) = Len(q) + 1
  <2>1. c \o b \in Seq(S) /\ Len(c \o b) = Len(c) + Len(b)
    BY <1>2, <1>3, ConcatProperties, Zenon
  <2> QED BY <1>0, <1>2, <1>3, <2>1
<1>6. ASSUME NEW j \in 1 .. Len(q) + 1
      PROVE  (c \o b)[j] = IF j < i THEN q[j] ELSE IF j = i THEN e ELSE q[j - 1]
  <2>1. (c \o b)[j] = IF j <= Len(c) THEN c[j] ELSE b[j - Len(c)]
    <3>1. j \in 1 .. Len(c) + Len(b)
      BY <1>0, <1>2, <1>3
    <3>2. \A m \in 1 .. Len(c) + Len(b) :
            (c \o b)[m] = IF m <= Len(c) THEN c[m] ELSE b[m - Len(c)]
      BY <1>2, <1>3, ConcatProperties, Zenon
    <3> QED BY <3>1, <3>2, Zenon
  <2>2. CASE j <= i
    BY <1>3, <2>1, <2>2
  <2>3. CASE j > i
    <3>1. j - i \in 1 .. Len(q) - i + 1 /\ i + (j - i) - 1 = j - 1
      BY <1>0, <2>3
    <3>2. b[j - i] = q[i + (j - i) - 1]
      BY <1>2, <3>1, Zenon
    <3> QED BY <1>0, <1>3, <2>1, <2>3, <3>1, <3>2
  <2>4. j <= i \/ j > i
    BY <1>0
  <2> QED BY <2>2, <2>3, <2>4, Zenon
<1> QED BY <1>4, <1>5, <1>6

(* Append, with which an open extends one. *)
LEMMA AppendElements ==
  ASSUME NEW S, NEW q \in Seq(S), NEW e \in S
  PROVE  /\ Append(q, e) \in Seq(S)
         /\ Len(q) \in Nat /\ DOMAIN q = 1 .. Len(q)
         /\ DOMAIN Append(q, e) = 1 .. Len(q) + 1
         /\ Append(q, e)[Len(q) + 1] = e
         /\ \A j \in 1 .. Len(q) : Append(q, e)[j] = q[j]
OBVIOUS

(* The elements after an insertion, and after a removal. *)
LEMMA InsertAtToSet ==
  ASSUME NEW S, NEW q \in Seq(S), NEW i \in 1 .. Len(q) + 1, NEW e \in S
  PROVE  ToSet(InsertAt(q, i, e)) = ToSet(q) \cup {e}
<1> DEFINE t == InsertAt(q, i, e)
           n == Len(q)
<1>1. /\ t \in Seq(S) /\ Len(t) = n + 1 /\ n \in Nat /\ i \in 1 .. n + 1
      /\ \A j \in 1 .. n + 1 : t[j] = IF j < i THEN q[j] ELSE IF j = i THEN e ELSE q[j - 1]
  BY InsertAtElements
<1> HIDE DEF t
<1>2. DOMAIN t = 1 .. n + 1 /\ DOMAIN q = 1 .. n
  BY <1>1
<1> HIDE DEF n
<1>3. ASSUME NEW j \in 1 .. n PROVE \E l \in 1 .. n + 1 : t[l] = q[j]
  <2>1. CASE j < i
    <3>1. j \in 1 .. n + 1 /\ t[j] = q[j]
      BY <1>1, <2>1
    <3> QED BY <3>1
  <2>2. CASE j >= i
    <3>1. j + 1 \in 1 .. n + 1 /\ t[j + 1] = q[j]
      BY <1>1, <2>2
    <3> QED BY <3>1
  <2> QED BY <1>1, <2>1, <2>2
<1>4. i \in 1 .. n + 1 /\ t[i] = e
  BY <1>1
<1>5. ASSUME NEW j \in 1 .. n + 1 PROVE t[j] = e \/ \E l \in 1 .. n : t[j] = q[l]
  <2>1. (j < i => j \in 1 .. n) /\ (~ (j < i) /\ j # i => j - 1 \in 1 .. n)
    BY <1>1
  <2> QED BY <1>1, <2>1
<1>6. ToSet(t) \subseteq ToSet(q) \cup {e}
  BY <1>2, <1>5 DEF ToSet
<1>7. ToSet(q) \cup {e} \subseteq ToSet(t)
  BY <1>2, <1>3, <1>4 DEF ToSet
<1> QED BY <1>6, <1>7 DEF t

LEMMA RemoveAtToSet ==
  ASSUME NEW S, NEW q \in Seq(S), NEW i \in 1 .. Len(q),
         \A j, l \in 1 .. Len(q) : q[j] = q[l] => j = l
  PROVE  /\ ToSet(RemoveAt(q, i)) = ToSet(q) \ {q[i]}
         /\ \A j, l \in 1 .. Len(RemoveAt(q, i)) : RemoveAt(q, i)[j] = RemoveAt(q, i)[l] => j = l
<1> DEFINE t == RemoveAt(q, i)
           n == Len(q)
<1>1. /\ t \in Seq(S) /\ Len(t) = n - 1 /\ n \in Nat /\ i \in 1 .. n
      /\ \A j \in 1 .. n - 1 : t[j] = IF j < i THEN q[j] ELSE q[j + 1]
      /\ \A j, l \in 1 .. n : q[j] = q[l] => j = l
  BY RemoveAtElements
<1> HIDE DEF t
<1>2. DOMAIN t = 1 .. n - 1 /\ DOMAIN q = 1 .. n
  BY <1>1
<1> HIDE DEF n
<1>3. ASSUME NEW j \in 1 .. n, j # i PROVE \E l \in 1 .. n - 1 : t[l] = q[j]
  <2>1. CASE j < i
    <3>1. j \in 1 .. n - 1 /\ t[j] = q[j]
      BY <1>1, <2>1
    <3> QED BY <3>1
  <2>2. CASE j > i
    <3>1. j - 1 \in 1 .. n - 1 /\ t[j - 1] = q[j]
      BY <1>1, <2>2
    <3> QED BY <3>1
  <2> QED BY <1>1, <1>3, <2>1, <2>2
<1>4. ASSUME NEW j \in 1 .. n - 1
      PROVE  LET l == IF j < i THEN j ELSE j + 1 IN l \in 1 .. n /\ l # i /\ t[j] = q[l]
  BY <1>1
<1>5. ToSet(t) \subseteq ToSet(q) \ {q[i]}
  <2>1. \A j \in 1 .. n - 1 : \E l \in 1 .. n : t[j] = q[l] /\ q[l] # q[i]
    BY <1>1, <1>4
  <2> QED BY <1>2, <2>1 DEF ToSet
<1>6. ToSet(q) \ {q[i]} \subseteq ToSet(t)
  BY <1>2, <1>3 DEF ToSet
<1>7. ASSUME NEW j \in 1 .. n - 1, NEW l \in 1 .. n - 1, t[j] = t[l] PROVE j = l
  <2> DEFINE o(k) == IF k < i THEN k ELSE k + 1
  <2>1. o(j) \in 1 .. n /\ o(l) \in 1 .. n /\ t[j] = q[o(j)] /\ t[l] = q[o(l)]
    BY <1>4
  <2>2. o(j) = o(l)
    <3> HIDE DEF o
    <3> QED BY <1>1, <1>7, <2>1
  <2> QED BY <1>1, <2>2
<1>8. Len(t) = n - 1
  BY <1>1
<1> QED BY <1>5, <1>6, <1>7, <1>8 DEF t

(* A list without repetitions has as many elements as places. *)
LEMMA DistinctElements ==
  ASSUME NEW S, NEW q \in Seq(S), \A i, j \in DOMAIN q : q[i] = q[j] => i = j
  PROVE  IsFiniteSet(ToSet(q)) /\ Cardinality(ToSet(q)) = Len(q)
<1>1. Len(q) \in Nat /\ DOMAIN q = 1 .. Len(q)
  OBVIOUS
<1>2. IsFiniteSet(1 .. Len(q)) /\ Cardinality(1 .. Len(q)) = Len(q)
  BY <1>1, FS_Interval
<1>3. q \in Injection(1 .. Len(q), ToSet(q)) /\ q \in Surjection(1 .. Len(q), ToSet(q))
  BY <1>1 DEF ToSet, Injection, IsInjective, Surjection
<1> QED BY <1>2, <1>3, FS_Surjection

(* Induction up to n, for a set of numbers: a set that lacks n lacks, with *)
(* each number, the one before it, which would be an injection of a finite *)
(* set into itself that misses n.                                          *)
LEMMA Induction ==
  ASSUME NEW n \in Nat, NEW S \in SUBSET (0 .. n), 0 \in S,
         \A k \in S : k < n => k + 1 \in S
  PROVE  n \in S
<1> SUFFICES ASSUME n \notin S PROVE FALSE
  OBVIOUS
<1> DEFINE C == (0 .. n) \ S
           down == [k \in C |-> k - 1]
<1>1. \A k \in C : k - 1 \in C
  OBVIOUS
<1>2. IsFiniteSet(C)
  <2>1. IsFiniteSet(0 .. n) /\ C \in SUBSET (0 .. n)
    BY FS_Interval
  <2> HIDE DEF C
  <2> QED BY <2>1, FS_Subset
<1>3. down \in Injection(C, C)
  BY <1>1 DEF Injection, IsInjective
<1>4. down \in Surjection(C, C)
  <2> HIDE DEF C, down
  <2> QED BY <1>2, <1>3, FS_Injection
<1>5. n \in C
  OBVIOUS
<1>6. PICK k \in C : down[k] = n
  <2> HIDE DEF C, down
  <2> QED BY <1>4, <1>5 DEF Surjection
<1> QED BY <1>6

(* A set of numbers from 1 to n that has, with each, the smaller ones, is  *)
(* an initial interval.                                                    *)
LEMMA InitialInterval ==
  ASSUME NEW n \in Nat, NEW S \in SUBSET (1 .. n), \A i \in S : \A j \in 1 .. i : j \in S
  PROVE  Cardinality(S) \in 0 .. n /\ S = 1 .. Cardinality(S)
<1>1. \E k \in 0 .. n : S = 1 .. k
  <2> SUFFICES ASSUME \A k \in 0 .. n : S # 1 .. k
               PROVE  FALSE
    OBVIOUS
  <2> DEFINE T == {k \in 0 .. n : 1 .. k \subseteq S}
  <2>1. 0 \in T /\ T \in SUBSET (0 .. n)
    OBVIOUS
  <2>2. \A k \in T : k < n => k + 1 \in T
    <3> SUFFICES ASSUME NEW k \in 0 .. n, 1 .. k \subseteq S, k < n
                 PROVE  1 .. k + 1 \subseteq S
      OBVIOUS
    <3>1. PICK j \in S : j \notin 1 .. k
      OBVIOUS
    <3>2. k + 1 \in 1 .. j
      BY <3>1
    <3> QED BY <3>2
  <2>3. n \in T
    <3> HIDE DEF T
    <3> QED BY <2>1, <2>2, Induction
  <2> QED BY <2>3
<1>2. PICK k \in 0 .. n : S = 1 .. k
  BY <1>1
<1>3. Cardinality(1 .. k) = k
  BY FS_Interval
<1> QED BY <1>2, <1>3
=============================================================================
