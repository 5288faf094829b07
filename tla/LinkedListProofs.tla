-------------------------- MODULE LinkedListProofs --------------------------
(***************************************************************************)
(* What the operations of linked_list.c do to the contents of the lists,   *)
(* for any number of items and lists.  The pointers of a proper store      *)
(* spell one sequence per list; the lemmas at the end speak of the sets of *)
(* items only, and are what the proofs about processes use.                *)
(***************************************************************************)
EXTENDS LinkedList, SequenceLemmas

(* The pointers of L spell the sequence s[h] in each list h, no item is in *)
(* two lists, and an item that is in none has no links.                    *)
Unlisted(s, x) == \A h \in ListHead : \A i \in 1 .. Len(s[h]) : s[h][i] # x

Represents(L, s) ==
  /\ L \in Store /\ s \in [ListHead -> Seq(ListItem)]
  /\ \A h \in ListHead : Holds(L, h, s[h])
  /\ \A g, h \in ListHead : \A i \in 1 .. Len(s[g]), j \in 1 .. Len(s[h]) :
       s[g][i] = s[h][j] => g = h
  /\ \A x \in ListItem : Unlisted(s, x) => L.next[x] = NULL /\ L.prev[x] = NULL

Proper(L) == \E s : Represents(L, s)

---------------------------------------------------------------------------
(* The items around the k-th gap of list h. *)
Before(s, h, k) == IF k = 0 THEN NULL ELSE s[h][k]
After(s, h, k)  == IF k = Len(s[h]) THEN NULL ELSE s[h][k + 1]

(* M is L with item x put into that gap, field by field. *)
Spliced(M, L, s, h, k, x) ==
  /\ M \in Store
  /\ M.first = [L.first EXCEPT ![h] = IF k = 0 THEN x ELSE @]
  /\ M.last = [L.last EXCEPT ![h] = IF k = Len(s[h]) THEN x ELSE @]
  /\ M.size = [L.size EXCEPT ![h] = @ + 1]
  /\ \A y \in ListItem :
       /\ M.next[y] = IF y = x THEN After(s, h, k)
                      ELSE IF y = Before(s, h, k) THEN x ELSE L.next[y]
       /\ M.prev[y] = IF y = x THEN Before(s, h, k)
                      ELSE IF y = After(s, h, k) THEN x ELSE L.prev[y]

(* A list none of whose links a store changed still holds its sequence. *)
LEMMA HoldsElsewhere ==
  ASSUME NEW L, NEW M, NEW g, NEW r, Len(r) \in Nat, Holds(L, g, r),
         M.size[g] = L.size[g] /\ M.first[g] = L.first[g] /\ M.last[g] = L.last[g],
         \A i \in 1 .. Len(r) : M.next[r[i]] = L.next[r[i]] /\ M.prev[r[i]] = L.prev[r[i]]
  PROVE  Holds(M, g, r)
<1>1. /\ M.size[g] = Len(r)
      /\ M.first[g] = IF r = <<>> THEN NULL ELSE r[1]
      /\ M.last[g] = IF r = <<>> THEN NULL ELSE r[Len(r)]
      /\ \A i, j \in 1 .. Len(r) : r[i] = r[j] => i = j
  BY Zenon DEF Holds
<1>2. ASSUME NEW i \in 1 .. Len(r)
      PROVE  /\ M.next[r[i]] = IF i = Len(r) THEN NULL ELSE r[i + 1]
             /\ M.prev[r[i]] = IF i = 1 THEN NULL ELSE r[i - 1]
  <2>1. M.next[r[i]] = L.next[r[i]] /\ M.prev[r[i]] = L.prev[r[i]]
    OBVIOUS
  <2>2. /\ L.next[r[i]] = IF i = Len(r) THEN NULL ELSE r[i + 1]
        /\ L.prev[r[i]] = IF i = 1 THEN NULL ELSE r[i - 1]
    BY Zenon DEF Holds
  <2> QED BY <2>1, <2>2, Zenon
<1> QED BY <1>1, <1>2, Zenon DEF Holds

LEMMA InsertFields ==
  ASSUME NULL \notin ListItem, NEW L, NEW s, Represents(L, s),
         NEW h \in ListHead, NEW x \in ListItem, Unlisted(s, x), NEW k \in 0 .. Len(s[h])
  PROVE  Spliced(List_insert(L, h, Before(s, h, k), x), L, s, h, k, x)
<1> DEFINE M == List_insert(L, h, Before(s, h, k), x)
           before == Before(s, h, k)
           next == After(s, h, k)
<1> DEFINE n == Len(s[h])
<1>1. /\ L \in Store /\ s[h] \in Seq(ListItem) /\ n \in Nat /\ Holds(L, h, s[h])
      /\ L.next[x] = NULL /\ L.prev[x] = NULL
  BY DEF Represents
<1>0. /\ before = IF k = 0 THEN NULL ELSE s[h][k]
      /\ next = IF k = n THEN NULL ELSE s[h][k + 1]
      /\ M = List_insert(L, h, before, x)
  BY DEF Before, After
<1> HIDE DEF M, before, next
<1>2. /\ before \in ListItem \cup {NULL} /\ (before = NULL <=> k = 0)
      /\ next \in ListItem \cup {NULL} /\ (next = NULL <=> k = n)
  BY <1>0, <1>1
<1>3. next = IF before = NULL THEN L.first[h] ELSE L.next[before]
  <2>1. CASE k = 0
    BY <1>0, <1>1, <1>2, <2>1 DEF Holds
  <2>2. CASE k # 0
    <3>1. k \in 1 .. n /\ before = s[h][k]
      BY <1>0, <2>2
    <3>2. L.next[s[h][k]] = IF k = n THEN NULL ELSE s[h][k + 1]
      BY <1>1, <3>1 DEF Holds
    <3> QED BY <1>0, <1>2, <2>2, <3>1, <3>2
  <2> QED BY <2>1, <2>2
<1>4. before # x /\ next # x
  <2>1. \A i \in 1 .. n : s[h][i] # x
    BY DEF Unlisted
  <2> QED BY <1>0, <1>1, <2>1
<1>5. /\ M.first = [L.first EXCEPT ![h] = IF before = NULL THEN x ELSE @]
      /\ M.last = [L.last EXCEPT ![h] = IF next = NULL THEN x ELSE @]
      /\ M.size = [L.size EXCEPT ![h] = @ + 1]
      /\ M.next = LET n1 == At(L.next, before, x)
                  IN IF next = NULL THEN n1 ELSE [n1 EXCEPT ![x] = next]
      /\ M.prev = LET p1 == IF before = NULL THEN L.prev ELSE [L.prev EXCEPT ![x] = before]
                  IN At(p1, next, x)
      /\ M = [first |-> M.first, last |-> M.last, size |-> M.size, next |-> M.next, prev |-> M.prev]
  <2>1. ~ Linked(L, x)
    BY <1>1 DEF Linked
  <2> HIDE DEF n
  <2> QED BY <1>0, <1>1, <1>3, <2>1 DEF List_insert, Store
<1>6. \A y \in ListItem : M.next[y] = IF y = x THEN next ELSE IF y = before THEN x ELSE L.next[y]
  BY <1>1, <1>2, <1>4, <1>5 DEF At, Store
<1>7. \A y \in ListItem : M.prev[y] = IF y = x THEN before ELSE IF y = next THEN x ELSE L.prev[y]
  BY <1>1, <1>2, <1>4, <1>5 DEF At, Store
<1>8. M.next \in [ListItem -> ListItem \cup {NULL}] /\ M.prev \in [ListItem -> ListItem \cup {NULL}]
  <2> DEFINE F == [ListItem -> ListItem \cup {NULL}]
             n1 == At(L.next, before, x)
             p1 == IF before = NULL THEN L.prev ELSE [L.prev EXCEPT ![x] = before]
  <2>1. L.next \in F /\ L.prev \in F
    BY <1>1 DEF Store
  <2>2. n1 \in F /\ p1 \in F
    BY <1>2, <2>1 DEF At
  <2>3. M.next = IF next = NULL THEN n1 ELSE [n1 EXCEPT ![x] = next]
    BY <1>5
  <2>4. M.prev = At(p1, next, x)
    BY <1>5
  <2> HIDE DEF n1, p1
  <2>5. M.next \in F
    BY <1>2, <2>2, <2>3
  <2>6. M.prev \in F
    BY <1>2, <2>2, <2>4 DEF At
  <2> QED BY <2>5, <2>6
<1>9. M \in Store
  <2>1. /\ M.first \in [ListHead -> ListItem \cup {NULL}]
        /\ M.last \in [ListHead -> ListItem \cup {NULL}]
        /\ M.size \in [ListHead -> Int]
    <3>1. /\ L.first \in [ListHead -> ListItem \cup {NULL}]
          /\ L.last \in [ListHead -> ListItem \cup {NULL}]
          /\ L.size \in [ListHead -> Int]
      BY <1>1 DEF Store
    <3> DEFINE head == IF before = NULL THEN x ELSE L.first[h]
               tail == IF next = NULL THEN x ELSE L.last[h]
    <3>0. /\ M.first = [L.first EXCEPT ![h] = head]
          /\ M.last = [L.last EXCEPT ![h] = tail]
          /\ M.size = [L.size EXCEPT ![h] = L.size[h] + 1]
      BY <1>5
    <3>5. head \in ListItem \cup {NULL} /\ tail \in ListItem \cup {NULL} /\ L.size[h] + 1 \in Int
      BY <3>1
    <3> HIDE DEF head, tail
    <3>2. M.first \in [ListHead -> ListItem \cup {NULL}]
      BY <3>0, <3>1, <3>5
    <3>3. M.last \in [ListHead -> ListItem \cup {NULL}]
      BY <3>0, <3>1, <3>5
    <3>4. M.size \in [ListHead -> Int]
      BY <3>0, <3>1, <3>5
    <3> QED BY <3>2, <3>3, <3>4
  <2> QED BY <1>5, <1>8, <2>1 DEF Store
<1> QED BY <1>2, <1>5, <1>6, <1>7, <1>9 DEF Spliced, M, before, next

(* List_insert of an item that is in no list puts it into the sequence of  *)
(* list h, after its k-th place; no other sequence changes.                *)
THEOREM InsertRepresents ==
  ASSUME NULL \notin ListItem, NEW L, NEW s, Represents(L, s),
         NEW h \in ListHead, NEW x \in ListItem, Unlisted(s, x), NEW k \in 0 .. Len(s[h])
  PROVE  Represents(List_insert(L, h, Before(s, h, k), x),
                    [s EXCEPT ![h] = InsertAt(s[h], k + 1, x)])
<1> DEFINE q == s[h]
           n == Len(q)
           t == InsertAt(q, k + 1, x)
           u == [s EXCEPT ![h] = t]
           M == List_insert(L, h, Before(s, h, k), x)
           before == Before(s, h, k)
           next == After(s, h, k)
<1>0. /\ L \in Store /\ s \in [ListHead -> Seq(ListItem)] /\ s[h] = q
      /\ q \in Seq(ListItem) /\ Len(q) = n /\ n \in Nat /\ k \in 0 .. n
  BY DEF Represents
<1>1. /\ L.size[h] = n
      /\ L.first[h] = IF n = 0 THEN NULL ELSE q[1]
      /\ L.last[h] = IF n = 0 THEN NULL ELSE q[n]
      /\ \A i, j \in 1 .. n : q[i] = q[j] => i = j
      /\ \A i \in 1 .. n : /\ L.next[q[i]] = IF i = n THEN NULL ELSE q[i + 1]
                           /\ L.prev[q[i]] = IF i = 1 THEN NULL ELSE q[i - 1]
      /\ \A i \in 1 .. n : q[i] \in ListItem /\ q[i] # x /\ q[i] # NULL
  <2>1. Holds(L, h, q) /\ \A i \in 1 .. n : q[i] # x
    BY DEF Represents, Unlisted
  <2>2. q \in Seq(ListItem) /\ Len(q) = n
    BY <1>0
  <2> HIDE DEF q, n
  <2>3. \A i \in 1 .. n : q[i] \in ListItem /\ q[i] # x /\ q[i] # NULL
    BY <2>1, <2>2
  <2>4. /\ L.size[h] = n
        /\ L.first[h] = IF n = 0 THEN NULL ELSE q[1]
        /\ L.last[h] = IF n = 0 THEN NULL ELSE q[n]
        /\ \A i, j \in 1 .. n : q[i] = q[j] => i = j
        /\ \A i \in 1 .. n : /\ L.next[q[i]] = IF i = n THEN NULL ELSE q[i + 1]
                             /\ L.prev[q[i]] = IF i = 1 THEN NULL ELSE q[i - 1]
    BY <2>1, <2>2 DEF Holds
  <2> QED BY <2>3, <2>4
<1>2. /\ before = IF k = 0 THEN NULL ELSE q[k]
      /\ next = IF k = n THEN NULL ELSE q[k + 1]
  BY DEF Before, After
<1>3. /\ M \in Store
      /\ M.first = [L.first EXCEPT ![h] = IF k = 0 THEN x ELSE @]
      /\ M.last = [L.last EXCEPT ![h] = IF k = n THEN x ELSE @]
      /\ M.size = [L.size EXCEPT ![h] = @ + 1]
      /\ \A y \in ListItem :
           /\ M.next[y] = IF y = x THEN next ELSE IF y = before THEN x ELSE L.next[y]
           /\ M.prev[y] = IF y = x THEN before ELSE IF y = next THEN x ELSE L.prev[y]
  <2>1. Spliced(M, L, s, h, k, x)
    BY InsertFields, Zenon
  <2> QED BY <2>1 DEF Spliced
<1> HIDE DEF M, before, next, n, q
<1>4. /\ t \in Seq(ListItem) /\ Len(t) = n + 1
      /\ \A j \in 1 .. n + 1 :
           t[j] = IF j < k + 1 THEN q[j] ELSE IF j = k + 1 THEN x ELSE q[j - 1]
  <2>1. k + 1 \in 1 .. Len(q) + 1
    BY <1>0
  <2>2. /\ t \in Seq(ListItem) /\ Len(t) = Len(q) + 1
        /\ \A j \in 1 .. Len(q) + 1 :
             t[j] = IF j < k + 1 THEN q[j] ELSE IF j = k + 1 THEN x ELSE q[j - 1]
    <3>1. q \in Seq(ListItem)
      BY <1>0
    <3> QED BY <2>1, <3>1, InsertAtElements, Z3
  <2> QED BY <1>0, <2>2
<1>5. u[h] = t /\ u \in [ListHead -> Seq(ListItem)] /\ \A g \in ListHead \ {h} : u[g] = s[g]
  BY <1>0, <1>4
<1> HIDE DEF t, u
(* The places of the new sequence before, at and after the item. *)
<1>6. /\ \A j \in 1 .. k : j \in 1 .. n /\ t[j] = q[j]
      /\ t[k + 1] = x
      /\ \A j \in k + 2 .. n + 1 : j - 1 \in 1 .. n /\ t[j] = q[j - 1]
  <2>0. n \in Nat /\ k \in 0 .. n
    BY <1>0
  <2>1. ASSUME NEW j \in 1 .. k PROVE j \in 1 .. n /\ t[j] = q[j]
    <3>1. j \in 1 .. n /\ j \in 1 .. n + 1 /\ j < k + 1
      BY <2>0
    <3> QED BY <1>4, <3>1
  <2>2. t[k + 1] = x
    <3>1. k + 1 \in 1 .. n + 1 /\ ~ (k + 1 < k + 1)
      BY <2>0
    <3> QED BY <1>4, <3>1
  <2>3. ASSUME NEW j \in k + 2 .. n + 1 PROVE j - 1 \in 1 .. n /\ t[j] = q[j - 1]
    <3>1. j - 1 \in 1 .. n /\ j \in 1 .. n + 1 /\ ~ (j < k + 1) /\ j # k + 1
      BY <2>0
    <3> QED BY <1>4, <3>1
  <2> QED BY <2>1, <2>2, <2>3
<1>7. ASSUME NEW i \in 1 .. n + 1, NEW j \in 1 .. n + 1, t[i] = t[j] PROVE i = j
  <2> DEFINE o(m) == IF m <= k THEN m ELSE m - 1
  <2>0. n \in Nat /\ k \in 0 .. n
    BY <1>0
  <2>1. ASSUME NEW m \in 1 .. n + 1, m # k + 1 PROVE o(m) \in 1 .. n /\ t[m] = q[o(m)]
    <3>1. CASE m <= k
      <4>1. m \in 1 .. k
        BY <3>1
      <4> QED BY <1>6, <3>1, <4>1
    <3>2. CASE ~ (m <= k)
      <4>1. m \in k + 2 .. n + 1
        BY <2>0, <2>1, <3>2
      <4> QED BY <1>6, <3>2, <4>1
    <3> QED BY <3>1, <3>2
  <2>2. \A m \in 1 .. n + 1 : m # k + 1 => t[m] # x
    <3> HIDE DEF o
    <3> QED BY <1>1, <2>1
  <2>3. CASE i = k + 1 \/ j = k + 1
    BY <1>6, <1>7, <2>2, <2>3
  <2>4. CASE i # k + 1 /\ j # k + 1
    <3>1. /\ o(i) \in 1 .. n /\ t[i] = q[o(i)]
          /\ o(j) \in 1 .. n /\ t[j] = q[o(j)]
      BY <2>1, <2>4
    <3>2. o(i) = o(j)
      <4> HIDE DEF o
      <4> QED BY <1>1, <1>7, <3>1
    <3> QED BY <2>0, <2>4, <3>2
  <2> QED BY <2>3, <2>4
<1>8. ASSUME NEW i \in 1 .. n + 1
      PROVE  M.next[t[i]] = IF i = n + 1 THEN NULL ELSE t[i + 1]
  <2>1. CASE i < k
    <3>1. i \in 1 .. n /\ i + 1 \in 1 .. k /\ k \in 1 .. n /\ i # k /\ i # n
      BY <1>0, <2>1
    <3>2. L.next[q[i]] = q[i + 1] /\ q[i] # before /\ q[i] # x
      BY <1>1, <1>2, <3>1
    <3> QED BY <1>0, <1>1, <1>3, <1>6, <2>1, <3>1, <3>2
  <2>2. CASE i = k
    <3>1. i \in 1 .. n /\ k # 0 /\ i # n + 1
      BY <1>0, <2>2
    <3> QED BY <1>0, <1>1, <1>2, <1>3, <1>6, <2>2, <3>1
  <2>3. CASE i = k + 1
    <3>1. k # n => k + 2 \in k + 2 .. n + 1 /\ (k + 2) - 1 = k + 1 /\ i + 1 = k + 2
      BY <1>0, <2>3
    <3>2. k # n => t[i + 1] = q[k + 1]
      BY <1>6, <3>1
    <3>3. M.next[x] = next
      BY <1>3
    <3> QED BY <1>0, <1>2, <1>6, <2>3, <3>2, <3>3
  <2>4. CASE i > k + 1
    <3>1. i - 1 \in 1 .. n /\ i - 1 # k /\ i \in k + 2 .. n + 1 /\ (i - 1) + 1 = i
      BY <1>0, <2>4
    <3>2. t[i] = q[i - 1] /\ L.next[q[i - 1]] = IF i - 1 = n THEN NULL ELSE q[i]
      BY <1>1, <1>6, <3>1
    <3>3. q[i - 1] # before /\ q[i - 1] # x /\ q[i - 1] \in ListItem
      BY <1>0, <1>1, <1>2, <3>1
    <3>4. M.next[t[i]] = L.next[q[i - 1]]
      BY <1>3, <3>2, <3>3
    <3>5. i # n + 1 => i + 1 \in k + 2 .. n + 1 /\ (i + 1) - 1 = i
      BY <1>0, <2>4
    <3>6. i # n + 1 => t[i + 1] = q[i]
      BY <1>6, <3>5
    <3> QED BY <1>0, <3>2, <3>4, <3>6
  <2> QED BY <1>0, <2>1, <2>2, <2>3, <2>4
<1>9. ASSUME NEW i \in 1 .. n + 1
      PROVE  M.prev[t[i]] = IF i = 1 THEN NULL ELSE t[i - 1]
  <2>1. CASE i <= k
    <3>1. i \in 1 .. n /\ (k # n => k + 1 \in 1 .. n) /\ i # k + 1
          /\ (i # 1 => i - 1 \in 1 .. k)
      BY <1>0, <2>1
    <3>2. /\ L.prev[q[i]] = IF i = 1 THEN NULL ELSE q[i - 1]
          /\ q[i] # next /\ q[i] # x /\ q[i] \in ListItem
      BY <1>1, <1>2, <3>1
    <3>3. t[i] = q[i] /\ (i # 1 => t[i - 1] = q[i - 1])
      BY <1>0, <1>6, <2>1, <3>1
    <3> QED BY <1>3, <3>2, <3>3
  <2>2. CASE i = k + 1
    <3>1. k # 0 => k \in 1 .. k /\ i - 1 = k
      BY <1>0, <2>2
    <3>2. k # 0 => t[i - 1] = q[k]
      BY <1>6, <3>1
    <3>3. M.prev[x] = before /\ t[i] = x
      BY <1>3, <1>6, <2>2
    <3> QED BY <1>0, <1>2, <2>2, <3>2, <3>3
  <2>3. CASE i = k + 2
    <3>1. i \in k + 2 .. n + 1 /\ i - 1 = k + 1 /\ k # n /\ i # 1
      BY <1>0, <2>3
    <3>2. t[i] = q[k + 1] /\ t[i - 1] = x /\ next = q[k + 1] /\ k + 1 \in 1 .. n
      BY <1>2, <1>6, <3>1
    <3> QED BY <1>1, <1>3, <3>1, <3>2
  <2>4. CASE i > k + 2
    <3>1. /\ i \in k + 2 .. n + 1 /\ i - 1 \in k + 2 .. n + 1 /\ i - 1 \in 1 .. n
          /\ i - 1 # k + 1 /\ i # 1 /\ i - 1 # 1
      BY <1>0, <2>4
    <3>2. t[i] = q[i - 1] /\ t[i - 1] = q[(i - 1) - 1] /\ L.prev[q[i - 1]] = q[(i - 1) - 1]
      BY <1>1, <1>6, <3>1
    <3>3. q[i - 1] # next /\ q[i - 1] # x /\ q[i - 1] \in ListItem
      <4>1. k # n => k + 1 \in 1 .. n
        BY <1>0
      <4> QED BY <1>1, <1>2, <3>1, <4>1
    <3> QED BY <1>3, <3>1, <3>2, <3>3
  <2> QED BY <1>0, <2>1, <2>2, <2>3, <2>4
<1>10. Holds(M, h, t)
  <2>1. /\ M.size[h] = n + 1
        /\ M.first[h] = IF k = 0 THEN x ELSE L.first[h]
        /\ M.last[h] = IF k = n THEN x ELSE L.last[h]
    BY <1>0, <1>1, <1>3 DEF Store
  <2>2. t # <<>> /\ t[1] = (IF k = 0 THEN x ELSE q[1]) /\ t[n + 1] = IF k = n THEN x ELSE q[n]
    BY <1>0, <1>4
  <2>3. M.first[h] = t[1] /\ M.last[h] = t[n + 1]
    BY <1>0, <1>1, <2>1, <2>2
  <2> QED BY <1>4, <1>7, <1>8, <1>9, <2>1, <2>2, <2>3 DEF Holds
<1>11. ASSUME NEW g \in ListHead \ {h} PROVE Holds(M, g, s[g])
  <2> DEFINE r == s[g]
  <2>1. /\ r \in Seq(ListItem) /\ Len(r) \in Nat /\ Holds(L, g, r)
        /\ \A i \in 1 .. Len(r) : r[i] \in ListItem /\ r[i] # x
        /\ \A i \in 1 .. Len(r), j \in 1 .. n : r[i] # q[j]
    BY DEF Represents, Unlisted, q, n
  <2>2. M.size[g] = L.size[g] /\ M.first[g] = L.first[g] /\ M.last[g] = L.last[g]
    BY <1>0, <1>3 DEF Store
  <2> HIDE DEF r
  <2>3. ASSUME NEW i \in 1 .. Len(r)
        PROVE  M.next[r[i]] = L.next[r[i]] /\ M.prev[r[i]] = L.prev[r[i]]
    <3>1. (k # 0 => k \in 1 .. n) /\ (k # n => k + 1 \in 1 .. n)
      BY <1>0
    <3>2. r[i] # before /\ r[i] # next /\ r[i] # x /\ r[i] \in ListItem
      BY <1>2, <2>1, <3>1
    <3> QED BY <1>3, <3>2
  <2>4. Holds(M, g, r)
    BY <2>1, <2>2, <2>3, HoldsElsewhere
  <2> QED BY <2>4 DEF r
(* What is in the new sequences was in the old ones, or is the item. *)
<1>12. ASSUME NEW i \in 1 .. n + 1 PROVE t[i] = x \/ \E j \in 1 .. n : t[i] = q[j]
  <2>1. i \in 1 .. k \/ i = k + 1 \/ i \in k + 2 .. n + 1
    BY <1>0
  <2> QED BY <1>6, <2>1
<1>13. ASSUME NEW g \in ListHead, NEW f \in ListHead, NEW i \in 1 .. Len(u[g]),
              NEW j \in 1 .. Len(u[f]), u[g][i] = u[f][j], g = h, f # h
       PROVE  FALSE
  <2>1. i \in 1 .. n + 1 /\ u[g][i] = t[i] /\ j \in 1 .. Len(s[f]) /\ u[f][j] = s[f][j]
    BY <1>4, <1>5, <1>13
  <2>2. s[f][j] # x /\ \A m \in 1 .. n : q[m] # s[f][j]
    BY <1>13, <2>1 DEF Represents, Unlisted, q, n
  <2> QED BY <1>12, <1>13, <2>1, <2>2
<1>14. ASSUME NEW g \in ListHead, NEW f \in ListHead, NEW i \in 1 .. Len(u[g]),
              NEW j \in 1 .. Len(u[f]), u[g][i] = u[f][j]
       PROVE  g = f
  <2>1. CASE g # h /\ f # h
    BY <1>5, <1>14, <2>1 DEF Represents
  <2> QED BY <1>13, <1>14, <2>1
<1>15. ASSUME NEW y \in ListItem, Unlisted(u, y) PROVE M.next[y] = NULL /\ M.prev[y] = NULL
  <2>1. y # x
    <3>1. k + 1 \in 1 .. Len(u[h]) /\ u[h][k + 1] = x
      BY <1>0, <1>4, <1>5, <1>6
    <3> QED BY <1>15, <3>1 DEF Unlisted
  <2>2. \A i \in 1 .. n : q[i] # y
    <3> TAKE i \in 1 .. n
    <3>1. i \in 1 .. k \/ i + 1 \in k + 2 .. n + 1
      BY <1>0
    <3>2. \E j \in 1 .. n + 1 : t[j] = q[i]
      <4>1. CASE i \in 1 .. k
        <5>1. i \in 1 .. n + 1 /\ t[i] = q[i]
          BY <1>0, <1>6, <4>1
        <5> QED BY <5>1
      <4>2. CASE i + 1 \in k + 2 .. n + 1
        <5>1. i + 1 \in 1 .. n + 1 /\ (i + 1) - 1 = i /\ t[i + 1] = q[(i + 1) - 1]
          BY <1>0, <1>6, <4>2
        <5> QED BY <5>1
      <4> QED BY <3>1, <4>1, <4>2
    <3> QED BY <1>4, <1>5, <1>15, <3>2 DEF Unlisted
  <2>3. Unlisted(s, y)
    <3>1. \A g \in ListHead \ {h} : \A i \in 1 .. Len(s[g]) : s[g][i] # y
      BY <1>5, <1>15 DEF Unlisted
    <3> QED BY <2>2, <3>1 DEF Unlisted, q, n
  <2>4. L.next[y] = NULL /\ L.prev[y] = NULL
    BY <2>3 DEF Represents
  <2>5. y # before /\ y # next
    <3>1. (k # 0 => k \in 1 .. n) /\ (k # n => k + 1 \in 1 .. n)
      BY <1>0
    <3> QED BY <1>2, <2>2, <3>1
  <2> QED BY <1>3, <2>1, <2>4, <2>5
<1>16. \A g \in ListHead : Holds(M, g, u[g])
  BY <1>5, <1>10, <1>11
<1> QED BY <1>3, <1>5, <1>14, <1>15, <1>16, Zenon DEF Represents, M, u, t, q

---------------------------------------------------------------------------
(* M is L without the k-th item of list h, field by field. *)
Unspliced(M, L, s, h, k) ==
  /\ M \in Store
  /\ M.first = [L.first EXCEPT ![h] = IF k = 1 THEN After(s, h, k) ELSE @]
  /\ M.last = [L.last EXCEPT ![h] = IF k = Len(s[h]) THEN Before(s, h, k - 1) ELSE @]
  /\ M.size = [L.size EXCEPT ![h] = @ - 1]
  /\ \A y \in ListItem :
       /\ M.next[y] = IF y = s[h][k] THEN NULL
                      ELSE IF y = Before(s, h, k - 1) THEN After(s, h, k) ELSE L.next[y]
       /\ M.prev[y] = IF y = s[h][k] THEN NULL
                      ELSE IF y = After(s, h, k) THEN Before(s, h, k - 1) ELSE L.prev[y]

LEMMA DetachFields ==
  ASSUME NULL \notin ListItem, NEW L, NEW s, Represents(L, s),
         NEW h \in ListHead, NEW k \in 1 .. Len(s[h])
  PROVE  Unspliced(List_detach(L, h, s[h][k]), L, s, h, k)
<1> DEFINE q == s[h]
           n == Len(q)
           x == q[k]
           M == List_detach(L, h, x)
           prev == Before(s, h, k - 1)
           next == After(s, h, k)
<1>0. /\ L \in Store /\ q \in Seq(ListItem) /\ n \in Nat /\ k \in 1 .. n /\ x = q[k]
      /\ next = IF k = n THEN NULL ELSE q[k + 1]
      /\ prev = IF k = 1 THEN NULL ELSE q[k - 1]
  BY DEF Represents, After, Before
<1>1. /\ L.first[h] = q[1] /\ L.last[h] = q[n]
      /\ \A i, j \in 1 .. n : q[i] = q[j] => i = j
      /\ L.next[x] = next /\ L.prev[x] = prev
      /\ \A i \in 1 .. n : q[i] \in ListItem /\ q[i] # NULL
  <2>1. Holds(L, h, q) /\ q # <<>>
    BY <1>0 DEF Represents
  <2> QED BY <1>0, <2>1 DEF Holds
<1>2. M = List_detach(L, h, x)
  OBVIOUS
<1> HIDE DEF M, prev, next, n, q, x
<1>3. /\ x \in ListItem /\ prev \in ListItem \cup {NULL} /\ next \in ListItem \cup {NULL}
      /\ prev # x /\ next # x
  <2>1. (k # 1 => k - 1 \in 1 .. n) /\ (k # n => k + 1 \in 1 .. n)
    BY <1>0
  <2> QED BY <1>0, <1>1, <1>2, <2>1
<1>4. (x = L.first[h] <=> k = 1) /\ (x = L.last[h] <=> k = n)
  <2>1. 1 \in 1 .. n /\ n \in 1 .. n
    BY <1>0
  <2> QED BY <1>0, <1>1, <2>1
<1>5. /\ M.first = [L.first EXCEPT ![h] = IF x = @ THEN next ELSE @]
      /\ M.last = [L.last EXCEPT ![h] = IF x = @ THEN prev ELSE @]
      /\ M.size = [L.size EXCEPT ![h] = @ - 1]
      /\ M.next = [At(L.next, prev, next) EXCEPT ![x] = NULL]
      /\ M.prev = [At(L.prev, next, prev) EXCEPT ![x] = NULL]
      /\ M = [first |-> M.first, last |-> M.last, size |-> M.size, next |-> M.next, prev |-> M.prev]
  BY <1>0, <1>1, <1>2 DEF List_detach, Store
<1>6. \A y \in ListItem : M.next[y] = IF y = x THEN NULL ELSE IF y = prev THEN next ELSE L.next[y]
  BY <1>0, <1>3, <1>5 DEF At, Store
<1>7. \A y \in ListItem : M.prev[y] = IF y = x THEN NULL ELSE IF y = next THEN prev ELSE L.prev[y]
  BY <1>0, <1>3, <1>5 DEF At, Store
<1>8. M \in Store
  <2> DEFINE F == [ListItem -> ListItem \cup {NULL}]
             head == IF x = L.first[h] THEN next ELSE L.first[h]
             tail == IF x = L.last[h] THEN prev ELSE L.last[h]
  <2>1. /\ L.first \in [ListHead -> ListItem \cup {NULL}]
        /\ L.last \in [ListHead -> ListItem \cup {NULL}]
        /\ L.size \in [ListHead -> Int] /\ L.next \in F /\ L.prev \in F
    BY <1>0 DEF Store
  <2>2. /\ M.first = [L.first EXCEPT ![h] = head]
        /\ M.last = [L.last EXCEPT ![h] = tail]
        /\ M.size = [L.size EXCEPT ![h] = L.size[h] - 1]
    BY <1>5
  <2>3. head \in ListItem \cup {NULL} /\ tail \in ListItem \cup {NULL} /\ L.size[h] - 1 \in Int
    BY <1>3, <2>1
  <2> HIDE DEF head, tail
  <2>4. /\ M.first \in [ListHead -> ListItem \cup {NULL}]
        /\ M.last \in [ListHead -> ListItem \cup {NULL}]
        /\ M.size \in [ListHead -> Int]
    BY <2>1, <2>2, <2>3
  <2>5. At(L.next, prev, next) \in F /\ At(L.prev, next, prev) \in F
    BY <1>3, <2>1 DEF At
  <2>6. M.next \in F
    BY <1>5, <2>5
  <2>7. M.prev \in F
    BY <1>5, <2>5
  <2> QED BY <1>5, <2>4, <2>6, <2>7 DEF Store
<1> QED BY <1>4, <1>5, <1>6, <1>7, <1>8 DEF Unspliced, M, prev, next, n, q, x

(* List_detach of the k-th item of list h takes it out of the sequence of  *)
(* h; no other sequence changes.                                           *)
THEOREM DetachRepresents ==
  ASSUME NULL \notin ListItem, NEW L, NEW s, Represents(L, s),
         NEW h \in ListHead, NEW k \in 1 .. Len(s[h])
  PROVE  Represents(List_detach(L, h, s[h][k]), [s EXCEPT ![h] = RemoveAt(s[h], k)])
<1> DEFINE q == s[h]
           n == Len(q)
           x == q[k]
           t == RemoveAt(q, k)
           u == [s EXCEPT ![h] = t]
           M == List_detach(L, h, x)
           before == Before(s, h, k - 1)
           next == After(s, h, k)
<1>0. /\ L \in Store /\ s \in [ListHead -> Seq(ListItem)] /\ s[h] = q
      /\ q \in Seq(ListItem) /\ Len(q) = n /\ n \in Nat /\ k \in 1 .. n /\ q[k] = x
  BY DEF Represents
<1>1. /\ L.size[h] = n
      /\ L.first[h] = q[1] /\ L.last[h] = q[n]
      /\ \A i, j \in 1 .. n : q[i] = q[j] => i = j
      /\ \A i \in 1 .. n : /\ L.next[q[i]] = IF i = n THEN NULL ELSE q[i + 1]
                           /\ L.prev[q[i]] = IF i = 1 THEN NULL ELSE q[i - 1]
      /\ \A i \in 1 .. n : q[i] \in ListItem /\ q[i] # NULL
  <2>1. Holds(L, h, q)
    BY DEF Represents
  <2> QED BY <1>0, <2>1 DEF Holds
<1>2. /\ before = IF k = 1 THEN NULL ELSE q[k - 1]
      /\ next = IF k = n THEN NULL ELSE q[k + 1]
  BY <1>0 DEF Before, After
<1>3. /\ M \in Store
      /\ M.first = [L.first EXCEPT ![h] = IF k = 1 THEN next ELSE @]
      /\ M.last = [L.last EXCEPT ![h] = IF k = n THEN before ELSE @]
      /\ M.size = [L.size EXCEPT ![h] = @ - 1]
      /\ \A y \in ListItem :
           /\ M.next[y] = IF y = x THEN NULL ELSE IF y = before THEN next ELSE L.next[y]
           /\ M.prev[y] = IF y = x THEN NULL ELSE IF y = next THEN before ELSE L.prev[y]
  <2>1. Unspliced(M, L, s, h, k)
    BY DetachFields, Zenon
  <2> QED BY <2>1 DEF Unspliced
<1> HIDE DEF M, before, next, n, q, x
<1>4. /\ t \in Seq(ListItem) /\ Len(t) = n - 1
      /\ \A j \in 1 .. n - 1 : t[j] = IF j < k THEN q[j] ELSE q[j + 1]
  <2>1. q \in Seq(ListItem) /\ k \in 1 .. Len(q)
    BY <1>0
  <2>2. /\ t \in Seq(ListItem) /\ Len(t) = Len(q) - 1
        /\ \A j \in 1 .. Len(q) - 1 : t[j] = IF j < k THEN q[j] ELSE q[j + 1]
    BY <2>1, RemoveAtElements, Z3
  <2> QED BY <1>0, <2>2
<1>5. u[h] = t /\ u \in [ListHead -> Seq(ListItem)] /\ \A g \in ListHead \ {h} : u[g] = s[g]
  BY <1>0, <1>4
<1> HIDE DEF t, u
(* The places of the new sequence before and after the gap. *)
<1>6. /\ \A j \in 1 .. k - 1 : j \in 1 .. n /\ t[j] = q[j]
      /\ \A j \in k .. n - 1 : j + 1 \in 1 .. n /\ t[j] = q[j + 1]
  BY <1>0, <1>4
<1>7. ASSUME NEW i \in 1 .. n - 1, NEW j \in 1 .. n - 1, t[i] = t[j] PROVE i = j
  <2> DEFINE o(m) == IF m < k THEN m ELSE m + 1
  <2>1. /\ o(i) \in 1 .. n /\ t[i] = q[o(i)]
        /\ o(j) \in 1 .. n /\ t[j] = q[o(j)]
    BY <1>0, <1>6
  <2>2. o(i) = o(j)
    <3> HIDE DEF o
    <3> QED BY <1>1, <1>7, <2>1
  <2> QED BY <1>0, <2>2
<1>8. ASSUME NEW i \in 1 .. n - 1
      PROVE  M.next[t[i]] = IF i = n - 1 THEN NULL ELSE t[i + 1]
  <2>1. CASE i < k - 1
    <3>1. /\ i \in 1 .. k - 1 /\ i + 1 \in 1 .. k - 1 /\ i # n - 1 /\ i # n /\ k # 1
          /\ i \in 1 .. n /\ k - 1 \in 1 .. n /\ i # k /\ i # k - 1
      BY <1>0, <2>1
    <3>2. t[i] = q[i] /\ t[i + 1] = q[i + 1] /\ L.next[q[i]] = q[i + 1]
      BY <1>1, <1>6, <3>1
    <3>3. q[i] # before /\ q[i] # x /\ q[i] \in ListItem
      BY <1>0, <1>1, <1>2, <3>1
    <3> QED BY <1>3, <3>1, <3>2, <3>3
  <2>2. CASE i = k - 1
    <3>1. /\ k # 1 /\ i \in 1 .. k - 1 /\ i \in 1 .. n /\ i # k /\ i + 1 = k
          /\ (i = n - 1 <=> k = n) /\ (k # n => k \in k .. n - 1)
      BY <1>0, <2>2
    <3>2. t[i] = before /\ before = q[i] /\ (k # n => t[i + 1] = q[k + 1])
      BY <1>2, <1>6, <2>2, <3>1
    <3>3. M.next[q[i]] = next
      BY <1>0, <1>1, <1>3, <3>1, <3>2
    <3> QED BY <1>2, <3>1, <3>2, <3>3
  <2>3. CASE i >= k
    <3>1. /\ i \in k .. n - 1 /\ i + 1 \in 1 .. n /\ i + 1 # k /\ i + 1 # k - 1
          /\ (i = n - 1 <=> i + 1 = n) /\ (i # n - 1 => i + 1 \in k .. n - 1)
          /\ (k # 1 => k - 1 \in 1 .. n)
      BY <1>0, <2>3
    <3>2. /\ t[i] = q[i + 1] /\ (i # n - 1 => t[i + 1] = q[(i + 1) + 1])
          /\ L.next[q[i + 1]] = IF i + 1 = n THEN NULL ELSE q[(i + 1) + 1]
      BY <1>1, <1>6, <3>1
    <3>3. q[i + 1] # before /\ q[i + 1] # x /\ q[i + 1] \in ListItem
      BY <1>0, <1>1, <1>2, <3>1
    <3> QED BY <1>3, <3>1, <3>2, <3>3
  <2> QED BY <1>0, <2>1, <2>2, <2>3
<1>9. ASSUME NEW i \in 1 .. n - 1
      PROVE  M.prev[t[i]] = IF i = 1 THEN NULL ELSE t[i - 1]
  <2>1. CASE i <= k - 1
    <3>1. /\ i \in 1 .. k - 1 /\ (i # 1 => i - 1 \in 1 .. k - 1) /\ i \in 1 .. n
          /\ i # k /\ i # k + 1 /\ (k # n => k + 1 \in 1 .. n)
      BY <1>0, <2>1
    <3>2. /\ t[i] = q[i] /\ (i # 1 => t[i - 1] = q[i - 1])
          /\ L.prev[q[i]] = IF i = 1 THEN NULL ELSE q[i - 1]
      BY <1>1, <1>6, <3>1
    <3>3. q[i] # next /\ q[i] # x /\ q[i] \in ListItem
      BY <1>0, <1>1, <1>2, <3>1
    <3> QED BY <1>3, <3>2, <3>3
  <2>2. CASE i = k
    <3>1. /\ i \in k .. n - 1 /\ k # n /\ k + 1 \in 1 .. n /\ k + 1 # k
          /\ (k # 1 => k - 1 \in 1 .. k - 1)
      BY <1>0, <2>2
    <3>2. t[i] = q[k + 1] /\ next = q[k + 1] /\ (k # 1 => t[k - 1] = q[k - 1])
      BY <1>2, <1>6, <2>2, <3>1
    <3>3. M.prev[q[k + 1]] = before
      BY <1>0, <1>1, <1>3, <3>1, <3>2
    <3> QED BY <1>2, <2>2, <3>2, <3>3
  <2>3. CASE i > k
    <3>1. /\ i \in k .. n - 1 /\ i + 1 \in 1 .. n /\ i + 1 # k /\ i + 1 # k + 1
          /\ i + 1 # 1 /\ i # 1 /\ i - 1 \in k .. n - 1 /\ (i - 1) + 1 = i /\ (i + 1) - 1 = i
          /\ (k # n => k + 1 \in 1 .. n)
      BY <1>0, <2>3
    <3>2. t[i] = q[i + 1] /\ t[i - 1] = q[i] /\ L.prev[q[i + 1]] = q[i]
      BY <1>1, <1>6, <3>1
    <3>3. q[i + 1] # next /\ q[i + 1] # x /\ q[i + 1] \in ListItem
      BY <1>0, <1>1, <1>2, <3>1
    <3> QED BY <1>3, <3>1, <3>2, <3>3
  <2> QED BY <1>0, <2>1, <2>2, <2>3
<1>10. Holds(M, h, t)
  <2>1. /\ M.size[h] = n - 1
        /\ M.first[h] = IF k = 1 THEN next ELSE q[1]
        /\ M.last[h] = IF k = n THEN before ELSE q[n]
    BY <1>0, <1>1, <1>3 DEF Store
  <2>2. t = <<>> <=> n = 1
    BY <1>0, <1>4
  <2>3. M.first[h] = IF t = <<>> THEN NULL ELSE t[1]
    <3>1. CASE k = 1
      BY <1>0, <1>2, <1>4, <2>1, <2>2, <3>1
    <3>2. CASE k # 1
      BY <1>0, <1>4, <2>1, <2>2, <3>2
    <3> QED BY <3>1, <3>2
  <2>4. M.last[h] = IF t = <<>> THEN NULL ELSE t[n - 1]
    <3>1. CASE k = n
      <4>1. n # 1 => n - 1 \in 1 .. n - 1 /\ n - 1 < k
        BY <1>0, <3>1
      <4> QED BY <1>2, <1>4, <2>1, <2>2, <3>1, <4>1
    <3>2. CASE k # n
      <4>1. n # 1 /\ n - 1 \in 1 .. n - 1 /\ ~ (n - 1 < k) /\ (n - 1) + 1 = n
        BY <1>0, <3>2
      <4> QED BY <1>4, <2>1, <2>2, <3>2, <4>1
    <3> QED BY <3>1, <3>2
  <2> QED BY <1>4, <1>7, <1>8, <1>9, <2>1, <2>3, <2>4 DEF Holds
<1>11. ASSUME NEW g \in ListHead \ {h} PROVE Holds(M, g, s[g])
  <2> DEFINE r == s[g]
  <2>1. /\ r \in Seq(ListItem) /\ Len(r) \in Nat /\ Holds(L, g, r)
        /\ \A i \in 1 .. Len(r) : r[i] \in ListItem
        /\ \A i \in 1 .. Len(r), j \in 1 .. n : r[i] # q[j]
    BY DEF Represents, q, n
  <2>2. M.size[g] = L.size[g] /\ M.first[g] = L.first[g] /\ M.last[g] = L.last[g]
    BY <1>0, <1>3 DEF Store
  <2> HIDE DEF r
  <2>3. ASSUME NEW i \in 1 .. Len(r)
        PROVE  M.next[r[i]] = L.next[r[i]] /\ M.prev[r[i]] = L.prev[r[i]]
    <3>1. (k # 1 => k - 1 \in 1 .. n) /\ (k # n => k + 1 \in 1 .. n)
      BY <1>0
    <3>2. r[i] # before /\ r[i] # next /\ r[i] # x /\ r[i] \in ListItem
      BY <1>0, <1>2, <2>1, <3>1
    <3> QED BY <1>3, <3>2
  <2>4. Holds(M, g, r)
    BY <2>1, <2>2, <2>3, HoldsElsewhere
  <2> QED BY <2>4 DEF r
(* What is in the new sequences was in the old ones, and is not the item. *)
<1>12. ASSUME NEW i \in 1 .. n - 1 PROVE \E j \in 1 .. n : t[i] = q[j]
  BY <1>0, <1>4
<1>13. ASSUME NEW g \in ListHead, NEW f \in ListHead, NEW i \in 1 .. Len(u[g]),
              NEW j \in 1 .. Len(u[f]), u[g][i] = u[f][j], g = h, f # h
       PROVE  FALSE
  <2>1. i \in 1 .. n - 1 /\ u[g][i] = t[i] /\ j \in 1 .. Len(s[f]) /\ u[f][j] = s[f][j]
    BY <1>4, <1>5, <1>13
  <2>2. \A m \in 1 .. n : q[m] # s[f][j]
    BY <1>13, <2>1 DEF Represents, q, n
  <2> QED BY <1>12, <1>13, <2>1, <2>2
<1>14. ASSUME NEW g \in ListHead, NEW f \in ListHead, NEW i \in 1 .. Len(u[g]),
              NEW j \in 1 .. Len(u[f]), u[g][i] = u[f][j]
       PROVE  g = f
  <2>1. CASE g # h /\ f # h
    BY <1>5, <1>14, <2>1 DEF Represents
  <2> QED BY <1>13, <1>14, <2>1
<1>15. ASSUME NEW y \in ListItem, Unlisted(u, y) PROVE M.next[y] = NULL /\ M.prev[y] = NULL
  <2>1. CASE y = x
    BY <1>3, <2>1
  <2>2. CASE y # x
    <3>1. \A i \in 1 .. n : q[i] # y
      <4> TAKE i \in 1 .. n
      <4>1. CASE i < k
        <5>1. i \in 1 .. n - 1 /\ t[i] = q[i]
          BY <1>0, <1>4, <4>1
        <5> QED BY <1>4, <1>5, <1>15, <5>1 DEF Unlisted
      <4>2. CASE i > k
        <5>1. i - 1 \in 1 .. n - 1 /\ t[i - 1] = q[i]
          BY <1>0, <1>4, <4>2
        <5> QED BY <1>4, <1>5, <1>15, <5>1 DEF Unlisted
      <4> QED BY <1>0, <2>2, <4>1, <4>2
    <3>2. Unlisted(s, y)
      <4>1. \A g \in ListHead \ {h} : \A i \in 1 .. Len(s[g]) : s[g][i] # y
        BY <1>5, <1>15 DEF Unlisted
      <4> QED BY <3>1, <4>1 DEF Unlisted, q, n
    <3>3. L.next[y] = NULL /\ L.prev[y] = NULL
      BY <3>2 DEF Represents
    <3>4. y # before /\ y # next
      <4>1. (k # 1 => k - 1 \in 1 .. n) /\ (k # n => k + 1 \in 1 .. n)
        BY <1>0
      <4> QED BY <1>2, <3>1, <4>1
    <3> QED BY <1>3, <2>2, <3>3, <3>4
  <2> QED BY <2>1, <2>2
<1>16. \A g \in ListHead : Holds(M, g, u[g])
  BY <1>5, <1>10, <1>11
<1> QED BY <1>3, <1>5, <1>14, <1>15, <1>16, Zenon DEF Represents, M, u, t, q, x

---------------------------------------------------------------------------
(* Following the pointers from the head of a list meets its sequence, and  *)
(* stops there however many steps are allowed.                             *)
THEOREM WalkIsSequence ==
  ASSUME NULL \notin ListItem, NEW L, NEW s, Represents(L, s), NEW h \in ListHead,
         NEW m \in Nat, Len(s[h]) <= m
  PROVE  Walk(L, h, m) = s[h]
<1> DEFINE q == s[h]
           n == Len(q)
           met(p, i) == LET x == IF p = <<>> THEN L.first[h] ELSE L.next[p[Len(p)]]
                        IN IF Len(p) < i - 1 \/ x = NULL THEN p ELSE Append(p, x)
           walk(f) == [i \in 0 .. m |-> IF i = 0 THEN <<>> ELSE met(f[i - 1], i)]
           w == CHOOSE f : f = walk(f)
           start(i) == SubSeq(q, 1, IF i <= n THEN i ELSE n)
<1>0. /\ q \in Seq(ListItem) /\ n \in Nat /\ n <= m /\ Len(q) = n
      /\ L.first[h] = IF n = 0 THEN NULL ELSE q[1]
      /\ \A i \in 1 .. n : /\ L.next[q[i]] = IF i = n THEN NULL ELSE q[i + 1]
                           /\ q[i] \in ListItem /\ q[i] # NULL
  <2>1. Holds(L, h, q) /\ q \in Seq(ListItem)
    BY DEF Represents
  <2> QED BY <2>1 DEF Holds
<1>1. Walk(L, h, m) = w[m]
  BY DEF Walk
<1> HIDE DEF q, n
<1>2. ASSUME NEW i \in 0 .. m
      PROVE  /\ start(i) \in Seq(ListItem) /\ Len(start(i)) = IF i <= n THEN i ELSE n
             /\ \A j \in 1 .. (IF i <= n THEN i ELSE n) : start(i)[j] = q[j]
  BY <1>0
<1> HIDE DEF start
<1>3. ASSUME NEW i \in 1 .. m PROVE met(start(i - 1), i) = start(i)
  <2> DEFINE p == start(i - 1)
             x == IF p = <<>> THEN L.first[h] ELSE L.next[p[Len(p)]]
  <2>1. i - 1 \in 0 .. m /\ i \in 0 .. m
    OBVIOUS
  <2>2. CASE i <= n
    <3>1. p \in Seq(ListItem) /\ Len(p) = i - 1 /\ \A j \in 1 .. i - 1 : p[j] = q[j]
      <4>1. i - 1 <= n
        BY <1>0, <2>2
      <4>2. /\ p \in Seq(ListItem) /\ Len(p) = IF i - 1 <= n THEN i - 1 ELSE n
            /\ \A j \in 1 .. (IF i - 1 <= n THEN i - 1 ELSE n) : p[j] = q[j]
        BY <1>2, <2>1, Zenon
      <4> HIDE DEF p
      <4> QED BY <4>1, <4>2
    <3>2. x = q[i] /\ x # NULL
      <4>1. CASE i = 1
        BY <1>0, <2>2, <3>1, <4>1
      <4>2. CASE i # 1
        <5>1. i - 1 \in 1 .. n /\ i - 1 # n /\ (i - 1) + 1 = i /\ i \in 1 .. n /\ i - 1 \in 1 .. i - 1
          BY <1>0, <2>2, <4>2
        <5> QED BY <1>0, <3>1, <5>1
      <4> QED BY <4>1, <4>2
    <3>3. met(p, i) = Append(p, q[i])
      BY <3>1, <3>2
    <3>4. /\ start(i) \in Seq(ListItem) /\ Len(start(i)) = i
          /\ \A j \in 1 .. i : start(i)[j] = q[j]
      BY <1>2, <2>1, <2>2
    <3>5. q[i] \in ListItem
      BY <1>0, <2>2
    <3> HIDE DEF p
    <3>6. /\ Append(p, q[i]) \in Seq(ListItem) /\ Len(Append(p, q[i])) = i
          /\ \A j \in 1 .. i : Append(p, q[i])[j] = q[j]
      BY <3>1, <3>5
    <3>7. Append(p, q[i]) = start(i)
      BY <3>4, <3>6, SeqEqual
    <3> QED BY <3>3, <3>7 DEF p
  <2>3. CASE i > n
    <3>1. /\ p \in Seq(ListItem) /\ Len(p) = n /\ \A j \in 1 .. n : p[j] = q[j]
      BY <1>0, <1>2, <2>1, <2>3
    <3>2. /\ start(i) \in Seq(ListItem) /\ Len(start(i)) = n
          /\ \A j \in 1 .. n : start(i)[j] = q[j]
      BY <1>0, <1>2, <2>1, <2>3
    <3>3. p = start(i)
      <4> HIDE DEF p
      <4> QED BY <3>1, <3>2, SeqEqual
    <3>4. Len(p) < i - 1 \/ x = NULL
      <4>1. CASE n = 0
        BY <1>0, <3>1, <4>1
      <4>2. CASE n # 0
        <5>1. n \in 1 .. n
          BY <1>0, <4>2
        <5>2. x = L.next[q[n]]
          BY <1>0, <3>1, <4>2, <5>1
        <5> QED BY <1>0, <5>1, <5>2
      <4> QED BY <4>1, <4>2
    <3> QED BY <3>3, <3>4
  <2> QED BY <1>0, <2>2, <2>3
<1> HIDE DEF met
<1>4. w = walk(w)
  <2> DEFINE g == [i \in 0 .. m |-> start(i)]
  <2>1. g = walk(g)
    <3>1. start(0) = <<>>
      BY <1>0, <1>2
    <3>2. \A i \in 0 .. m : g[i] = IF i = 0 THEN <<>> ELSE met(g[i - 1], i)
      <4> TAKE i \in 0 .. m
      <4>1. i # 0 => i \in 1 .. m /\ i - 1 \in 0 .. m
        OBVIOUS
      <4> QED BY <1>3, <3>1, <4>1
    <3> QED BY <3>2
  <2> HIDE DEF g, walk
  <2> QED BY <2>1
<1> HIDE DEF w
<1> DEFINE S == {i \in 0 .. m : w[i] = start(i)}
<1>5. 0 \in S
  BY <1>0, <1>2, <1>4
<1>6. \A i \in S : i < m => i + 1 \in S
  <2> TAKE i \in S
  <2>1. i < m => i + 1 \in 1 .. m /\ (i + 1) - 1 = i /\ i + 1 # 0 /\ i + 1 \in 0 .. m
    OBVIOUS
  <2>2. i < m => w[i + 1] = met(w[i], i + 1)
    BY <1>4, <2>1
  <2>3. w[i] = start(i)
    OBVIOUS
  <2> QED BY <1>3, <2>1, <2>2, <2>3
<1>7. w[m] = start(m)
  <2>1. S \in SUBSET (0 .. m)
    OBVIOUS
  <2>2. m \in S
    <3> HIDE DEF S
    <3> QED BY <1>5, <1>6, <2>1, Induction
  <2> QED BY <2>2
<1>8. start(m) = q
  <2>1. /\ start(m) \in Seq(ListItem) /\ Len(start(m)) = n
        /\ \A j \in 1 .. n : start(m)[j] = q[j]
    BY <1>0, <1>2
  <2> QED BY <1>0, <2>1, SeqEqual
<1> QED BY <1>1, <1>7, <1>8 DEF q

---------------------------------------------------------------------------
(* The lists as sets.  A walk of m steps meets all of a list when no       *)
(* sequence of more than m items is without repetitions.                   *)
Enough(m) ==
  /\ NULL \notin ListItem /\ m \in Nat
  /\ \A q \in Seq(ListItem) : (\A i, j \in 1 .. Len(q) : q[i] = q[j] => i = j) => Len(q) <= m

Items(L, h, m) == ToSet(Walk(L, h, m))

InNoList(L, x, m) == \A h \in ListHead : x \notin Items(L, h, m)

(* From L to M, list h gains, or loses, item x; the others stay. *)
Gains(M, L, h, x, m) ==
  /\ Proper(M)
  /\ \A g \in ListHead : Items(M, g, m) = IF g = h THEN Items(L, h, m) \cup {x} ELSE Items(L, g, m)
Loses(M, L, h, x, m) ==
  /\ Proper(M)
  /\ \A g \in ListHead : Items(M, g, m) = IF g = h THEN Items(L, h, m) \ {x} ELSE Items(L, g, m)

LEMMA ItemsOfSequence ==
  ASSUME NEW m, Enough(m), NEW L, NEW s, Represents(L, s), NEW h \in ListHead
  PROVE  /\ Walk(L, h, m) = s[h]
         /\ Items(L, h, m) = {s[h][i] : i \in 1 .. Len(s[h])}
         /\ \A x : x \in Items(L, h, m) <=> \E i \in 1 .. Len(s[h]) : s[h][i] = x
<1> DEFINE q == s[h]
<1>1. q \in Seq(ListItem) /\ \A i, j \in 1 .. Len(q) : q[i] = q[j] => i = j
  BY DEF Represents, Holds
<1>2. DOMAIN q = 1 .. Len(q)
  BY <1>1
<1> HIDE DEF q
<1>5. Len(q) <= m /\ m \in Nat
  BY <1>1 DEF Enough
<1>6. Walk(L, h, m) = q
  BY <1>5, WalkIsSequence DEF q, Enough
<1> QED BY <1>2, <1>6 DEF Items, ToSet, q

(* What the lists of a proper store have in common. *)
LEMMA ProperLists ==
  ASSUME NEW m, Enough(m), NEW L, Proper(L)
  PROVE  /\ L \in Store
         /\ \A h \in ListHead :
              /\ Holds(L, h, Walk(L, h, m))
              /\ Items(L, h, m) \in SUBSET ListItem
              /\ L.first[h] = NULL <=> Items(L, h, m) = {}
              /\ L.first[h] # NULL => L.first[h] \in Items(L, h, m)
              /\ L.last[h] # NULL => L.last[h] \in Items(L, h, m)
         /\ \A g, h \in ListHead : g # h => Items(L, g, m) \cap Items(L, h, m) = {}
<1>1. PICK s : Represents(L, s)
  BY DEF Proper
<1>2. ASSUME NEW h \in ListHead
      PROVE  /\ Holds(L, h, Walk(L, h, m))
             /\ Items(L, h, m) \in SUBSET ListItem
             /\ L.first[h] = NULL <=> Items(L, h, m) = {}
             /\ L.first[h] # NULL => L.first[h] \in Items(L, h, m)
             /\ L.last[h] # NULL => L.last[h] \in Items(L, h, m)
  <2>1. /\ s[h] \in Seq(ListItem) /\ Holds(L, h, s[h])
        /\ \A i \in 1 .. Len(s[h]) : s[h][i] \in ListItem /\ s[h][i] # NULL
    BY <1>1 DEF Represents, Enough
  <2>2. Holds(L, h, Walk(L, h, m)) /\ Items(L, h, m) = {s[h][i] : i \in 1 .. Len(s[h])}
    BY <1>1, <2>1, ItemsOfSequence
  <2>3. CASE s[h] = <<>>
    BY <2>1, <2>2, <2>3 DEF Holds
  <2>4. CASE s[h] # <<>>
    <3>1. 1 \in 1 .. Len(s[h]) /\ Len(s[h]) \in 1 .. Len(s[h])
      BY <2>1, <2>4
    <3>2. L.first[h] = s[h][1] /\ L.last[h] = s[h][Len(s[h])]
      BY <2>1, <2>4 DEF Holds
    <3> QED BY <2>1, <2>2, <3>1, <3>2
  <2> QED BY <2>3, <2>4
<1>3. ASSUME NEW g \in ListHead, NEW h \in ListHead, g # h
      PROVE  Items(L, g, m) \cap Items(L, h, m) = {}
  <2>1. \A i \in 1 .. Len(s[g]), j \in 1 .. Len(s[h]) : s[g][i] # s[h][j]
    BY <1>1, <1>3 DEF Represents
  <2>2. /\ Items(L, g, m) = {s[g][i] : i \in 1 .. Len(s[g])}
        /\ Items(L, h, m) = {s[h][i] : i \in 1 .. Len(s[h])}
    BY <1>1, ItemsOfSequence
  <2> QED BY <2>1, <2>2
<1> QED BY <1>1, <1>2, <1>3 DEF Represents

(* Insert a fresh item at the front, or after an item of the list. *)
LEMMA InsertItems ==
  ASSUME NEW m, Enough(m), NEW L, Proper(L), NEW h \in ListHead, NEW x \in ListItem,
         InNoList(L, x, m),
         NEW before, before = NULL \/ before \in Items(L, h, m)
  PROVE  Gains(List_insert(L, h, before, x), L, h, x, m)
<1>1. PICK s : Represents(L, s)
  BY DEF Proper
<1>2. \A g \in ListHead : Items(L, g, m) = {s[g][i] : i \in 1 .. Len(s[g])}
  BY <1>1, ItemsOfSequence
<1>3. Unlisted(s, x)
  BY <1>2 DEF Unlisted, InNoList
<1>4. s[h] \in Seq(ListItem) /\ Len(s[h]) \in Nat /\ s \in [ListHead -> Seq(ListItem)]
  BY <1>1 DEF Represents
<1>5. PICK k \in 0 .. Len(s[h]) : before = Before(s, h, k)
  <2>1. CASE before = NULL
    <3>1. 0 \in 0 .. Len(s[h]) /\ before = Before(s, h, 0)
      BY <1>4, <2>1 DEF Before
    <3> QED BY <3>1
  <2>2. CASE before \in Items(L, h, m)
    <3>1. PICK k \in 1 .. Len(s[h]) : before = s[h][k]
      BY <1>2, <2>2
    <3>2. k \in 0 .. Len(s[h]) /\ before = Before(s, h, k)
      BY <1>4, <3>1 DEF Before
    <3> QED BY <3>2
  <2> QED BY <2>1, <2>2
<1> DEFINE M == List_insert(L, h, before, x)
           t == InsertAt(s[h], k + 1, x)
           u == [s EXCEPT ![h] = t]
<1>6. Represents(M, u)
  BY <1>1, <1>3, <1>5, InsertRepresents DEF Enough
<1>7. \A g \in ListHead : Items(M, g, m) = ToSet(u[g])
  <2> HIDE DEF M, u
  <2> QED BY <1>6, ItemsOfSequence DEF Items
<1>8. ToSet(t) = ToSet(s[h]) \cup {x}
  <2>1. k + 1 \in 1 .. Len(s[h]) + 1 /\ s[h] \in Seq(ListItem)
    BY <1>4
  <2> QED BY <2>1, InsertAtToSet
<1> HIDE DEF M, t
<1>9. u[h] = t /\ \A g \in ListHead \ {h} : u[g] = s[g]
  BY <1>4
<1>10. \A g \in ListHead : Items(L, g, m) = ToSet(s[g])
  BY <1>1, ItemsOfSequence DEF Items
<1>11. ASSUME NEW g \in ListHead
       PROVE  Items(M, g, m) = IF g = h THEN Items(L, h, m) \cup {x} ELSE Items(L, g, m)
  BY <1>7, <1>8, <1>9, <1>10
<1> QED BY <1>6, <1>11 DEF Proper, M, Gains

LEMMA EnlistItems ==
  ASSUME NEW m, Enough(m), NEW L, Proper(L), NEW h \in ListHead, NEW x \in ListItem,
         InNoList(L, x, m)
  PROVE  Gains(Enlist(L, h, x), L, h, x, m)
<1> DEFINE before == L.last[h]
<1>1. before = NULL \/ before \in Items(L, h, m)
  BY ProperLists
<1>2. Enlist(L, h, x) = List_insert(L, h, before, x)
  BY DEF Enlist
<1> HIDE DEF before
<1>3. Gains(List_insert(L, h, before, x), L, h, x, m)
  BY <1>1, InsertItems, Zenon
<1> QED BY <1>2, <1>3

LEMMA DetachItems ==
  ASSUME NEW m, Enough(m), NEW L, Proper(L), NEW h \in ListHead, NEW x \in Items(L, h, m)
  PROVE  Loses(List_detach(L, h, x), L, h, x, m)
<1>1. PICK s : Represents(L, s)
  BY DEF Proper
<1>2. \A g \in ListHead : Items(L, g, m) = ToSet(s[g])
  BY <1>1, ItemsOfSequence DEF Items
<1>3. /\ s[h] \in Seq(ListItem) /\ s \in [ListHead -> Seq(ListItem)]
      /\ \A i, j \in 1 .. Len(s[h]) : s[h][i] = s[h][j] => i = j
  BY <1>1 DEF Represents, Holds
<1>4. PICK k \in 1 .. Len(s[h]) : s[h][k] = x
  BY <1>1, ItemsOfSequence
<1> DEFINE M == List_detach(L, h, x)
           t == RemoveAt(s[h], k)
           u == [s EXCEPT ![h] = t]
<1>5. Represents(M, u)
  BY <1>1, <1>4, DetachRepresents DEF Enough
<1>6. \A g \in ListHead : Items(M, g, m) = ToSet(u[g])
  <2> HIDE DEF M, u
  <2> QED BY <1>5, ItemsOfSequence DEF Items
<1>7. ToSet(t) = ToSet(s[h]) \ {x}
  BY <1>3, <1>4, RemoveAtToSet
<1> HIDE DEF M, t
<1>8. u[h] = t /\ \A g \in ListHead \ {h} : u[g] = s[g]
  BY <1>3
<1>9. ASSUME NEW g \in ListHead
      PROVE  Items(M, g, m) = IF g = h THEN Items(L, h, m) \ {x} ELSE Items(L, g, m)
  BY <1>2, <1>6, <1>7, <1>8
<1> QED BY <1>5, <1>9 DEF Proper, M, Loses

(* The null links of a fresh block are no news to an item in no list. *)
LEMMA FreshItems ==
  ASSUME NEW m, Enough(m), NEW L, Proper(L), NEW x \in ListItem,
         InNoList(L, x, m)
  PROVE  Fresh(L, x) = L
<1>1. PICK s : Represents(L, s)
  BY DEF Proper
<1>2. Unlisted(s, x)
  <2> SUFFICES ASSUME NEW g \in ListHead, NEW i \in 1 .. Len(s[g]) PROVE s[g][i] # x
    BY DEF Unlisted
  <2> QED BY <1>1, ItemsOfSequence DEF InNoList
<1>3. L \in Store /\ L.next[x] = NULL /\ L.prev[x] = NULL
  BY <1>1, <1>2 DEF Represents
<1>4. [L.next EXCEPT ![x] = NULL] = L.next /\ [L.prev EXCEPT ![x] = NULL] = L.prev
  BY <1>3 DEF Store
<1>5. L = [first |-> L.first, last |-> L.last, size |-> L.size, next |-> L.next, prev |-> L.prev]
  BY <1>3 DEF Store
<1> QED BY <1>4, <1>5 DEF Fresh

LEMMA EmptyItems ==
  ASSUME NEW m, Enough(m)
  PROVE  Proper(Empty) /\ \A h \in ListHead : Items(Empty, h, m) = {}
<1> DEFINE s == [h \in ListHead |-> <<>>]
<1>1. Represents(Empty, s)
  <2>1. /\ Empty \in Store /\ s \in [ListHead -> Seq(ListItem)]
        /\ \A h \in ListHead : s[h] = <<>> /\ Len(s[h]) = 0
    BY DEF Empty, Store
  <2>2. \A h \in ListHead : Holds(Empty, h, s[h])
    BY DEF Empty, Holds
  <2>3. \A x \in ListItem : Empty.next[x] = NULL /\ Empty.prev[x] = NULL
    BY DEF Empty
  <2> HIDE DEF s
  <2> QED BY <2>1, <2>2, <2>3 DEF Represents
<1>2. \A h \in ListHead : Items(Empty, h, m) = {s[h][i] : i \in 1 .. Len(s[h])}
  <2> HIDE DEF s
  <2> QED BY <1>1, ItemsOfSequence
<1> QED BY <1>1, <1>2 DEF Proper
=============================================================================
