---------------------------- MODULE LinkedList -----------------------------
(***************************************************************************)
(* linked_list.c, at the level of its pointers.  Items carry their own     *)
(* links (list.next, list.prev), so an item is in at most one list as long *)
(* as the callers see to it: neither operation checks.  A store of lists   *)
(* is a record                                                             *)
(*   first, last : from the lists to an item or NULL                       *)
(*   size        : from the lists to a number                              *)
(*   next, prev  : from the items to an item or NULL                       *)
(* and the operations are functions from stores to stores.                 *)
(***************************************************************************)
EXTENDS Integers, Sequences

CONSTANTS ListItem, ListHead, NULL

Store == [first: [ListHead -> ListItem \cup {NULL}], last: [ListHead -> ListItem \cup {NULL}],
          size: [ListHead -> Int],
          next: [ListItem -> ListItem \cup {NULL}], prev: [ListItem -> ListItem \cup {NULL}]]

Empty == [first |-> [h \in ListHead |-> NULL], last |-> [h \in ListHead |-> NULL],
          size  |-> [h \in ListHead |-> 0],
          next  |-> [x \in ListItem |-> NULL], prev |-> [x \in ListItem |-> NULL]]

(* The assignment f[x] = y through the pointer x: no effect when x is null. *)
At(f, x, y) == IF x = NULL THEN f ELSE [f EXCEPT ![x] = y]

Linked(L, item) == L.next[item] # NULL \/ L.prev[item] # NULL

(* Slip: the predecessor does not learn of its new successor. *)
List_insertHalf(L, h, before, item) ==
  LET next  == IF before = NULL THEN L.first[h] ELSE L.next[before]
  IN IF Linked(L, item) THEN L
     ELSE [L EXCEPT !.prev = At([L.prev EXCEPT ![item] = before], next, item),
                    !.next[item] = next,
                    !.first[h] = IF before = NULL THEN item ELSE @,
                    !.last[h] = IF next = NULL THEN item ELSE @,
                    !.size[h] = @ + 1]

(* Insert item after the item `before` of list h, at the front if that is  *)
(* null.  An item that has a link already is left where it is, and nobody  *)
(* looks at the result; but the only item of a list has no link at all.    *)
(* The assignments are made in the order of the code, so that `before` may *)
(* be the item itself.                                                     *)
List_insert(L, h, before, item) ==
  LET next  == IF before = NULL THEN L.first[h] ELSE L.next[before]
      prev1 == IF before = NULL THEN L.prev ELSE [L.prev EXCEPT ![item] = before]
      next1 == At(L.next, before, item)
      next2 == IF next = NULL THEN next1 ELSE [next1 EXCEPT ![item] = next]
  IN IF Linked(L, item) THEN L
     ELSE [L EXCEPT !.prev = At(prev1, next, item), !.next = next2,
                    !.first[h] = IF before = NULL THEN item ELSE @,
                    !.last[h] = IF next = NULL THEN item ELSE @,
                    !.size[h] = @ + 1]

EnlistFirst(L, h, item) == List_insert(L, h, NULL, item)     \* slip: at the front

(* Append, as the callers write it: List_insert(h, h->last, item). *)
Enlist(L, h, item) == List_insert(L, h, L.last[h], item)

(* Detach item from list h: its neighbours are joined wherever it is, and  *)
(* the head of h changes only if the item is at its ends.                  *)
List_detach(L, h, item) ==
  LET prev == L.prev[item]
      next == L.next[item]
  IN [L EXCEPT !.next = [At(@, prev, next) EXCEPT ![item] = NULL],
               !.prev = [At(@, next, prev) EXCEPT ![item] = NULL],
               !.first[h] = IF item = @ THEN next ELSE @,
               !.last[h] = IF item = @ THEN prev ELSE @,
               !.size[h] = @ - 1]

(* The item's own links are set to null when its block is allocated. *)
Fresh(L, item) == [L EXCEPT !.next[item] = NULL, !.prev[item] = NULL]

---------------------------------------------------------------------------
(* Store L keeps the sequence seq in list h: the pointers lead from the    *)
(* head through seq and back, and the size is its length.                  *)
Holds(L, h, seq) ==
  /\ L.size[h] = Len(seq)
  /\ L.first[h] = IF seq = <<>> THEN NULL ELSE seq[1]
  /\ L.last[h] = IF seq = <<>> THEN NULL ELSE seq[Len(seq)]
  /\ \A i, j \in 1 .. Len(seq) : seq[i] = seq[j] => i = j
  /\ \A i \in 1 .. Len(seq) :
       /\ L.next[seq[i]] = IF i = Len(seq) THEN NULL ELSE seq[i + 1]
       /\ L.prev[seq[i]] = IF i = 1 THEN NULL ELSE seq[i - 1]

(* The items met from the head of h by following next, in order, at most n. *)
Walk(L, h, n) ==
  LET w[i \in 0 .. n] ==
        IF i = 0 THEN <<>>
        ELSE LET s == w[i - 1]
                 x == IF s = <<>> THEN L.first[h] ELSE L.next[s[Len(s)]]
             IN IF Len(s) < i - 1 \/ x = NULL THEN s ELSE Append(s, x)
  IN w[n]
============================================================================
