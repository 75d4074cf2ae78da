----------------------------- MODULE KernelList -----------------------------
(***************************************************************************)
(* The doubly linked lists of lib/kernel/list.c, as the callers in         *)
(* threads/ see them: a list is the sequence of its elements from the      *)
(* front to the back, and an element is named by what it is embedded in.   *)
(***************************************************************************)
EXTENDS Integers, Sequences

list_push_back(list, elem) == Append(list, elem)

list_push_front(list, elem) == <<elem>> \o list

(* list_remove() is given the element; here, the position it is at.        *)
list_remove(list, i) == SubSeq(list, 1, i - 1) \o SubSeq(list, i + 1, Len(list))

(* The element of list at position i is the one list_max() returns when    *)
(* elements are ordered by key: the largest, and of several largest ones   *)
(* the one that appears first, since the scan replaces its candidate only  *)
(* by a strictly larger element.                                           *)
list_max(list, key, i) ==
    /\ i \in DOMAIN list
    /\ \A j \in DOMAIN list : key[list[j]] <= key[list[i]]
    /\ \A j \in DOMAIN list : j < i => key[list[j]] < key[list[i]]

Elems(list) == {list[i] : i \in DOMAIN list}

(* No element is linked into the list twice.                               *)
Distinct(list) == \A i, j \in DOMAIN list : list[i] = list[j] => i = j
=============================================================================
