------------------------------- MODULE Links -------------------------------
(***************************************************************************)
(* The doubly linked lists of lib/kernel/list.c at the level of their      *)
(* pointers: a list is a head and a tail, m.next and m.prev are the fields *)
(* of every list element, heads and tails included.  Beside the pointers   *)
(* seq says which sequence each list is to be, by what the comment of each *)
(* function promises; KernelList works with such sequences.                *)
(***************************************************************************)
EXTENDS Integers, Sequences, FiniteSets, SequencesExt

CONSTANTS Elem,            \* positive numbers
          key              \* what LESS compares, of each element

VARIABLES link, seq
vars == <<link, seq>>

List == {1, 2}
head(l) == -(2 * l)
tail(l) == -(2 * l) - 1
Node == Elem \cup {head(l) : l \in List} \cup {tail(l) : l \in List}
less(a, b) == key[a] < key[b]

(* list_init(), for both lists.                                            *)
Init ==
    /\ link = [next |-> [n \in Node |-> IF n = head(1) THEN tail(1) ELSE IF n = head(2) THEN tail(2) ELSE 0],
               prev |-> [n \in Node |-> IF n = tail(1) THEN head(1) ELSE IF n = tail(2) THEN head(2) ELSE 0]]
    /\ seq = [l \in List |-> <<>>]

list_begin(m, l) == m.next[head(l)]
list_empty(m, l) == list_begin(m, l) = tail(l)

list_insert(m, before, e) ==
    LET p == m.prev[before]
    IN [next |-> [m.next EXCEPT ![e] = before, ![p] = e],
        prev |-> [m.prev EXCEPT ![e] = p, ![before] = e]]

list_push_back(m, l, e) == list_insert(m, tail(l), e)

list_remove(m, e) ==
    [next |-> [m.next EXCEPT ![m.prev[e]] = m.next[e]],
     prev |-> [m.prev EXCEPT ![m.next[e]] = m.prev[e]]]

(* Mutant: the element after the range does not learn its new neighbour.   *)
list_splice_oneway(m, before, first, end) ==
    IF first = end THEN m
    ELSE LET last == m.prev[end]
             p == m.prev[first]
             cut == [next |-> [m.next EXCEPT ![p] = end], prev |-> [m.prev EXCEPT ![end] = p]]
         IN [next |-> [cut.next EXCEPT ![last] = before, ![cut.prev[before]] = first],
             prev |-> [cut.prev EXCEPT ![first] = cut.prev[before]]]

list_splice(m, before, first, end) ==
    IF first = end THEN m
    ELSE LET last == m.prev[end]
             p == m.prev[first]
             cut == [next |-> [m.next EXCEPT ![p] = end], prev |-> [m.prev EXCEPT ![end] = p]]
         IN [next |-> [cut.next EXCEPT ![last] = before, ![cut.prev[before]] = first],
             prev |-> [cut.prev EXCEPT ![first] = cut.prev[before], ![before] = last]]

(* The loop swaps the fields of every element, then the ends are swapped.  *)
RECURSIVE SwapFields(_, _, _)
SwapFields(m, e, end) ==
    IF e = end THEN m
    ELSE SwapFields([next |-> [m.next EXCEPT ![e] = m.prev[e]],
                     prev |-> [m.prev EXCEPT ![e] = m.next[e]]], m.next[e], end)
list_reverse(m, l) ==
    IF list_empty(m, l) THEN m
    ELSE LET n == SwapFields(m, list_begin(m, l), tail(l))
             first == n.prev[tail(l)]
             last == n.next[head(l)]
         IN [next |-> [n.next EXCEPT ![head(l)] = first, ![last] = n.prev[first]],
             prev |-> [n.prev EXCEPT ![tail(l)] = last, ![first] = n.next[last]]]

RECURSIVE find_end_of_run(_, _, _)
find_end_of_run(m, a, b) ==
    LET n == m.next[a] IN
    IF n = b \/ less(n, m.prev[n]) THEN n ELSE find_end_of_run(m, n, b)

RECURSIVE inplace_merge(_, _, _, _)
inplace_merge(m, a0, a1b0, b1) ==
    IF a0 = a1b0 \/ a1b0 = b1 THEN m
    ELSE IF ~less(a1b0, a0) THEN inplace_merge(m, m.next[a0], a1b0, b1)
    ELSE LET n == m.next[a1b0]
         IN inplace_merge(list_splice(m, a0, m.prev[n], n), a0, n, b1)

(* One pass over the list, from a0: the pointers and the number of runs.   *)
RECURSIVE MergePass(_, _, _, _)
MergePass(m, l, a0, run_cnt) ==
    IF a0 = tail(l) THEN <<m, run_cnt>>
    ELSE LET a1b0 == find_end_of_run(m, a0, tail(l))
             b1 == find_end_of_run(m, a1b0, tail(l))
         IN IF a1b0 = tail(l) THEN <<m, run_cnt + 1>>
            ELSE MergePass(inplace_merge(m, a0, a1b0, b1), l, b1, run_cnt + 1)

RECURSIVE list_sort(_, _)
list_sort(m, l) ==
    LET pass == MergePass(m, l, list_begin(m, l), 0)
    IN IF pass[2] > 1 THEN list_sort(pass[1], l) ELSE pass[1]

RECURSIVE FirstGreater(_, _, _, _)
FirstGreater(m, l, e, elem) ==
    IF e = tail(l) \/ less(elem, e) THEN e ELSE FirstGreater(m, l, m.next[e], elem)
list_insert_ordered(m, l, elem) == list_insert(m, FirstGreater(m, l, list_begin(m, l), elem), elem)

RECURSIVE UniqueFrom(_, _, _, _)
UniqueFrom(m, l, dup, e) ==
    LET n == m.next[e] IN
    IF n = tail(l) THEN m
    ELSE IF ~less(e, n) /\ ~less(n, e)
    THEN UniqueFrom(list_push_back(list_remove(m, n), dup, n), l, dup, e)
    ELSE UniqueFrom(m, l, dup, n)
list_unique(m, l, dup) == IF list_empty(m, l) THEN m ELSE UniqueFrom(m, l, dup, list_begin(m, l))

RECURSIVE Walk(_, _, _)
Walk(f, e, end) == IF e = end THEN <<>> ELSE <<e>> \o Walk(f, f[e], end)
list_size(m, l) == Len(Walk(m.next, list_begin(m, l), tail(l)))
-----------------------------------------------------------------------------
(* What the functions promise, on sequences.                               *)
StableSort(s) ==
    LET Before(i, j) == less(s[i], s[j]) \/ (~less(s[j], s[i]) /\ i <= j)
        rank(j) == Cardinality({i \in 1 .. Len(s) : Before(i, j)})
    IN [r \in 1 .. Len(s) |-> s[CHOOSE j \in 1 .. Len(s) : rank(j) = r]]
IsDuplicate(s, i) == i > 1 /\ key[s[i]] = key[s[i - 1]]
Pick(s, dup) == LET I == {i \in 1 .. Len(s) : IsDuplicate(s, i) = dup}
                    Nth(n) == CHOOSE i \in I : Cardinality({j \in I : j <= i}) = n
                IN [n \in 1 .. Cardinality(I) |-> s[Nth(n)]]
At(l, i) == IF i > Len(seq[l]) THEN tail(l) ELSE seq[l][i]

Insert(l) == \E e \in Elem \ (ToSet(seq[1]) \cup ToSet(seq[2])), i \in 1 .. Len(seq[l]) + 1 :
    /\ link' = list_insert(link, At(l, i), e)
    /\ seq' = [seq EXCEPT ![l] = InsertAt(@, i, e)]

InsertOrdered(l) == \E e \in Elem \ (ToSet(seq[1]) \cup ToSet(seq[2])) :
    /\ seq[l] = StableSort(seq[l])
    /\ link' = list_insert_ordered(link, l, e)
    /\ seq' = [seq EXCEPT ![l] = StableSort(Append(@, e))]

Delete(l) == \E i \in 1 .. Len(seq[l]) :
    /\ link' = list_remove(link, seq[l][i])
    /\ seq' = [seq EXCEPT ![l] = RemoveAt(@, i)]

(* A range of one list goes to a place in the other.                       *)
Splice(l, k) == \E i \in 1 .. Len(seq[l]), j \in 0 .. Len(seq[l]), b \in 1 .. Len(seq[k]) + 1 :
    /\ i <= j + 1 /\ l # k
    /\ link' = list_splice(link, At(k, b), At(l, i), At(l, j + 1))
    /\ seq' = [seq EXCEPT ![l] = SubSeq(@, 1, i - 1) \o SubSeq(@, j + 1, Len(@)),
                          ![k] = SubSeq(@, 1, b - 1) \o SubSeq(seq[l], i, j) \o SubSeq(@, b, Len(@))]

Reorder(l) ==
    \/ link' = list_reverse(link, l) /\ seq' = [seq EXCEPT ![l] = Reverse(@)]
    \/ link' = list_sort(link, l) /\ seq' = [seq EXCEPT ![l] = StableSort(@)]

Unique(l, k) ==
    /\ l # k
    /\ link' = list_unique(link, l, k)
    /\ seq' = [seq EXCEPT ![l] = Pick(@, FALSE), ![k] = @ \o Pick(seq[l], TRUE)]

Next == \/ \E l \in List : Insert(l) \/ InsertOrdered(l) \/ Delete(l) \/ Reorder(l)
        \/ \E l, k \in List : Splice(l, k) \/ Unique(l, k)
Spec == Init /\ [][Next]_vars
-----------------------------------------------------------------------------
(* Through every sequence of insertions, removals, splices, reversals,     *)
(* merge sorts and removals of duplicates the pointers of a list lead      *)
(* through the promised elements in both directions.                       *)
ListsMatch ==
    \A l \in List : /\ Walk(link.next, link.next[head(l)], tail(l)) = seq[l]
                    /\ Walk(link.prev, link.prev[tail(l)], head(l)) = Reverse(seq[l])
                    /\ list_size(link, l) = Len(seq[l])
                    /\ list_empty(link, l) <=> seq[l] = <<>>
=============================================================================
