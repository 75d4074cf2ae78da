------------------------------- MODULE Hash -------------------------------
(***************************************************************************)
(* The hash table of lib/kernel/hash.c: buckets of elements, moved to      *)
(* another number of buckets by rehash(), whose allocation may fail.       *)
(* Beside the table, member says which elements it is to hold.             *)
(***************************************************************************)
EXTENDS Integers, Sequences, FiniteSets, SequencesExt, FiniteSetsExt

CONSTANTS Elem,
          key,                      \* elements with the same key are equal to LESS
          hash,                     \* what HASH returns for a key
          MinBuckets,               \* 4 in the code
          BEST_ELEMS_PER_BUCKET     \* 2 in the code

VARIABLES buckets, elem_cnt, member
vars == <<buckets, elem_cnt, member>>

PowersOf2 == {2^k : k \in 0 .. 5}
bucket_cnt(b) == Len(b)

(* The list with an index from 1; the power of 2 makes the mask a modulus. *)
find_bucket(b, e) == (hash[key[e]] % bucket_cnt(b)) + 1

(* The element equal to e in its bucket, or 0.                             *)
find_elem(b, e) ==
    LET bucket == b[find_bucket(b, e)]
        i == SelectInSeq(bucket, LAMBDA f : key[f] = key[e])
    IN IF i = 0 THEN 0 ELSE bucket[i]

insert_elem(b, e) == [b EXCEPT ![find_bucket(b, e)] = <<e>> \o @]
remove_elem(b, e) == [i \in DOMAIN b |-> SelectSeq(b[i], LAMBDA f : f # e)]
NoElements(n) == [i \in 1 .. n |-> <<>>]

(* Each element, bucket after bucket, goes to the front of its new bucket. *)
MoveAll(b, n) == FoldLeft(insert_elem, NoElements(n), FlattenSeq(b))

(* The tables rehash() may leave: moved to the ideal number of buckets, or *)
(* the same when that needs no change or there is no memory.               *)
rehash(b, cnt) ==
    LET ideal == Max({cnt \div BEST_ELEMS_PER_BUCKET, MinBuckets})
        new_bucket_cnt == Max({n \in PowersOf2 : n <= ideal})
    IN IF new_bucket_cnt = bucket_cnt(b) THEN {b} ELSE {b, MoveAll(b, new_bucket_cnt)}
-----------------------------------------------------------------------------
Init == /\ buckets = NoElements(MinBuckets)
        /\ elem_cnt = 0
        /\ member = {}

Free == Elem \ member       \* elements a caller may put into the table

hash_insert(new) ==
    LET old == find_elem(buckets, new)
        cnt == IF old = 0 THEN elem_cnt + 1 ELSE elem_cnt
    IN /\ elem_cnt' = cnt
       /\ buckets' \in rehash(IF old = 0 THEN insert_elem(buckets, new) ELSE buckets, cnt)
       /\ member' = IF \E e \in member : key[e] = key[new] THEN member ELSE member \cup {new}

hash_replace(new) ==
    LET old == find_elem(buckets, new)
        cnt == IF old = 0 THEN elem_cnt + 1 ELSE elem_cnt
    IN /\ elem_cnt' = cnt
       /\ buckets' \in rehash(insert_elem(remove_elem(buckets, old), new), cnt)
       /\ member' = {e \in member : key[e] # key[new]} \cup {new}

hash_delete(e) ==
    LET found == find_elem(buckets, e) IN
    /\ IF found = 0 THEN UNCHANGED <<buckets, elem_cnt>>
       ELSE /\ elem_cnt' = elem_cnt - 1
            /\ buckets' \in rehash(remove_elem(buckets, found), elem_cnt - 1)
    /\ member' = {f \in member : key[f] # key[e]}

hash_clear ==
    /\ buckets' = NoElements(bucket_cnt(buckets))
    /\ elem_cnt' = 0 /\ member' = {}

Next == \/ \E e \in Free : hash_insert(e) \/ hash_replace(e)
        \/ \E e \in Elem : hash_delete(e)
        \/ hash_clear
Spec == Init /\ [][Next]_vars
-----------------------------------------------------------------------------
hash_find(e) == find_elem(buckets, e)
hash_size == elem_cnt
hash_empty == elem_cnt = 0

(* hash_first(), then hash_next() until it returns a null pointer, with    *)
(* the empty buckets skipped; hash_apply() goes the same way.              *)
RECURSIVE Iterate(_, _)
Iterate(bucket, i) ==
    IF bucket > Len(buckets) THEN <<>>
    ELSE IF i > Len(buckets[bucket]) THEN Iterate(bucket + 1, 1)
    ELSE <<buckets[bucket][i]>> \o Iterate(bucket, i + 1)

(* The table is a set of elements without two equal ones: whatever was     *)
(* inserted, replaced, deleted or rehashed before, every member is found   *)
(* and is met once in an iteration, nothing else is, and the number of     *)
(* buckets stays a power of 2.                                             *)
HashIsSet ==
    LET visited == Iterate(1, 1) IN
    /\ \A e \in Elem : hash_find(e) = IF \E f \in member : key[f] = key[e]
                                      THEN CHOOSE f \in member : key[f] = key[e] ELSE 0
    /\ ToSet(visited) = member /\ Len(visited) = Cardinality(member)
    /\ hash_size = Cardinality(member) /\ hash_empty = (member = {})
    /\ bucket_cnt(buckets) \in PowersOf2
=============================================================================
