------------------------------ MODULE Bitmap ------------------------------
(***************************************************************************)
(* lib/kernel/bitmap.c.  A bitmap is a function from bit numbers, 0 to     *)
(* bit_cnt - 1, to BOOLEAN.                                                *)
(***************************************************************************)
EXTENDS Integers, FiniteSets

BITMAP_ERROR == -1
bitmap_size(b) == Cardinality(DOMAIN b)

bitmap_set_multiple(b, start, cnt, value) ==
    [i \in DOMAIN b |-> IF i \in start .. start + cnt - 1 THEN value ELSE b[i]]
bitmap_contains(b, start, cnt, value) == \E i \in start .. start + cnt - 1 : b[i] = value
bitmap_all(b, start, cnt) == ~bitmap_contains(b, start, cnt, FALSE)

(* The first index from start on at which cnt bits have the value.         *)
bitmap_scan(b, start, cnt, value) ==
    LET found == {i \in start .. bitmap_size(b) - cnt : ~bitmap_contains(b, i, cnt, ~value)}
    IN IF found = {} THEN BITMAP_ERROR
       ELSE CHOOSE i \in found : \A j \in found : i <= j
=============================================================================
