------------------------------ MODULE Numbers ------------------------------
(***************************************************************************)
(* The 64-bit division of lib/arithmetic.c, with words of W bits in place  *)
(* of 32; sort() and binary_search() of lib/stdlib.c; the calibration and  *)
(* the delays of devices/timer.c.                                          *)
(***************************************************************************)
EXTENDS Integers, Sequences, FiniteSets, SequencesExt, FiniteSetsExt

(* arithmetic.c *)
Trap == -1                      \* the divide error of the DIVL instruction
divl(n, d, W) == LET q == n \div d IN IF q < 2^W THEN q ELSE Trap

(* The tests of nlz() halve the width: bits is W / 2, then W / 4, ...      *)
RECURSIVE NlzFrom(_, _, _)
NlzFrom(x, bits, W) ==
    IF bits = 0 THEN 0
    ELSE IF x <= 2^(W - bits) - 1 THEN bits + NlzFrom((x * 2^bits) % 2^W, bits \div 2, W)
    ELSE NlzFrom(x, bits \div 2, W)
nlz(x, W) == NlzFrom(x, W \div 2, W)

(* Mutant: the estimate is not corrected.                                  *)
udiv64_estimate(n, d, W) ==
    IF d < 2^W THEN divl(2^W * ((n \div 2^W) % d) + (n % 2^W), d, W) + 2^W * ((n \div 2^W) \div d)
    ELSE IF n < d THEN 0
    ELSE LET s == nlz(d \div 2^W, W)
         IN divl(n \div 2, (d * 2^s) \div 2^W, W) \div 2^(W - 1 - s)

udiv64(n, d, W) ==
    LET n1 == n \div 2^W
        s == nlz(d \div 2^W, W)
        q == divl(n \div 2, (d * 2^s) \div 2^W, W) \div 2^(W - 1 - s)
    IN IF d < 2^W THEN divl(2^W * (n1 % d) + (n % 2^W), d, W) + 2^W * (n1 \div d)
       ELSE IF n < d THEN 0
       ELSE IF (n - (q - 1) * d) % 2^(2 * W) < d THEN q - 1 ELSE q

(* The remainder is returned in one word.                                  *)
umod64(n, d, W) == (n - d * udiv64(n, d, W)) % 2^W

(* A value of two words as a signed one.                                   *)
Signed(v, W) == IF v % 2^(2 * W) >= 2^(2 * W - 1) THEN (v % 2^(2 * W)) - 2^(2 * W) ELSE v % 2^(2 * W)
Abs(n) == IF n < 0 THEN -n ELSE n
sdiv64(n, d, W) ==
    LET q_abs == udiv64(Abs(n), Abs(d), W)
    IN IF (n < 0) = (d < 0) THEN Signed(q_abs, W) ELSE Signed(-q_abs, W)

(* The quotient is exact, for every dividend and every divisor but 0, and  *)
(* no division traps; the remainder is exact up to one word.               *)
DivisionExact(n, W) ==
    /\ \A d \in 1 .. 2^(2 * W) - 1 : /\ udiv64(n, d, W) = n \div d
                                     /\ umod64(n, d, W) = (n % d) % 2^W
    /\ \A d \in 1 .. 2^(2 * W - 1) : \A s, t \in {1, -1} :
          LET m == s * (n % 2^(2 * W - 1))
          IN Signed(t * d, W) = t * d =>
             sdiv64(m, t * d, W) = Signed(s * t * (Abs(m) \div d), W)
-----------------------------------------------------------------------------
(* stdlib.c: arrays start at index 1, as in do_swap() and do_compare().    *)
do_swap(array, a, b) == [array EXCEPT ![a] = array[b], ![b] = array[a]]

RECURSIVE heapify(_, _, _)
heapify(array, i, cnt) ==
    LET largest(j, k) == IF j <= cnt /\ array[j] > array[k] THEN j ELSE k
        max == largest(2 * i + 1, largest(2 * i, i))
    IN IF max = i THEN array ELSE heapify(do_swap(array, i, max), max, cnt)

RECURSIVE BuildHeap(_, _)
BuildHeap(array, i) == IF i = 0 THEN array ELSE BuildHeap(heapify(array, i, Len(array)), i - 1)
RECURSIVE SortHeap(_, _)
SortHeap(array, i) == IF i <= 1 THEN array ELSE SortHeap(heapify(do_swap(array, 1, i), 1, i - 1), i - 1)
sort(array) == SortHeap(BuildHeap(array, Len(array) \div 2), Len(array))

(* first and last as indices, last exclusive; 0 is the null pointer.       *)
RECURSIVE binary_search(_, _, _, _)
binary_search(key, array, first, last) ==
    LET middle == first + (last - first) \div 2
    IN IF first >= last THEN 0
       ELSE IF key < array[middle] THEN binary_search(key, array, first, middle)
       ELSE IF key > array[middle] THEN binary_search(key, array, middle + 1, last)
       ELSE middle

(* sort() leaves the elements, in order; in the result binary_search()     *)
(* finds every element that is there and no other.                         *)
SortsAndFinds(array, Keys) ==
    LET s == sort(array)
        Count(a, k) == Cardinality({i \in DOMAIN a : a[i] = k})
    IN /\ \A i \in 1 .. Len(s) - 1 : s[i] <= s[i + 1]
       /\ \A k \in Keys :
             LET i == binary_search(k, s, 1, Len(s) + 1)
             IN /\ Count(s, k) = Count(array, k)
                /\ IF Count(s, k) = 0 THEN i = 0 ELSE s[i] = k
-----------------------------------------------------------------------------
(* timer.c: too_many_loops() on a machine that runs speed loops per tick.  *)
too_many_loops(loops, speed) == loops > speed

RECURSIVE DoubleLoops(_, _)
DoubleLoops(loops, speed) ==
    IF too_many_loops(loops * 2, speed) THEN loops ELSE DoubleLoops(loops * 2, speed)

(* test_bit goes from high_bit / 2 down to, not including, high_bit / 1024; *)
(* with fewer bits below high_bit it ends with the last of them.           *)
RECURSIVE RefineLoops(_, _, _, _)
RefineLoops(loops, test_bit, end, speed) ==
    IF test_bit = end THEN loops
    ELSE RefineLoops(IF too_many_loops(loops + test_bit, speed) THEN loops ELSE loops + test_bit,
                     test_bit \div 2, end, speed)
timer_calibrate(speed, first) ==
    LET high_bit == DoubleLoops(first, speed)
    IN RefineLoops(high_bit, high_bit \div 2, high_bit \div 1024, speed)

(* real_time_sleep(): num / denom seconds are slept as ticks, or waited in *)
(* loops when they are less than one.                                      *)
real_time_delay(num, denom, freq, loops_per_tick) ==
    ((((loops_per_tick * num) \div 1000) * freq) \div (denom \div 1000))
real_time_sleep(num, denom, freq, loops_per_tick) ==
    LET ticks == (num * freq) \div denom
    IN IF ticks > 0 THEN [ticks |-> ticks, loops |-> 0]
       ELSE [ticks |-> 0, loops |-> real_time_delay(num, denom, freq, loops_per_tick)]

(* Calibration finds the speed to within the bits it tests, and not above  *)
(* it; a delay that is less than a tick takes less than a tick's loops.    *)
DelaysMatch(speed) ==
    LET loops == timer_calibrate(speed, 1024) IN
    /\ loops <= speed /\ speed - loops < loops \div 256
    /\ \A ms \in 0 .. 20 :
          LET r == real_time_sleep(ms, 1000, 100, loops) IN
          /\ r.ticks = ms \div 10
          /\ ms < 10 => r.loops <= loops /\ r.loops >= ((loops * ms) \div 10) - 100
=============================================================================
