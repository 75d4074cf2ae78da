------------------------------ MODULE Strings ------------------------------
(***************************************************************************)
(* The string functions of lib/string.c.  Memory is a sequence of          *)
(* characters, a pointer a position in it; NUL ends a string.  A loop that *)
(* moves a pointer up to a character of a set is SkipTo(): it fails to     *)
(* evaluate where the code would run out of memory.                        *)
(***************************************************************************)
EXTENDS Integers, Sequences, FiniteSets, SequencesExt, FiniteSetsExt

NUL == 0
NULL == -1

SkipTo(m, p, S) == Min({i \in p .. Len(m) : m[i] \in S})
strlen(m, p) == SkipTo(m, p, {NUL}) - p
strnlen(m, p, maxlen) == Min({maxlen, strlen(m, p)})
CharsOf(m, p) == {m[i] : i \in p .. SkipTo(m, p, {NUL})}     \* what strchr() finds in a string
Others(m, S) == {m[i] : i \in DOMAIN m} \ S

memchr(m, p, ch, size) ==
    IF \E i \in p .. p + size - 1 : m[i] = ch THEN SkipTo(m, p, {ch}) ELSE NULL
strchr(m, p, c) == LET i == SkipTo(m, p, {c, NUL}) IN IF m[i] = c THEN i ELSE NULL
strrchr(m, p, c) ==
    LET found == {i \in p .. p + strlen(m, p) - 1 : m[i] = c}
    IN IF found = {} THEN NULL ELSE Max(found)
strcspn(m, p, stop) == SkipTo(m, p, CharsOf(m, stop)) - p
strspn(m, p, skip) == SkipTo(m, p, {NUL} \cup Others(m, CharsOf(m, skip))) - p
strpbrk(m, p, stop) ==
    LET i == SkipTo(m, p, CharsOf(m, stop)) IN IF m[i] = NUL THEN NULL ELSE i

(* memcmp() and strcmp(): the first difference decides.                    *)
RECURSIVE memcmp(_, _, _, _)
memcmp(m, a, b, size) ==
    IF size = 0 THEN 0
    ELSE IF m[a] # m[b] THEN (IF m[a] > m[b] THEN 1 ELSE -1)
    ELSE memcmp(m, a + 1, b + 1, size - 1)
RECURSIVE strcmp(_, _, _)
strcmp(m, a, b) ==
    IF m[a] # NUL /\ m[a] = m[b] THEN strcmp(m, a + 1, b + 1)
    ELSE IF m[a] < m[b] THEN -1 ELSE IF m[a] > m[b] THEN 1 ELSE 0

RECURSIVE StrstrFrom(_, _, _, _)
StrstrFrom(m, i, last, needle) ==
    IF i > last THEN NULL
    ELSE IF memcmp(m, i, needle, strlen(m, needle)) = 0 THEN i ELSE StrstrFrom(m, i + 1, last, needle)
strstr(m, haystack, needle) ==
    StrstrFrom(m, haystack, haystack + strlen(m, haystack) - strlen(m, needle), needle)

(* memcpy() copies upwards; memmove() downwards when dst is not below src. *)
RECURSIVE memcpy(_, _, _, _)
memcpy(m, dst, src, size) ==
    IF size = 0 THEN m ELSE memcpy([m EXCEPT ![dst] = m[src]], dst + 1, src + 1, size - 1)
RECURSIVE CopyDown(_, _, _, _)
CopyDown(m, dst, src, size) ==
    IF size = 0 THEN m
    ELSE CopyDown([m EXCEPT ![dst + size - 1] = m[src + size - 1]], dst, src, size - 1)

memmove(m, dst, src, size) ==
    IF dst < src THEN memcpy(m, dst, src, size) ELSE CopyDown(m, dst, src, size)

(* strlcpy() and strlcat(): memory and result.                             *)
strlcpy(m, dst, src, size) ==
    LET src_len == strlen(m, src)
        dst_len == Min({size - 1, src_len})
    IN [mem |-> IF size = 0 THEN m ELSE [memcpy(m, dst, src, dst_len) EXCEPT ![dst + dst_len] = NUL],
        ret |-> src_len]
strlcat(m, dst, src, size) ==
    LET src_len == strlen(m, src)
        dst_len == strlen(m, dst)
        copy_cnt == Min({size - dst_len - 1, src_len})
    IN [mem |-> IF size = 0 \/ dst_len >= size THEN m
                ELSE [memcpy(m, dst + dst_len, src, copy_cnt) EXCEPT ![dst + dst_len + copy_cnt] = NUL],
        ret |-> src_len + dst_len]

(* strtok_r(), from s, with the set of delimiters: the token, the memory   *)
(* with its end marked, and the position to go on from.                    *)
strtok_r(m, s, delimiters) ==
    LET token == SkipTo(m, s, {NUL} \cup Others(m, delimiters))
        end == SkipTo(m, token, {NUL} \cup delimiters)
    IN IF m[token] = NUL THEN [token |-> NULL, mem |-> m, save_ptr |-> token]
       ELSE IF m[end] = NUL THEN [token |-> token, mem |-> m, save_ptr |-> end]
       ELSE [token |-> token, mem |-> [m EXCEPT ![end] = NUL], save_ptr |-> end + 1]

(* strtok_c(): the number of tokens.                                       *)
RECURSIVE strtok_c(_, _, _)
strtok_c(m, s, delimiters) ==
    LET token == SkipTo(m, s, {NUL} \cup Others(m, delimiters))
    IN IF m[token] = NUL THEN 0
       ELSE 1 + strtok_c(m, SkipTo(m, token, {NUL} \cup delimiters), delimiters)

(* All calls of strtok_r(): the tokens' positions and the memory they      *)
(* leave.                                                                  *)
RECURSIVE Tokenize(_, _, _)
Tokenize(m, s, delimiters) ==
    LET r == strtok_r(m, s, delimiters)
        rest == Tokenize(r.mem, r.save_ptr, delimiters)
    IN IF r.token = NULL THEN [tokens |-> <<>>, mem |-> m]
       ELSE [tokens |-> <<r.token>> \o rest.tokens, mem |-> rest.mem]
-----------------------------------------------------------------------------
(* What the functions promise.                                             *)
StringAt(m, p) == SubSeq(m, p, SkipTo(m, p, {NUL}) - 1)
Prefix(s, n) == SubSeq(s, 1, Min({n, Len(s)}))
MaximalRuns(s, delimiters) ==
    {<<i, j>> \in (1 .. Len(s)) \X (1 .. Len(s)) :
        /\ i <= j /\ \A k \in i .. j : s[k] \notin delimiters
        /\ i = 1 \/ s[i - 1] \in delimiters
        /\ j = Len(s) \/ s[j + 1] \in delimiters}
Sorts(s, t) ==     \* s comes before t in the dictionary
    \E n \in 0 .. Len(t) - 1 :
        /\ Prefix(s, n) = Prefix(t, n) /\ Len(s) >= n
        /\ Len(s) = n \/ s[n + 1] < t[n + 1]

TokensMatch(s, delimiters) ==
    LET m == s \o <<NUL>>
        t == Tokenize(m, 1, delimiters)
        starts == SetToSortSeq({r[1] : r \in MaximalRuns(s, delimiters)}, LAMBDA a, b : a < b)
    IN /\ t.tokens = starts
       /\ strtok_c(m, 1, delimiters) = Len(starts)
       /\ \A r \in MaximalRuns(s, delimiters) : StringAt(t.mem, r[1]) = SubSeq(s, r[1], r[2])

CopiesMatch(s) ==
    \A dst, src \in 1 .. Len(s) : \A n \in 0 .. Len(s) - Max({dst, src}) + 1 :
        memmove(s, dst, src, n) =
            [i \in 1 .. Len(s) |-> IF i \in dst .. dst + n - 1 THEN s[src + (i - dst)] ELSE s[i]]

(* Two strings and room for a third in one memory.                         *)
PairMatches(s, t) ==
    LET a == Len(s) + Len(t) + 3
        m == s \o <<NUL>> \o t \o <<NUL>> \o [i \in 1 .. Len(s) + Len(t) + 2 |-> IF i = 1 THEN NUL ELSE 9]
        p == 1
        q == Len(s) + 2
        At(i) == i + Len(t) <= Len(s) + 1 /\ SubSeq(s, i, i + Len(t) - 1) = t
    IN /\ strcmp(m, p, q) = (IF s = t THEN 0 ELSE IF Sorts(s, t) THEN -1 ELSE 1)
       /\ strstr(m, p, q) = (IF \E i \in 1 .. Len(s) + 1 : At(i)
                             THEN Min({i \in 1 .. Len(s) + 1 : At(i)}) ELSE NULL)
       /\ strcspn(m, p, q) = Max({n \in 0 .. Len(s) : ToSet(Prefix(s, n)) \cap ToSet(t) = {}})
       /\ strspn(m, p, q) = Max({n \in 0 .. Len(s) : ToSet(Prefix(s, n)) \subseteq ToSet(t)})
       /\ strpbrk(m, p, q) = NULL <=> ToSet(s) \cap ToSet(t) = {}
       /\ \A size \in 0 .. Len(s) + Len(t) + 2 :
            LET c == strlcpy(m, a, p, size)
                d == strlcat(c.mem, a, q, size)
            IN size > 0 =>
               /\ StringAt(d.mem, a) = Prefix(s \o t, size - 1)
               /\ c.ret = Len(s) /\ d.ret = Len(Prefix(s, size - 1)) + Len(t)
               /\ \A i \in DOMAIN m \ (a .. a + size - 1) : d.mem[i] = m[i]

(* Tokens are the longest pieces without delimiters, all found, counted    *)
(* and ended; memmove() copies blocks that overlap as if at once; strcmp() *)
(* orders as a dictionary does; strstr() finds the first place; strlcpy()  *)
(* and strlcat() cut off what does not fit and write nothing outside.      *)
StringsMatch(s, T, delimiters) ==
    /\ TokensMatch(s, delimiters)
    /\ CopiesMatch(s)
    /\ \A t \in T : PairMatches(s, t)
    /\ \A c \in ToSet(s) : /\ strchr(s \o <<NUL>>, 1, c) = memchr(s, 1, c, Len(s))
                           /\ strrchr(s \o <<NUL>>, 1, c) >= strchr(s \o <<NUL>>, 1, c)
=============================================================================
