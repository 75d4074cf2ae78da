--------------------------- MODULE FileSysProofs ---------------------------
(***************************************************************************)
(* Proofs about module FileSys.  First what reading and writing do to the  *)
(* bytes of a file; then that no sector has two owners and none leaks      *)
(* unnoticed, whatever is created, removed, opened, closed or crashed in   *)
(* whichever order, and inodes count their openers.                        *)
(***************************************************************************)
EXTENDS FileSys, TLAPS, FiniteSetTheorems, WellFoundedInduction

(* A set of naturals has a least element.                                  *)
LEMMA Least ==
    ASSUME NEW S \in SUBSET Nat, S # {}
    PROVE  \E x \in S : \A y \in S : x <= y
<1> DEFINE R == OpToRel(<, Nat)
<1>1. IsWellFoundedOn(R, Nat)
  BY NatLessThanWellFounded, Zenon
<1>2. PICK x \in S : \A y \in S : ~(<<y, x>> \in R)
  <2> HIDE DEF R
  <2> QED
    BY <1>1, WFMin, Zenon
<1>3. \A y \in S : x <= y
  <2> SUFFICES ASSUME NEW y \in S, y < x PROVE FALSE
    OBVIOUS
  <2>1. <<y, x>> \in {ss \in Nat \X Nat : ss[1] < ss[2]}
    OBVIOUS
  <2>2. R = {ss \in Nat \X Nat : ss[1] < ss[2]}
    BY Zenon DEF OpToRel
  <2> QED
    BY <1>2, <2>1, <2>2, Zenon
<1> QED
  BY <1>3, Zenon

(* The least element of a set of naturals is one of its elements.          *)
LEMMA MinIn ==
    ASSUME NEW S \in SUBSET Nat, S # {}
    PROVE  Min(S) \in S
<1>1. PICK x \in S : \A y \in S : x <= y
  BY Least, Zenon
<1> QED
  BY <1>1, Zenon DEF Min

(* f and g agree on d whenever they agree on all that comes after d.       *)
Inherited(n, f, g) ==
    \A d \in 0 .. n : (\A e \in d + 1 .. n : f[e] = g[e]) => f[d] = g[d]

(* Two functions on 0 .. n that agree on d whenever they agree on all that *)
(* comes after d are the same: what a loop that goes up to n computes is   *)
(* determined by its turns.                                                *)
LEMMA SameLoop ==
    ASSUME NEW n \in Nat, NEW f, NEW g, Inherited(n, f, g)
    PROVE  \A d \in 0 .. n : f[d] = g[d]
<1> DEFINE T == {k \in 0 .. n : f[n - k] # g[n - k]}
<1>1. CASE T = {}
  <2> SUFFICES ASSUME NEW d \in 0 .. n PROVE f[d] = g[d]
    BY Zenon
  <2>1. n - d \in 0 .. n /\ n - (n - d) = d
    OBVIOUS
  <2>2. n - d \notin T
    BY <1>1, Zenon
  <2> QED
    BY <2>1, <2>2, Zenon
<1>2. CASE T # {}
  <2>1. T \in SUBSET Nat
    OBVIOUS
  <2> HIDE DEF T
  <2>2. PICK x \in T : \A y \in T : x <= y
    BY <1>2, <2>1, Least, Zenon
  <2>3. x \in 0 .. n /\ f[n - x] # g[n - x] /\ n - x \in 0 .. n
    BY <2>2 DEF T
  <2>4. ASSUME NEW e \in (n - x) + 1 .. n PROVE f[e] = g[e]
    <3>1. n - e \in 0 .. n /\ ~(x <= n - e) /\ n - (n - e) = e
      BY <2>3
    <3>2. n - e \notin T
      BY <2>2, <3>1, Zenon
    <3> QED
      BY <3>1, <3>2, Zenon DEF T
  <2> QED
    BY <2>3, <2>4, Zenon DEF Inherited
<1> QED
  BY <1>1, <1>2, Zenon

(* The k elements of b after the first m.                                  *)
IsPortion(sub, b, m, k) ==
    sub \in Seq(Int) /\ Len(sub) = k /\ \A i \in 1 .. k : sub[i] = b[m + i]

(* SubSeq() takes them.                                                    *)
LEMMA PortionTaken ==
    ASSUME NEW b \in Seq(Int), NEW m \in Nat, NEW k \in Nat, m + k <= Len(b)
    PROVE  IsPortion(SubSeq(b, m + 1, m + k), b, m, k)
<1> DEFINE s == SubSeq(b, m + 1, m + k)
<1>1. \A i \in m + 1 .. m + k : b[i] \in Int
  BY SMTT(30)
<1>2. Len(s) = k
  BY SMTT(30)
<1>3. s \in Seq(Int)
  BY <1>1, SMTT(30)
<1>4. ASSUME NEW i \in 1 .. k PROVE s[i] = b[m + i]
  BY SMTT(30)
<1> HIDE DEF s
<1> QED
  BY <1>2, <1>3, <1>4, Zenon DEF IsPortion, s

(* Sequences with the same elements are the same.                          *)
LEMMA SameBytes ==
    ASSUME NEW x \in Seq(Int), NEW y \in Seq(Int), Len(x) = Len(y),
           \A i \in 1 .. Len(x) : x[i] = y[i]
    PROVE  x = y
<1>1. x \in [1 .. Len(x) -> Int] /\ y \in [1 .. Len(y) -> Int]
  BY SMTT(30)
<1>2. x = [i \in 1 .. Len(x) |-> x[i]] /\ y = [i \in 1 .. Len(y) |-> y[i]]
  BY <1>1, Zenon
<1> QED
  BY <1>2, Zenon

(* x and then y.                                                           *)
IsJoin(z, x, y) ==
    /\ z \in Seq(Int) /\ Len(z) = Len(x) + Len(y)
    /\ \A i \in 1 .. Len(x) + Len(y) : z[i] = IF i <= Len(x) THEN x[i] ELSE y[i - Len(x)]

(* Concatenation joins sequences.                                          *)
LEMMA Joined ==
    ASSUME NEW x \in Seq(Int), NEW y \in Seq(Int)
    PROVE  IsJoin(x \o y, x, y)
<1> DEFINE z == x \o y
<1>1. z \in Seq(Int)
  BY SMTT(30)
<1>2. Len(z) = Len(x) + Len(y)
  BY SMTT(30)
<1>3. ASSUME NEW i \in 1 .. Len(x) + Len(y)
      PROVE  z[i] = IF i <= Len(x) THEN x[i] ELSE y[i - Len(x)]
  BY SMTT(30)
<1> HIDE DEF z
<1> QED
  BY <1>1, <1>2, <1>3, Zenon DEF IsJoin, z
-----------------------------------------------------------------------------
(* Quotient and remainder of a position in a file.                         *)
LEMMA DivMod ==
    ASSUME NEW x \in Nat
    PROVE  /\ x \div BLOCK_SECTOR_SIZE \in Nat /\ x % BLOCK_SECTOR_SIZE \in 0 .. BLOCK_SECTOR_SIZE - 1
           /\ x = BLOCK_SECTOR_SIZE * (x \div BLOCK_SECTOR_SIZE) + (x % BLOCK_SECTOR_SIZE)
<1>1. BLOCK_SECTOR_SIZE \in Nat /\ BLOCK_SECTOR_SIZE > 0
  BY FileSysAssumption
<1> QED
  BY <1>1

(* They are the only ones.                                                 *)
LEMMA DivUnique ==
    ASSUME NEW x \in Nat, NEW a \in Int, NEW b \in 0 .. BLOCK_SECTOR_SIZE - 1,
           x = BLOCK_SECTOR_SIZE * a + b
    PROVE  x \div BLOCK_SECTOR_SIZE = a /\ x % BLOCK_SECTOR_SIZE = b
<1> DEFINE B == BLOCK_SECTOR_SIZE
<1>0. B \in Nat /\ B > 0
  BY FileSysAssumption
<1> HIDE DEF B
<1>1. PICK y \in Nat, r \in 0 .. B - 1 : y = x \div B /\ r = x % B /\ x = B * y + r
  BY DivMod, Zenon DEF B
<1>2. b \in 0 .. B - 1 /\ x = B * a + b
  BY Zenon DEF B
<1> DEFINE P == B * a
           Q == B * y
<1>3. P \in Int /\ Q \in Int /\ x = Q + r /\ x = P + b
  <2>1. P \in Int /\ Q \in Int
    BY <1>0
  <2> QED
    BY <1>1, <1>2, <2>1, Zenon
<1>4. CASE a > y
  <2> DEFINE M == B * (a - y - 1)
  <2>1. a - y - 1 \in Nat
    BY <1>4
  <2>2. M \in Nat
    BY <1>0, <2>1
  <2>3. P = Q + M + B
    BY <1>0
  <2> HIDE DEF P, Q, M
  <2> QED
    BY <1>0, <1>2, <1>3, <2>2, <2>3
<1>5. CASE a < y
  <2> DEFINE M == B * (y - a - 1)
  <2>1. y - a - 1 \in Nat
    BY <1>5
  <2>2. M \in Nat
    BY <1>0, <2>1
  <2>3. Q = P + M + B
    BY <1>0
  <2> HIDE DEF P, Q, M
  <2> QED
    BY <1>0, <1>2, <1>3, <2>2, <2>3
<1>6. CASE a = y
  <2>1. P = Q
    BY <1>6, Zenon
  <2> HIDE DEF P, Q
  <2>2. r = b
    BY <1>0, <1>2, <1>3, <2>1
  <2> QED
    BY <1>1, <1>6, <2>2, Zenon DEF B
<1> QED
  BY <1>4, <1>5, <1>6

(* Positions in the same sector.                                           *)
LEMMA SameSector ==
    ASSUME NEW x \in Nat, NEW i \in Nat, i < BLOCK_SECTOR_SIZE - (x % BLOCK_SECTOR_SIZE)
    PROVE  /\ (x + i) \div BLOCK_SECTOR_SIZE = x \div BLOCK_SECTOR_SIZE
           /\ (x + i) % BLOCK_SECTOR_SIZE = (x % BLOCK_SECTOR_SIZE) + i
<1> DEFINE B == BLOCK_SECTOR_SIZE
           a == x \div B
           b == x % B
<1>0. B \in Nat /\ B > 0
  BY FileSysAssumption
<1>1. a \in Nat /\ b \in 0 .. B - 1 /\ x = B * a + b /\ i < B - b
  BY DivMod, Zenon
<1> HIDE DEF B, a, b
<1>2. B * a \in Nat
  BY <1>0, <1>1
<1>3. x + i \in Nat /\ b + i \in 0 .. B - 1 /\ x + i = B * a + (b + i) /\ a \in Int
  BY <1>0, <1>1, <1>2
<1>4. (x + i) \div B = a /\ (x + i) % B = b + i
  BY <1>3, DivUnique, Zenon DEF B
<1> QED
  BY <1>4, Zenon DEF a, b, B

(* The bytes of a file lie in its extent.                                  *)
LEMMA InExtent ==
    ASSUME NEW n \in Nat
    PROVE  /\ bytes_to_sectors(n) \in Nat
           /\ \A x \in 0 .. n - 1 : x \div BLOCK_SECTOR_SIZE \in 0 .. bytes_to_sectors(n) - 1
<1> DEFINE B == BLOCK_SECTOR_SIZE
           m == n + B - 1
           c == m \div B
<1>0. B \in Nat /\ B > 0
  BY FileSysAssumption
<1>1. m \in Nat
  BY <1>0
<1>2. c \in Nat /\ m % B \in 0 .. B - 1 /\ m = B * c + (m % B)
  BY <1>1, DivMod, Zenon
<1>3. bytes_to_sectors(n) = c
  BY Zenon DEF bytes_to_sectors
<1>4. ASSUME NEW x \in 0 .. n - 1 PROVE x \div B \in 0 .. c - 1
  <2>0. x \in Nat
    OBVIOUS
  <2>1. PICK y \in Nat, r \in 0 .. B - 1 : y = x \div B /\ x = B * y + r
    BY <2>0, DivMod, Zenon
  <2>2. PICK r2 \in 0 .. B - 1 : n + B - 1 = B * c + r2
    BY <1>2, Zenon
  <2> HIDE DEF B, c, m
  <2>3. B * y < B * c
    <3>1. B * y \in Nat /\ B * c \in Nat
      BY <1>0, <1>2
    <3> QED
      BY <1>0, <2>1, <2>2, <3>1
  <2>4. y < c
    <3> SUFFICES ASSUME y >= c PROVE FALSE
      BY <1>2
    <3>1. y - c \in Nat
      BY <1>2
    <3>2. B * y = B * c + B * (y - c)
      BY <1>0, <1>2
    <3>3. B * (y - c) \in Nat /\ B * y \in Nat /\ B * c \in Nat
      BY <1>0, <1>2, <3>1
    <3> QED
      BY <2>3, <3>2, <3>3
  <2> QED
    BY <1>2, <2>1, <2>4
<1> QED
  BY <1>2, <1>3, <1>4, Zenon
-----------------------------------------------------------------------------
(* The bytes of a sector; an inode whose extent is on the disk; the bytes  *)
(* of its file; where in the file a byte of a sector is.                   *)
Block == [1 .. BLOCK_SECTOR_SIZE -> Int]
Sound(inode) ==
    /\ inode.start \in Nat /\ inode.length \in Nat
    /\ inode.start + bytes_to_sectors(inode.length) <= SectorCount
ByteAt(d, inode, pos) ==
    d[inode.start + (pos \div BLOCK_SECTOR_SIZE)][(pos % BLOCK_SECTOR_SIZE) + 1]
Bytes(d, inode) == [k \in 1 .. inode.length |-> ByteAt(d, inode, k - 1)]
PosOf(inode, z, i) == BLOCK_SECTOR_SIZE * (z - inode.start) + (i - 1)

(* The disk when a write has still to do the bytes before done.            *)
WrittenFrom(d, inode, bytes, offset, done) ==
    [z \in Sector |-> [i \in 1 .. BLOCK_SECTOR_SIZE |->
        IF PosOf(inode, z, i) \in offset + done .. Smaller(offset + Len(bytes), inode.length) - 1
        THEN bytes[PosOf(inode, z, i) - offset + 1] ELSE d[z][i]]]

(* The loop of inode_write_at() as an equation for w.                      *)
WriteLoop(w, s, bytes, offset) ==
    [done \in 0 .. Len(bytes) |->
        LET chunk == chunk_size(s, Len(bytes) - done, offset + done)
            ofs == (offset + done) % BLOCK_SECTOR_SIZE
        IN IF chunk <= 0 THEN data
           ELSE [w[done + chunk] EXCEPT ![byte_to_sector(s, offset + done)] =
                    WriteChunk(@, ofs, SubSeq(bytes, done + 1, done + chunk))]]

(* The place of a byte of a sector.                                        *)
LEMMA PosPlace ==
    ASSUME NEW inode, inode.start \in Nat, NEW z \in Int, NEW i \in 1 .. BLOCK_SECTOR_SIZE
    PROVE  /\ PosOf(inode, z, i) \in Int
           /\ PosOf(inode, z, i) >= 0 =>
                 /\ PosOf(inode, z, i) \div BLOCK_SECTOR_SIZE = z - inode.start
                 /\ PosOf(inode, z, i) % BLOCK_SECTOR_SIZE = i - 1
<1> DEFINE B == BLOCK_SECTOR_SIZE
           st == inode.start
           p == B * (z - st) + (i - 1)
<1>0. B \in Nat /\ B > 0 /\ st \in Nat
  BY FileSysAssumption
<1>1. PosOf(inode, z, i) = p
  BY Zenon DEF PosOf
<1> HIDE DEF st
<1>2. z - st \in Int /\ i - 1 \in 0 .. B - 1
  BY <1>0
<1>3. p \in Int
  BY <1>0, <1>2
<1>4. p = B * (z - st) + (i - 1)
  OBVIOUS
<1> HIDE DEF p, B
<1>5. p >= 0 => p \in Nat
  BY <1>3
<1>6. p >= 0 => p \div B = z - st /\ p % B = i - 1
  BY <1>2, <1>4, <1>5, DivUnique, Zenon DEF B
<1> QED
  BY <1>1, <1>3, <1>6, Zenon DEF B, st

(* The chunk of a turn.                                                    *)
LEMMA ChunkSize ==
    ASSUME NEW s, NEW size \in Nat, NEW pos \in Nat, inode_disk[s].length \in Nat
    PROVE  /\ chunk_size(s, size, pos) \in Int
           /\ chunk_size(s, size, pos) <= size
           /\ chunk_size(s, size, pos) <= inode_disk[s].length - pos
           /\ chunk_size(s, size, pos) <= BLOCK_SECTOR_SIZE - (pos % BLOCK_SECTOR_SIZE)
           /\ chunk_size(s, size, pos) <= 0 => size = 0 \/ inode_disk[s].length <= pos
<1> DEFINE r == pos % BLOCK_SECTOR_SIZE
           len == inode_disk[s].length
           B == BLOCK_SECTOR_SIZE
<1>1. r \in 0 .. B - 1 /\ B \in Nat /\ len \in Nat
  BY DivMod, FileSysAssumption, Zenon
<1>2. chunk_size(s, size, pos) = Smaller(size, Smaller(len - pos, B - r))
  BY Zenon DEF chunk_size
<1> HIDE DEF r, len, B
<1> DEFINE c == Smaller(size, Smaller(len - pos, B - r))
<1>3. /\ c \in Int /\ c <= size /\ c <= len - pos /\ c <= B - r
      /\ c <= 0 => size = 0 \/ len <= pos
  BY <1>1 DEF Smaller
<1> QED
  BY <1>2, <1>3, Zenon DEF r, len, B

(* A byte of the sector that a turn writes to, and of any other.           *)
LEMMA TurnPlace ==
    ASSUME NEW inode, inode.start \in Nat, NEW q \in Nat, NEW c \in Nat,
           c <= BLOCK_SECTOR_SIZE - (q % BLOCK_SECTOR_SIZE),
           NEW z \in Int, NEW i \in 1 .. BLOCK_SECTOR_SIZE
    PROVE  PosOf(inode, z, i) \in q .. q + c - 1
              <=> /\ z = inode.start + (q \div BLOCK_SECTOR_SIZE)
                  /\ i \in (q % BLOCK_SECTOR_SIZE) + 1 .. (q % BLOCK_SECTOR_SIZE) + c
<1> DEFINE B == BLOCK_SECTOR_SIZE
           p == PosOf(inode, z, i)
           r == q % BLOCK_SECTOR_SIZE
           a == q \div BLOCK_SECTOR_SIZE
           st == inode.start
<1>0. B \in Nat /\ B > 0
  BY FileSysAssumption
<1>1. a \in Nat /\ r \in 0 .. B - 1 /\ q = B * a + r
  BY DivMod, Zenon
<1>2. p \in Int /\ (p >= 0 => p \div B = z - st /\ p % B = i - 1)
  BY PosPlace, Zenon
<1>3. p = B * (z - st) + (i - 1)
  BY Zenon DEF PosOf
<1>4. ASSUME p \in q .. q + c - 1
      PROVE  z = st + a /\ i \in r + 1 .. r + c
  <2> DEFINE j == p - q
  <2>1. j \in Nat /\ j < B - r /\ p = q + j /\ p >= 0 /\ j < c
    <3> HIDE DEF p, r, B
    <3> QED
      BY <1>0, <1>1, <1>2, <1>4 DEF B, r
  <2> HIDE DEF j
  <2>2. (q + j) \div B = a /\ (q + j) % B = r + j
    BY <2>1, SameSector, Zenon
  <2>3. z - st = a /\ i - 1 = r + j
    BY <1>2, <2>1, <2>2, Zenon
  <2> HIDE DEF a, r, st, B
  <2> QED
    BY <1>1, <2>1, <2>3 DEF st
<1>5. ASSUME z = st + a, i \in r + 1 .. r + c
      PROVE  p \in q .. q + c - 1
  <2> HIDE DEF a, r, st, B, p
  <2>0. st \in Nat
    BY DEF st
  <2>1. z - st = a
    BY <1>1, <1>5, <2>0
  <2>2. p = B * a + (i - 1)
    BY <1>3, <2>1, Zenon
  <2>3. B * a \in Nat
    BY <1>0, <1>1
  <2> QED
    BY <1>0, <1>1, <1>5, <2>2, <2>3
<1> QED
  BY <1>4, <1>5, Zenon

(* A byte of the disk after the bytes from q on have been written, and     *)
(* what the turn for the chunk of c bytes at q contributes to it.          *)
Val(d, inode, bytes, offset, q, z, i) ==
    IF PosOf(inode, z, i) \in q .. Smaller(offset + Len(bytes), inode.length) - 1
    THEN bytes[PosOf(inode, z, i) - offset + 1] ELSE d[z][i]

TurnGives(d, inode, bytes, offset, done, c, z, i) ==
    LET r == (offset + done) % BLOCK_SECTOR_SIZE
    IN Val(d, inode, bytes, offset, offset + done, z, i)
       = IF /\ z = inode.start + ((offset + done) \div BLOCK_SECTOR_SIZE)
            /\ i \in r + 1 .. r + c
         THEN bytes[done + (i - r)]
         ELSE Val(d, inode, bytes, offset, offset + done + c, z, i)

(* The turn for the chunk at offset + done gives the bytes of that chunk   *)
(* their value; the others have theirs from the rest of the loop.          *)
LEMMA TurnValue ==
    ASSUME NEW inode, inode.start \in Nat, inode.length \in Nat, NEW bytes \in Seq(Int),
           NEW offset \in Nat, NEW done \in 0 .. Len(bytes), NEW c \in Nat,
           c <= BLOCK_SECTOR_SIZE - ((offset + done) % BLOCK_SECTOR_SIZE),
           c <= Len(bytes) - done, c <= inode.length - (offset + done),
           NEW d, NEW z \in Int, NEW i \in 1 .. BLOCK_SECTOR_SIZE
    PROVE  TurnGives(d, inode, bytes, offset, done, c, z, i)
<1> DEFINE B == BLOCK_SECTOR_SIZE
           q == offset + done
           r == q % B
           a == q \div B
           p == PosOf(inode, z, i)
           st == inode.start
           n == Len(bytes)
           len == inode.length
           E == Smaller(offset + n, len)
<1>0. B \in Nat /\ B > 0 /\ n \in Nat /\ q \in Nat
  BY FileSysAssumption
<1>1. p \in q .. q + c - 1 <=> z = st + a /\ i \in r + 1 .. r + c
  BY <1>0, TurnPlace, Zenon
<1>2. p \in Int /\ p = B * (z - st) + (i - 1)
  BY PosPlace, Zenon DEF PosOf
<1>3. a \in Nat /\ r \in 0 .. B - 1 /\ q = B * a + r
  BY <1>0, DivMod, Zenon
<1>4. q + c <= E /\ E \in Int
  <2>0. len \in Nat /\ c <= n - done /\ c <= len - q
    BY Zenon
  <2> HIDE DEF n, len
  <2> QED
    BY <1>0, <2>0 DEF Smaller
<1>5. CASE p \in q .. q + c - 1
  <2>1. z = st + a /\ i \in r + 1 .. r + c
    BY <1>1, <1>5, Zenon
  <2> HIDE DEF E, p, a, r, st, B
  <2>2. p \in q .. E - 1
    BY <1>0, <1>2, <1>4, <1>5
  <2>3. z - st = a
    BY <1>3, <2>1 DEF st
  <2>4. p = B * a + (i - 1) /\ B * a \in Nat
    BY <1>0, <1>2, <1>3, <2>3
  <2>5. p - offset + 1 = done + (i - r)
    BY <1>0, <1>3, <2>1, <2>4
  <2>6. Val(d, inode, bytes, offset, q, z, i) = bytes[p - offset + 1]
    BY <2>2, Zenon DEF Val, E, p
  <2> QED
    BY <2>1, <2>5, <2>6, Zenon DEF TurnGives, a, r, st, B
<1>6. CASE p \notin q .. q + c - 1
  <2>1. ~(z = st + a /\ i \in r + 1 .. r + c)
    BY <1>1, <1>6, Zenon
  <2> HIDE DEF E, p, a, r, st, B
  <2>2. p \in q .. E - 1 <=> p \in q + c .. E - 1
    BY <1>0, <1>2, <1>4, <1>6
  <2>3. Val(d, inode, bytes, offset, q, z, i) = Val(d, inode, bytes, offset, q + c, z, i)
    BY <2>2, Zenon DEF Val, E, p
  <2> QED
    BY <2>1, <2>3, Zenon DEF TurnGives, a, r, st, B
<1> QED
  BY <1>5, <1>6, Zenon

(* What a turn of the loop contributes to the disk.                        *)
WriteTurnOK(s, bytes, offset, done, c) ==
    /\ c <= 0 => WrittenFrom(data, inode_disk[s], bytes, offset, done) = data
    /\ ~(c <= 0) =>
         /\ done + c \in done + 1 .. Len(bytes)
         /\ WrittenFrom(data, inode_disk[s], bytes, offset, done)
            = [WrittenFrom(data, inode_disk[s], bytes, offset, done + c)
                  EXCEPT ![byte_to_sector(s, offset + done)] =
                     WriteChunk(@, (offset + done) % BLOCK_SECTOR_SIZE,
                                SubSeq(bytes, done + 1, done + c))]

(* A turn of the loop adds its chunk to what the later turns write.        *)
LEMMA WriteTurn ==
    ASSUME NEW s, Sound(inode_disk[s]), data \in [Sector -> Block], NEW bytes \in Seq(Int),
           NEW offset \in Nat, NEW done \in 0 .. Len(bytes),
           NEW c, c = chunk_size(s, Len(bytes) - done, offset + done)
    PROVE  WriteTurnOK(s, bytes, offset, done, c)
<1> DEFINE B == BLOCK_SECTOR_SIZE
           I == inode_disk[s]
           n == Len(bytes)
           q == offset + done
           r == q % B
           a == q \div B
           E == Smaller(offset + n, I.length)
           V(d, z, i) == Val(data, I, bytes, offset, offset + d, z, i)
           W(d) == WrittenFrom(data, I, bytes, offset, d)
<1>0. /\ B \in Nat /\ B > 0 /\ n \in Nat /\ q \in Nat /\ n - done \in Nat
      /\ SectorCount \in Nat
  BY FileSysAssumption
<1>1. /\ I.start \in Nat /\ I.length \in Nat
      /\ I.start + bytes_to_sectors(I.length) <= SectorCount
  BY Zenon DEF Sound
<1>2. /\ c \in Int /\ c <= n - done /\ c <= I.length - q /\ c <= B - r
      /\ c <= 0 => n - done = 0 \/ I.length <= q
  BY <1>0, <1>1, ChunkSize, Zenon
<1>3. \A d : W(d) = [z \in Sector |-> [i \in 1 .. B |-> V(d, z, i)]]
  BY Zenon DEF WrittenFrom, Val
<1>4. \A z \in Sector : \A i \in 1 .. B : z \in Int /\ PosOf(I, z, i) \in Int
  <2>1. \A z \in Sector : z \in Int
    BY <1>0 DEF Sector
  <2> QED
    BY <1>1, <2>1, PosPlace, Zenon
<1>5. CASE c <= 0
  <2>1. E <= q /\ E \in Int
    <3> DEFINE l == I.length
    <3>0. l \in Nat /\ (n - done = 0 \/ l <= q)
      BY <1>1, <1>2, <1>5, Zenon
    <3> HIDE DEF n, l
    <3>1. Smaller(offset + n, l) <= q /\ Smaller(offset + n, l) \in Int
      BY <1>0, <3>0 DEF Smaller
    <3> QED
      BY <3>1, Zenon DEF l
  <2>2. \A p \in Int : p \notin q .. E - 1
    <3> HIDE DEF E, q
    <3> QED
      BY <1>0, <2>1
  <2>3. \A z \in Sector : \A i \in 1 .. B : V(done, z, i) = data[z][i]
    BY <1>4, <2>2, Zenon DEF Val
  <2>4. W(done) = [z \in Sector |-> [i \in 1 .. B |-> data[z][i]]]
    <3>1. W(done) = [z \in Sector |-> [i \in 1 .. B |-> V(done, z, i)]]
      BY <1>3, Zenon
    <3>2. \A z \in Sector : [i \in 1 .. B |-> V(done, z, i)] = [i \in 1 .. B |-> data[z][i]]
      BY <2>3, Zenon
    <3> HIDE DEF V, W
    <3> QED
      BY <3>1, <3>2, Zenon
  <2>5. \A z \in Sector : data[z] = [i \in 1 .. B |-> data[z][i]]
    BY Zenon DEF Block
  <2>6. W(done) = [z \in Sector |-> data[z]]
    BY <2>4, <2>5, Zenon
  <2>7. W(done) = data
    BY <2>6, Zenon
  <2> QED
    BY <1>2, <1>5, <2>7, Zenon DEF WriteTurnOK
<1>6. CASE ~(c <= 0)
  <2>1. c \in Nat /\ done + c \in done + 1 .. n /\ q < I.length
    <3> DEFINE l == I.length
    <3>0. l \in Nat /\ c \in Int /\ c <= n - done /\ c <= l - q
      BY <1>1, <1>2, Zenon
    <3> HIDE DEF l, n, q
    <3>1. c \in Nat /\ done + c \in done + 1 .. n /\ q < l
      BY <1>0, <1>6, <3>0
    <3> QED
      BY <3>1, Zenon DEF l
  <2> DEFINE zz == I.start + a
             sub == SubSeq(bytes, done + 1, done + c)
             rhs == [W(done + c) EXCEPT ![zz] = WriteChunk(@, r, sub)]
  <2>2. zz \in Sector
    <3>1. q \in 0 .. I.length - 1
      <4> DEFINE l == I.length
      <4>1. q \in Nat /\ l \in Nat /\ q < l
        BY <1>0, <1>1, <2>1, Zenon
      <4> HIDE DEF l, q
      <4>2. q \in 0 .. l - 1
        BY <4>1
      <4> QED
        BY <4>2, Zenon DEF l
    <3>2. a \in 0 .. bytes_to_sectors(I.length) - 1 /\ bytes_to_sectors(I.length) \in Nat
      BY <1>1, <3>1, InExtent, Zenon
    <3> HIDE DEF a, I
    <3> QED
      BY <1>0, <1>1, <3>2 DEF Sector
  <2>3. Len(sub) = c /\ \A i \in 1 .. c : sub[i] = bytes[done + i]
    <3>1. done \in Nat /\ done + c <= n
      BY <1>0, <2>1
    <3>2. IsPortion(sub, bytes, done, c)
      BY <2>1, <3>1, PortionTaken, Zenon
    <3> QED
      BY <3>2, Zenon DEF IsPortion
  <2>4. r \in 0 .. B - 1
    BY <1>0, DivMod, Zenon
  <2>5. \A z \in Sector : \A i \in 1 .. B :
           V(done, z, i) = IF z = zz /\ i \in r + 1 .. r + c THEN bytes[done + (i - r)]
                           ELSE Val(data, I, bytes, offset, q + c, z, i)
    <3> SUFFICES ASSUME NEW z \in Sector, NEW i \in 1 .. B
                 PROVE  V(done, z, i)
                        = IF z = zz /\ i \in r + 1 .. r + c THEN bytes[done + (i - r)]
                          ELSE Val(data, I, bytes, offset, q + c, z, i)
      BY Zenon
    <3>1. /\ z \in Int /\ c \in Nat /\ c <= B - r /\ c <= n - done /\ c <= I.length - q
          /\ I.start \in Nat /\ I.length \in Nat
      BY <1>1, <1>2, <1>4, <2>1, Zenon
    <3>2. TurnGives(data, I, bytes, offset, done, c, z, i)
      <4> HIDE DEF I
      <4> QED
        BY <3>1, TurnValue, Zenon
    <3> QED
      BY <3>2, Zenon DEF TurnGives
  <2>6. q + c = offset + (done + c)
    BY <2>1
  <2>7. \A z \in Sector : \A i \in 1 .. B :
           V(done, z, i) = IF z = zz /\ i \in r + 1 .. r + c THEN bytes[done + (i - r)]
                           ELSE V(done + c, z, i)
    BY <2>5, <2>6, Zenon
  <2>8. \A i \in r + 1 .. r + c : i - r \in 1 .. c
    <3> HIDE DEF r
    <3> QED
      BY <2>1, <2>4, <1>0
  <2> HIDE DEF sub, zz, r, a, V, W
  <2>9. /\ W(done) = [z \in Sector |-> [i \in 1 .. B |-> V(done, z, i)]]
        /\ W(done + c) = [z \in Sector |-> [i \in 1 .. B |-> V(done + c, z, i)]]
    BY <1>3, Zenon
  <2>10. ASSUME NEW z \in Sector, z # zz PROVE W(done)[z] = rhs[z]
    <3>1. rhs[z] = W(done + c)[z]
      BY <2>9, <2>10, Zenon
    <3>2. \A i \in 1 .. B : V(done, z, i) = V(done + c, z, i)
      BY <2>7, <2>10, Zenon
    <3>3. W(done)[z] = [i \in 1 .. B |-> V(done, z, i)]
      BY <2>9, Zenon
    <3>4. W(done + c)[z] = [i \in 1 .. B |-> V(done + c, z, i)]
      BY <2>9, Zenon
    <3> QED
      BY <3>1, <3>2, <3>3, <3>4, Zenon
  <2>11. W(done)[zz] = rhs[zz]
    <3>1. rhs[zz] = WriteChunk(W(done + c)[zz], r, sub)
      BY <2>2, <2>9, Zenon
    <3>2. W(done + c)[zz] = [i \in 1 .. B |-> V(done + c, zz, i)]
      BY <2>2, <2>9, Zenon
    <3>3. WriteChunk(W(done + c)[zz], r, sub)
          = [i \in 1 .. B |-> IF i \in r + 1 .. r + c THEN sub[i - r] ELSE W(done + c)[zz][i]]
      BY <2>3, Zenon DEF WriteChunk
    <3>4. \A i \in 1 .. B : V(done, zz, i) = IF i \in r + 1 .. r + c THEN sub[i - r]
                                             ELSE W(done + c)[zz][i]
      <4> SUFFICES ASSUME NEW i \in 1 .. B
                   PROVE  V(done, zz, i) = IF i \in r + 1 .. r + c THEN sub[i - r]
                                           ELSE W(done + c)[zz][i]
        BY Zenon
      <4>1. CASE i \in r + 1 .. r + c
        BY <2>2, <2>3, <2>7, <2>8, <4>1, Zenon
      <4>2. CASE i \notin r + 1 .. r + c
        BY <2>2, <2>7, <3>2, <4>2, Zenon
      <4> QED
        BY <4>1, <4>2, Zenon
    <3>5. W(done)[zz] = [i \in 1 .. B |-> V(done, zz, i)]
      BY <2>2, <2>9, Zenon
    <3> QED
      BY <3>1, <3>3, <3>4, <3>5, Zenon
  <2>12. rhs = [z \in Sector |-> rhs[z]]
    BY <2>9, Zenon
  <2>13. W(done) = rhs
    BY <2>9, <2>10, <2>11, <2>12, Zenon
  <2>14. byte_to_sector(s, q) = zz
    BY Zenon DEF byte_to_sector, zz, a
  <2> QED
    BY <1>2, <1>6, <2>1, <2>13, <2>14, Zenon DEF WriteTurnOK, W, r, sub
<1> QED
  BY <1>5, <1>6, Zenon

(* What inode_write_at() makes of the disk: the bytes of the file from     *)
(* offset on, up to its end, are overwritten, and no others.               *)
LEMMA WriteAt ==
    ASSUME NEW s, Sound(inode_disk[s]), data \in [Sector -> Block], NEW bytes \in Seq(Int),
           NEW offset \in Nat
    PROVE  inode_write_at(s, bytes, offset) = WrittenFrom(data, inode_disk[s], bytes, offset, 0)
<1> DEFINE n == Len(bytes)
           c(d) == chunk_size(s, n - d, offset + d)
           T(d) == WrittenFrom(data, inode_disk[s], bytes, offset, d)
           W == [d \in 0 .. n |-> T(d)]
           w == CHOOSE v : v = WriteLoop(v, s, bytes, offset)
           Turn(v, d) == IF c(d) <= 0 THEN data
                         ELSE [v[d + c(d)] EXCEPT ![byte_to_sector(s, offset + d)] =
                                  WriteChunk(@, (offset + d) % BLOCK_SECTOR_SIZE,
                                             SubSeq(bytes, d + 1, d + c(d)))]
<1>0. n \in Nat
  OBVIOUS
<1>1. inode_write_at(s, bytes, offset) = w[0]
  BY Zenon DEF inode_write_at, WriteLoop
<1>2. \A v : WriteLoop(v, s, bytes, offset) = [d \in 0 .. n |-> Turn(v, d)]
  BY Zenon DEF WriteLoop
<1>3. \A d \in 0 .. n :
        /\ c(d) <= 0 => T(d) = data
        /\ ~(c(d) <= 0) =>
             /\ d + c(d) \in d + 1 .. n
             /\ T(d) = [T(d + c(d)) EXCEPT ![byte_to_sector(s, offset + d)] =
                           WriteChunk(@, (offset + d) % BLOCK_SECTOR_SIZE,
                                      SubSeq(bytes, d + 1, d + c(d)))]
  <2> SUFFICES ASSUME NEW d \in 0 .. n
               PROVE  /\ c(d) <= 0 => T(d) = data
                      /\ ~(c(d) <= 0) =>
                           /\ d + c(d) \in d + 1 .. n
                           /\ T(d) = [T(d + c(d)) EXCEPT ![byte_to_sector(s, offset + d)] =
                                         WriteChunk(@, (offset + d) % BLOCK_SECTOR_SIZE,
                                                    SubSeq(bytes, d + 1, d + c(d)))]
    BY Zenon
  <2>1. PICK k : k = c(d)
    BY Zenon
  <2>2. WriteTurnOK(s, bytes, offset, d, k)
    BY <2>1, WriteTurn, Zenon
  <2>3. WriteTurnOK(s, bytes, offset, d, c(d))
    <3> HIDE DEF c
    <3> QED
      BY <2>1, <2>2, Zenon
  <2> QED
    BY <2>3, Zenon DEF WriteTurnOK
<1>4. \A d \in 0 .. n : \A e \in d + 1 .. n : e \in 0 .. n
  BY <1>0
<1> HIDE DEF c, T, n
<1>5. \A d \in 0 .. n : W[d] = T(d)
  BY Zenon
<1> HIDE DEF W
<1>6. \A d \in 0 .. n : W[d] = Turn(W, d)
  <2> SUFFICES ASSUME NEW d \in 0 .. n PROVE W[d] = Turn(W, d)
    BY Zenon
  <2>1. CASE c(d) <= 0
    BY <1>3, <1>5, <2>1, Zenon
  <2>2. CASE ~(c(d) <= 0)
    <3>1. d + c(d) \in 0 .. n
      BY <1>3, <1>4, <2>2, Zenon
    <3>2. W[d + c(d)] = T(d + c(d)) /\ W[d] = T(d)
      BY <1>5, <3>1, Zenon
    <3> QED
      BY <1>3, <2>2, <3>2, Zenon
  <2> QED
    BY <2>1, <2>2, Zenon
<1>8. ASSUME NEW v, NEW x, NEW d \in 0 .. n, \A e \in d + 1 .. n : v[e] = x[e]
      PROVE  Turn(v, d) = Turn(x, d)
  <2>1. CASE c(d) <= 0
    BY <2>1, Zenon
  <2>2. CASE ~(c(d) <= 0)
    <3>1. v[d + c(d)] = x[d + c(d)]
      BY <1>3, <1>8, <2>2, Zenon
    <3> QED
      BY <2>2, <3>1, Zenon
  <2> QED
    BY <2>1, <2>2, Zenon
<1> HIDE DEF Turn
<1>9. W = WriteLoop(W, s, bytes, offset)
  <2>1. W = [d \in 0 .. n |-> W[d]]
    BY Zenon DEF W
  <2> QED
    BY <1>2, <1>6, <2>1, Zenon
<1>10. w = WriteLoop(w, s, bytes, offset)
  BY <1>9, Zenon
<1> HIDE DEF w
<1>11. \A d \in 0 .. n : w[d] = Turn(w, d)
  BY <1>2, <1>10, Zenon
<1>12. \A d \in 0 .. n : (\A e \in d + 1 .. n : w[e] = W[e]) => w[d] = W[d]
  BY <1>6, <1>8, <1>11, Zenon
<1>13. \A d \in 0 .. n : w[d] = W[d]
  <2>1. Inherited(n, w, W)
    BY <1>12, Zenon DEF Inherited
  <2> QED
    BY <1>0, <2>1, SameLoop, Zenon
<1>14. 0 \in 0 .. n
  BY <1>0
<1> QED
  BY <1>1, <1>5, <1>13, <1>14, Zenon DEF T

(* A byte of a file is in a sector of its extent.                          *)
LEMMA ByteIn ==
    ASSUME NEW inode, Sound(inode), NEW d \in [Sector -> Block], NEW x \in 0 .. inode.length - 1
    PROVE  /\ inode.start + (x \div BLOCK_SECTOR_SIZE) \in Sector
           /\ inode.start + (x \div BLOCK_SECTOR_SIZE)
                 \in Extent(inode.start, bytes_to_sectors(inode.length))
           /\ ByteAt(d, inode, x) \in Int
<1> DEFINE B == BLOCK_SECTOR_SIZE
           a == x \div B
           zz == inode.start + a
           n == bytes_to_sectors(inode.length)
<1>0. B \in Nat /\ B > 0 /\ SectorCount \in Nat
  BY FileSysAssumption
<1>1. inode.start \in Nat /\ inode.length \in Nat /\ inode.start + n <= SectorCount
  BY Zenon DEF Sound
<1>2. a \in 0 .. n - 1 /\ n \in Nat
  BY <1>1, InExtent, Zenon
<1>3. zz \in Sector /\ zz \in Extent(inode.start, n)
  <2> HIDE DEF a, n
  <2> QED
    BY <1>0, <1>1, <1>2 DEF Sector, Extent
<1>4. d[zz] \in [1 .. B -> Int]
  BY <1>3, Zenon DEF Block
<1>5. x \in Nat
  BY <1>1
<1>6. x % B \in 0 .. B - 1
  BY <1>5, DivMod, Zenon
<1>7. (x % B) + 1 \in 1 .. B
  <2> HIDE DEF B
  <2> QED
    BY <1>0, <1>6
<1> QED
  BY <1>3, <1>4, <1>7, Zenon DEF ByteAt

(* The bytes of a file from done on.                                       *)
BytesFrom(d, inode, done) == [k \in 1 .. inode.length - done |-> ByteAt(d, inode, done + k - 1)]

IsBytesFrom(f, d, inode, done) ==
    /\ f \in Seq(Int) /\ Len(f) = inode.length - done
    /\ \A k \in 1 .. inode.length - done : f[k] = ByteAt(d, inode, done + k - 1)

(* They are a sequence.                                                    *)
LEMMA BytesFromType ==
    ASSUME NEW inode, Sound(inode), NEW d \in [Sector -> Block], NEW done \in 0 .. inode.length
    PROVE  IsBytesFrom(BytesFrom(d, inode, done), d, inode, done)
<1> DEFINE n == inode.length - done
           f == BytesFrom(d, inode, done)
<1>0. inode.length \in Nat
  BY Zenon DEF Sound
<1>1. n \in Nat /\ \A k \in 1 .. n : done + k - 1 \in 0 .. inode.length - 1
  BY <1>0
<1>2. \A k \in 1 .. n : ByteAt(d, inode, done + k - 1) \in Int
  BY <1>1, ByteIn, Zenon
<1>3. f = [k \in 1 .. n |-> ByteAt(d, inode, done + k - 1)]
  BY Zenon DEF BytesFrom
<1>4. f \in [1 .. n -> Int] /\ \A k \in 1 .. n : f[k] = ByteAt(d, inode, done + k - 1)
  BY <1>2, <1>3, Zenon
<1> HIDE DEF f, n
<1>5. f \in Seq(Int) /\ Len(f) = n
  BY <1>1, <1>4
<1> QED
  BY <1>4, <1>5, Zenon DEF f, n, IsBytesFrom

(* The loop of inode_read_at() as an equation for r.                       *)
ReadLoop(r, s, size, offset) ==
    [done \in 0 .. size |->
        LET chunk == chunk_size(s, size - done, offset + done)
            ofs == (offset + done) % BLOCK_SECTOR_SIZE
        IN IF chunk <= 0 THEN <<>>
           ELSE SubSeq(data[byte_to_sector(s, offset + done)], ofs + 1, ofs + chunk)
                \o r[done + chunk]]

(* A turn of the loop puts its chunk before what the later turns read.     *)
LEMMA ReadTurn ==
    ASSUME NEW s, Sound(inode_disk[s]), data \in [Sector -> Block],
           NEW done \in 0 .. inode_disk[s].length,
           NEW c, c = chunk_size(s, inode_disk[s].length - done, done)
    PROVE  /\ c \in Int
           /\ c <= 0 => BytesFrom(data, inode_disk[s], done) = <<>>
           /\ ~(c <= 0) =>
                /\ done + c \in done + 1 .. inode_disk[s].length
                /\ BytesFrom(data, inode_disk[s], done)
                   = SubSeq(data[byte_to_sector(s, done)], (done % BLOCK_SECTOR_SIZE) + 1,
                            (done % BLOCK_SECTOR_SIZE) + c)
                     \o BytesFrom(data, inode_disk[s], done + c)
<1> DEFINE B == BLOCK_SECTOR_SIZE
           I == inode_disk[s]
           len == I.length
           r == done % B
           a == done \div B
           zz == I.start + a
           sub == SubSeq(data[zz], r + 1, r + c)
           R(d) == BytesFrom(data, I, d)
<1>0. B \in Nat /\ B > 0 /\ SectorCount \in Nat
  BY FileSysAssumption
<1>1. I.start \in Nat /\ len \in Nat /\ I.start + bytes_to_sectors(len) <= SectorCount
  BY Zenon DEF Sound
<1>2. done \in Nat /\ len - done \in Nat
  BY <1>1
<1>3. /\ c \in Int /\ c <= len - done /\ c <= B - r
      /\ c <= 0 => len - done = 0 \/ len <= done
  BY <1>1, <1>2, ChunkSize, Zenon
<1>4. CASE c <= 0
  <2>1. len - done = 0
    BY <1>1, <1>2, <1>3, <1>4
  <2>2. R(done) = [k \in 1 .. 0 |-> ByteAt(data, I, done + k - 1)]
    BY <2>1, Zenon DEF BytesFrom
  <2>3. R(done) = <<>>
    BY <2>2
  <2> QED
    BY <1>3, <1>4, <2>3, Zenon
<1>5. CASE ~(c <= 0)
  <2>1. c \in Nat /\ c > 0 /\ done + c \in done + 1 .. len /\ done \in 0 .. len - 1
    BY <1>1, <1>2, <1>3, <1>5
  <2>2. r \in 0 .. B - 1 /\ a \in Nat
    BY <1>2, DivMod, Zenon
  <2>3. zz \in Sector
    BY <2>1, ByteIn, Zenon
  <2>4. data[zz] \in [1 .. B -> Int]
    BY <2>3, Zenon DEF Block
  <2>5. \A i \in 1 .. c : ByteAt(data, I, done + i - 1) = data[zz][r + i]
    <3> SUFFICES ASSUME NEW i \in 1 .. c PROVE ByteAt(data, I, done + i - 1) = data[zz][r + i]
      BY Zenon
    <3>1. i - 1 \in Nat /\ i - 1 < B - r /\ done + i - 1 = done + (i - 1)
      <4> HIDE DEF r
      <4> QED
        BY <1>0, <1>2, <1>3, <2>1, <2>2
    <3>2. (done + (i - 1)) \div B = a /\ (done + (i - 1)) % B = r + (i - 1)
      BY <1>2, <3>1, SameSector, Zenon
    <3>3. (r + (i - 1)) + 1 = r + i
      <4> HIDE DEF r
      <4> QED
        BY <2>1, <2>2, <1>0
    <3> QED
      BY <3>1, <3>2, <3>3, Zenon DEF ByteAt
  <2>6. /\ sub \in [1 .. c -> Int] /\ Len(sub) = c
        /\ \A i \in 1 .. c : sub[i] = data[zz][r + i]
    <3> DEFINE b == data[zz]
    <3>1. b \in Seq(Int) /\ Len(b) = B
      <4> HIDE DEF b
      <4> QED
        BY <1>0, <2>4 DEF b
    <3>2. r + 1 \in 1 .. B /\ r + c \in r .. B /\ r \in Nat
      <4> HIDE DEF r
      <4> QED
        BY <1>0, <1>3, <2>1, <2>2
    <3>3. r + c <= Len(b)
      <4> HIDE DEF b, r
      <4> QED
        BY <1>0, <2>1, <3>1, <3>2
    <3>4. IsPortion(sub, b, r, c)
      <4> HIDE DEF r, zz
      <4> QED
        BY <2>1, <3>1, <3>2, <3>3, PortionTaken, Zenon
    <3>5. sub \in Seq(Int)
      BY <3>4, Zenon DEF IsPortion
    <3>6. Len(sub) = c /\ \A i \in 1 .. c : sub[i] = b[r + i]
      BY <3>4, Zenon DEF IsPortion
    <3>7. sub \in [1 .. c -> Int]
      <4> HIDE DEF sub
      <4> QED
        BY <3>5, <3>6
    <3> QED
      BY <3>6, <3>7, Zenon
  <2>7. \A d \in 0 .. len : /\ R(d) \in Seq(Int) /\ Len(R(d)) = len - d
                            /\ \A k \in 1 .. len - d : R(d)[k] = ByteAt(data, I, d + k - 1)
    <3> SUFFICES ASSUME NEW d \in 0 .. len
                 PROVE  /\ R(d) \in Seq(Int) /\ Len(R(d)) = len - d
                        /\ \A k \in 1 .. len - d : R(d)[k] = ByteAt(data, I, d + k - 1)
      BY Zenon
    <3>1. IsBytesFrom(R(d), data, I, d)
      BY BytesFromType, Zenon
    <3> QED
      BY <3>1, Zenon DEF IsBytesFrom
  <2>8. done + c \in 0 .. len /\ c + (len - (done + c)) = len - done /\ len - (done + c) \in Nat
    BY <1>1, <1>2, <2>1
  <2> HIDE DEF R, sub
  <2>9. sub \in Seq(Int)
    BY <2>1, <2>6
  <2> DEFINE t == R(done + c)
  <2>10. t \in Seq(Int) /\ Len(t) = len - (done + c)
    BY <2>7, <2>8, Zenon
  <2> HIDE DEF t
  <2>11. /\ sub \o t \in Seq(Int) /\ Len(sub \o t) = Len(sub) + Len(t)
         /\ \A i \in 1 .. Len(sub) + Len(t) :
               (sub \o t)[i] = IF i <= Len(sub) THEN sub[i] ELSE t[i - Len(sub)]
    BY <2>9, <2>10, Joined, Zenon DEF IsJoin
  <2>12. Len(sub \o t) = len - done /\ Len(sub) + Len(t) = len - done /\ Len(sub) = c
    BY <2>6, <2>8, <2>10, <2>11, Zenon
  <2>13. R(done) \in Seq(Int) /\ Len(R(done)) = len - done
    BY <2>7, Zenon
  <2>14. ASSUME NEW i \in 1 .. len - done PROVE R(done)[i] = (sub \o t)[i]
    <3>1. R(done)[i] = ByteAt(data, I, done + i - 1)
      BY <2>7, Zenon
    <3>2. CASE i <= c
      <4>1. i \in 1 .. c
        BY <2>1, <3>2
      <4> QED
        BY <2>5, <2>6, <2>11, <2>12, <3>1, <3>2, <4>1, Zenon
    <3>3. CASE ~(i <= c)
      <4>1. i - c \in 1 .. len - (done + c) /\ (done + c) + (i - c) - 1 = done + i - 1
        BY <1>1, <1>2, <2>1, <3>3
      <4>2. t[i - c] = ByteAt(data, I, done + i - 1)
        BY <2>7, <2>8, <4>1, Zenon DEF t
      <4> QED
        BY <2>11, <2>12, <3>1, <3>3, <4>2, Zenon
    <3> QED
      BY <3>2, <3>3, Zenon
  <2>15. R(done) = sub \o t
    BY <2>11, <2>12, <2>13, <2>14, SameBytes, Zenon
  <2>16. byte_to_sector(s, done) = zz
    BY Zenon DEF byte_to_sector
  <2> QED
    BY <1>3, <1>5, <2>1, <2>15, <2>16, Zenon DEF R, sub, t
<1> QED
  BY <1>4, <1>5, Zenon

(* The bytes a file reads as.                                              *)
ContentsRead ==
    data \in [Sector -> Block] =>
        \A s \in Sector : Sound(inode_disk[s]) => Content(s) = Bytes(data, inode_disk[s])

(* What inode_read_at() returns for a whole file.                          *)
LEMMA ReadAll == ContentsRead
<1> SUFFICES ASSUME data \in [Sector -> Block], NEW s \in Sector, Sound(inode_disk[s])
             PROVE  Content(s) = Bytes(data, inode_disk[s])
  BY Zenon DEF ContentsRead
<1> DEFINE n == inode_disk[s].length
           c(d) == chunk_size(s, n - d, 0 + d)
           T(d) == BytesFrom(data, inode_disk[s], d)
           W == [d \in 0 .. n |-> T(d)]
           w == CHOOSE v : v = ReadLoop(v, s, n, 0)
           Turn(v, d) == IF c(d) <= 0 THEN <<>>
                         ELSE SubSeq(data[byte_to_sector(s, 0 + d)],
                                     ((0 + d) % BLOCK_SECTOR_SIZE) + 1,
                                     ((0 + d) % BLOCK_SECTOR_SIZE) + c(d))
                              \o v[d + c(d)]
<1>0. n \in Nat
  BY Zenon DEF Sound
<1>1. Content(s) = w[0]
  BY Zenon DEF Content, inode_read_at, ReadLoop
<1>2. \A v : ReadLoop(v, s, n, 0) = [d \in 0 .. n |-> Turn(v, d)]
  BY Zenon DEF ReadLoop
<1>3. \A d \in 0 .. n : 0 + d = d
  BY <1>0
<1>4. \A d \in 0 .. n :
        /\ c(d) <= 0 => T(d) = <<>>
        /\ ~(c(d) <= 0) =>
             /\ d + c(d) \in d + 1 .. n
             /\ T(d) = SubSeq(data[byte_to_sector(s, 0 + d)],
                              ((0 + d) % BLOCK_SECTOR_SIZE) + 1,
                              ((0 + d) % BLOCK_SECTOR_SIZE) + c(d))
                       \o T(d + c(d))
  BY <1>3, ReadTurn, Zenon
<1>5. \A d \in 0 .. n : \A e \in d + 1 .. n : e \in 0 .. n
  BY <1>0
<1> HIDE DEF c, T, n
<1>6. \A d \in 0 .. n : W[d] = T(d)
  BY Zenon
<1> HIDE DEF W
<1>7. \A d \in 0 .. n : W[d] = Turn(W, d)
  <2> SUFFICES ASSUME NEW d \in 0 .. n PROVE W[d] = Turn(W, d)
    BY Zenon
  <2>1. CASE c(d) <= 0
    BY <1>4, <1>6, <2>1, Zenon
  <2>2. CASE ~(c(d) <= 0)
    <3>1. d + c(d) \in 0 .. n
      BY <1>4, <1>5, <2>2, Zenon
    <3>2. W[d + c(d)] = T(d + c(d)) /\ W[d] = T(d)
      BY <1>6, <3>1, Zenon
    <3> QED
      BY <1>4, <2>2, <3>2, Zenon
  <2> QED
    BY <2>1, <2>2, Zenon
<1>8. ASSUME NEW v, NEW x, NEW d \in 0 .. n, \A e \in d + 1 .. n : v[e] = x[e]
      PROVE  Turn(v, d) = Turn(x, d)
  <2>1. CASE c(d) <= 0
    BY <2>1, Zenon
  <2>2. CASE ~(c(d) <= 0)
    <3>1. v[d + c(d)] = x[d + c(d)]
      BY <1>4, <1>8, <2>2, Zenon
    <3> QED
      BY <2>2, <3>1, Zenon
  <2> QED
    BY <2>1, <2>2, Zenon
<1> HIDE DEF Turn
<1>9. W = ReadLoop(W, s, n, 0)
  <2>1. W = [d \in 0 .. n |-> W[d]]
    BY Zenon DEF W
  <2> QED
    BY <1>2, <1>7, <2>1, Zenon
<1>10. w = ReadLoop(w, s, n, 0)
  BY <1>9, Zenon
<1> HIDE DEF w
<1>11. \A d \in 0 .. n : w[d] = Turn(w, d)
  BY <1>2, <1>10, Zenon
<1>12. \A d \in 0 .. n : (\A e \in d + 1 .. n : w[e] = W[e]) => w[d] = W[d]
  BY <1>7, <1>8, <1>11, Zenon
<1>13. \A d \in 0 .. n : w[d] = W[d]
  <2>1. Inherited(n, w, W)
    BY <1>12, Zenon DEF Inherited
  <2> QED
    BY <1>0, <2>1, SameLoop, Zenon
<1>14. 0 \in 0 .. n /\ n - 0 = n
  BY <1>0
<1>15. Content(s) = T(0)
  BY <1>1, <1>6, <1>13, <1>14, Zenon
<1>16. T(0) = [k \in 1 .. n |-> ByteAt(data, inode_disk[s], 0 + k - 1)]
  BY <1>14, Zenon DEF T, n, BytesFrom
<1>17. \A k \in 1 .. n : 0 + k - 1 = k - 1
  BY <1>0
<1> QED
  BY <1>15, <1>16, <1>17, Zenon DEF Bytes, n

(* A position of a file in range, seen from the byte of the disk it is at. *)
LEMMA PosBack ==
    ASSUME NEW inode, inode.start \in Nat, NEW x \in Nat
    PROVE  PosOf(inode, inode.start + (x \div BLOCK_SECTOR_SIZE), (x % BLOCK_SECTOR_SIZE) + 1) = x
<1> DEFINE B == BLOCK_SECTOR_SIZE
           a == x \div B
           b == x % B
           st == inode.start
<1>0. B \in Nat /\ st \in Nat
  BY FileSysAssumption
<1>1. a \in Nat /\ b \in 0 .. B - 1 /\ x = B * a + b
  BY DivMod, Zenon
<1>2. PosOf(inode, st + a, b + 1) = B * ((st + a) - st) + ((b + 1) - 1)
  BY Zenon DEF PosOf
<1> HIDE DEF a, b, B, st
<1>3. (st + a) - st = a /\ (b + 1) - 1 = b
  BY <1>0, <1>1
<1> QED
  BY <1>1, <1>2, <1>3, Zenon DEF a, b, B, st

(* A written disk is a disk, ...                                           *)
LEMMA WrittenType ==
    ASSUME NEW inode, Sound(inode), NEW d \in [Sector -> Block], NEW bytes \in Seq(Int),
           NEW offset \in Nat
    PROVE  WrittenFrom(d, inode, bytes, offset, 0) \in [Sector -> Block]
<1> DEFINE B == BLOCK_SECTOR_SIZE
           n == Len(bytes)
           E == Smaller(offset + n, inode.length)
           p(z, i) == PosOf(inode, z, i)
           v(z, i) == IF p(z, i) \in offset + 0 .. E - 1 THEN bytes[p(z, i) - offset + 1] ELSE d[z][i]
<1>0. n \in Nat /\ inode.start \in Nat /\ inode.length \in Nat /\ SectorCount \in Nat
  BY FileSysAssumption DEF Sound
<1>1. E \in Int /\ E <= offset + n
  <2> DEFINE l == inode.length
  <2>1. l \in Nat
    BY <1>0, Zenon
  <2> HIDE DEF n, l
  <2>2. Smaller(offset + n, l) \in Int /\ Smaller(offset + n, l) <= offset + n
    BY <1>0, <2>1 DEF Smaller
  <2> QED
    BY <2>2, Zenon DEF l
<1> HIDE DEF E
<1>2. \A x \in Int : x \in offset + 0 .. E - 1 => x - offset + 1 \in 1 .. n
  BY <1>0, <1>1
<1>3. \A z \in Sector : z \in Int
  BY <1>0 DEF Sector
<1>4. \A z \in Sector : \A i \in 1 .. B : p(z, i) \in Int
  BY <1>0, <1>3, PosPlace, Zenon
<1>5. \A k \in 1 .. n : bytes[k] \in Int
  OBVIOUS
<1>6. \A z \in Sector : \A i \in 1 .. B : d[z][i] \in Int
  BY Zenon DEF Block
<1> HIDE DEF p, n
<1>7. \A z \in Sector : \A i \in 1 .. B : v(z, i) \in Int
  BY <1>2, <1>4, <1>5, <1>6, Zenon
<1>8. WrittenFrom(d, inode, bytes, offset, 0) = [z \in Sector |-> [i \in 1 .. B |-> v(z, i)]]
  BY Zenon DEF WrittenFrom, p, E, n
<1> HIDE DEF v
<1>9. \A z \in Sector : [i \in 1 .. B |-> v(z, i)] \in Block
  BY <1>7, Zenon DEF Block
<1> QED
  BY <1>8, <1>9, Zenon

(* ... the same as before outside of the extent of the file written, ...   *)
LEMMA WrittenOutside ==
    ASSUME NEW inode, Sound(inode), NEW d \in [Sector -> Block], NEW bytes \in Seq(Int),
           NEW offset \in Nat, NEW z \in Sector,
           z \notin Extent(inode.start, bytes_to_sectors(inode.length))
    PROVE  WrittenFrom(d, inode, bytes, offset, 0)[z] = d[z]
<1> DEFINE B == BLOCK_SECTOR_SIZE
           E == Smaller(offset + Len(bytes), inode.length)
           p(i) == PosOf(inode, z, i)
           v(i) == IF p(i) \in offset + 0 .. E - 1 THEN bytes[p(i) - offset + 1] ELSE d[z][i]
<1>0. /\ inode.start \in Nat /\ inode.length \in Nat /\ SectorCount \in Nat /\ z \in Int
      /\ Len(bytes) \in Nat
  BY FileSysAssumption DEF Sound, Sector
<1>1. ASSUME NEW i \in 1 .. B, p(i) \in offset + 0 .. E - 1 PROVE FALSE
  <2> DEFINE l == inode.length
             st == inode.start
             n == Len(bytes)
  <2>0. l \in Nat /\ st \in Nat /\ n \in Nat
    BY <1>0, Zenon
  <2>1. p(i) \in Int /\ (p(i) >= 0 => p(i) \div B = z - st)
    BY <1>0, PosPlace, Zenon
  <2>2. p(i) \in offset + 0 .. E - 1 /\ E = Smaller(offset + n, l)
    BY <1>1, Zenon
  <2> HIDE DEF p, E, n, l, st
  <2>3. p(i) \in 0 .. l - 1 /\ p(i) >= 0
    BY <2>0, <2>1, <2>2 DEF Smaller
  <2>4. p(i) \div B \in 0 .. bytes_to_sectors(l) - 1 /\ bytes_to_sectors(l) \in Nat
    BY <2>0, <2>3, InExtent, Zenon
  <2>5. z \in Extent(st, bytes_to_sectors(l))
    BY <1>0, <2>0, <2>1, <2>3, <2>4 DEF Extent
  <2> QED
    BY <2>5, Zenon DEF l, st
<1>2. \A i \in 1 .. B : v(i) = d[z][i]
  BY <1>1, Zenon
<1>3. WrittenFrom(d, inode, bytes, offset, 0)[z] = [i \in 1 .. B |-> v(i)]
  BY Zenon DEF WrittenFrom
<1>4. d[z] = [i \in 1 .. B |-> d[z][i]]
  BY Zenon DEF Block
<1> QED
  BY <1>2, <1>3, <1>4, Zenon

(* The contents of a file of which the bytes from offset on are            *)
(* overwritten, as far as it goes.                                         *)
Overwritten(d, inode, bytes, offset) ==
    [k \in 1 .. inode.length |->
        IF k \in offset + 1 .. offset + Len(bytes) THEN bytes[k - offset] ELSE Bytes(d, inode)[k]]

(* ... and the file has the new bytes.                                     *)
LEMMA WrittenBytes ==
    ASSUME NEW inode, Sound(inode), NEW d \in [Sector -> Block], NEW bytes \in Seq(Int),
           NEW offset \in Nat
    PROVE  Bytes(WrittenFrom(d, inode, bytes, offset, 0), inode)
           = Overwritten(d, inode, bytes, offset)
<1> DEFINE B == BLOCK_SECTOR_SIZE
           W == WrittenFrom(d, inode, bytes, offset, 0)
           E == Smaller(offset + Len(bytes), inode.length)
           p(z, i) == PosOf(inode, z, i)
<1>0. inode.start \in Nat /\ inode.length \in Nat /\ B \in Nat /\ Len(bytes) \in Nat
  BY FileSysAssumption DEF Sound
<1>1. \A z \in Sector : \A i \in 1 .. B :
        W[z][i] = IF p(z, i) \in offset + 0 .. E - 1 THEN bytes[p(z, i) - offset + 1] ELSE d[z][i]
  BY Zenon DEF WrittenFrom
<1>2. ASSUME NEW k \in 1 .. inode.length
      PROVE  ByteAt(W, inode, k - 1) = IF k \in offset + 1 .. offset + Len(bytes)
                                       THEN bytes[k - offset] ELSE ByteAt(d, inode, k - 1)
  <2> DEFINE x == k - 1
             z == inode.start + (x \div B)
             i == (x % B) + 1
             n == Len(bytes)
             l == inode.length
  <2>1. x \in Nat /\ x \in 0 .. inode.length - 1
    BY <1>0
  <2>2. z \in Sector /\ p(z, i) = x
    BY <1>0, <2>1, ByteIn, PosBack, Zenon
  <2>3. i \in 1 .. B
    <3>1. x % B \in 0 .. B - 1
      BY <2>1, DivMod, Zenon
    <3> QED
      BY <1>0, <3>1
  <2>4. W[z][i] = IF x \in offset + 0 .. E - 1 THEN bytes[x - offset + 1] ELSE d[z][i]
    <3>1. W[z][i] = IF p(z, i) \in offset + 0 .. E - 1 THEN bytes[p(z, i) - offset + 1]
                    ELSE d[z][i]
      <4> HIDE DEF z, i, p, E, W
      <4> QED
        BY <1>1, <2>2, <2>3, Zenon
    <3> HIDE DEF z, i, p, x, E, W
    <3> QED
      BY <2>2, <3>1, Zenon
  <2>5. /\ x \in offset + 0 .. E - 1 <=> k \in offset + 1 .. offset + n
        /\ x - offset + 1 = k - offset
    <3>0. n \in Nat /\ l \in Nat /\ k \in 1 .. l /\ E = Smaller(offset + n, l)
      BY <1>0, Zenon
    <3> HIDE DEF E, n, l
    <3> QED
      BY <3>0 DEF Smaller
  <2>6. W[z][i] = IF k \in offset + 1 .. offset + n THEN bytes[k - offset] ELSE d[z][i]
    BY <2>4, <2>5, Zenon
  <2>7. ByteAt(W, inode, x) = W[z][i] /\ ByteAt(d, inode, x) = d[z][i]
    BY Zenon DEF ByteAt
  <2> QED
    BY <2>6, <2>7, Zenon
<1>3. \A k \in 1 .. inode.length : Bytes(d, inode)[k] = ByteAt(d, inode, k - 1)
  BY Zenon DEF Bytes
<1>4. Bytes(W, inode) = [k \in 1 .. inode.length |-> ByteAt(W, inode, k - 1)]
  BY Zenon DEF Bytes
<1> HIDE DEF W
<1>5. Bytes(W, inode) = Overwritten(d, inode, bytes, offset)
  BY <1>2, <1>3, <1>4, Zenon DEF Overwritten
<1> QED
  BY <1>5, Zenon DEF W

(* The contents of a file depend on the sectors of its extent only.        *)
LEMMA BytesSame ==
    ASSUME NEW inode, Sound(inode), NEW d \in [Sector -> Block], NEW e,
           \A z \in Extent(inode.start, bytes_to_sectors(inode.length)) : z \in Sector => e[z] = d[z]
    PROVE  Bytes(e, inode) = Bytes(d, inode)
<1>0. inode.length \in Nat
  BY Zenon DEF Sound
<1>1. ASSUME NEW k \in 1 .. inode.length PROVE ByteAt(e, inode, k - 1) = ByteAt(d, inode, k - 1)
  <2>1. k - 1 \in 0 .. inode.length - 1
    BY <1>0
  <2> QED
    BY <2>1, ByteIn, Zenon DEF ByteAt
<1> QED
  BY <1>1, Zenon DEF Bytes

(* A file whose sectors are zeros.                                         *)
LEMMA BytesZero ==
    ASSUME NEW inode, Sound(inode), NEW d \in [Sector -> Block],
           \A z \in Extent(inode.start, bytes_to_sectors(inode.length)) : d[z] = ZeroSector
    PROVE  Bytes(d, inode) = [k \in 1 .. inode.length |-> 0]
<1>0. inode.length \in Nat /\ BLOCK_SECTOR_SIZE \in Nat
  BY FileSysAssumption DEF Sound
<1>1. ASSUME NEW k \in 1 .. inode.length PROVE ByteAt(d, inode, k - 1) = 0
  <2> DEFINE x == k - 1
             i == (x % BLOCK_SECTOR_SIZE) + 1
  <2>1. x \in 0 .. inode.length - 1 /\ x \in Nat
    BY <1>0
  <2>2. x % BLOCK_SECTOR_SIZE \in 0 .. BLOCK_SECTOR_SIZE - 1
    BY <2>1, DivMod, Zenon
  <2>3. i \in 1 .. BLOCK_SECTOR_SIZE
    BY <1>0, <2>2
  <2>4. ZeroSector[i] = 0
    BY <2>3, Zenon DEF ZeroSector
  <2> QED
    BY <2>1, <2>4, ByteIn, Zenon DEF ByteAt
<1> QED
  BY <1>1, Zenon DEF Bytes
-----------------------------------------------------------------------------
(* What free_map_allocate() returns, other than BITMAP_ERROR, is the start *)
(* of an extent of free sectors.                                           *)
LEMMA AllocatedFree ==
    ASSUME NEW used, NEW cnt, free_map_allocate(used, cnt) # SectorCount
    PROVE  /\ free_map_allocate(used, cnt) \in Sector
           /\ Extent(free_map_allocate(used, cnt), cnt) \cap used = {}
           /\ free_map_allocate(used, cnt) + cnt <= SectorCount
<1> DEFINE S == {s \in Sector : s + cnt <= SectorCount /\ Extent(s, cnt) \cap used = {}}
<1>1. S \cup {SectorCount} \in SUBSET Nat
  BY FileSysAssumption DEF Sector
<1>2. Min(S \cup {SectorCount}) \in S \cup {SectorCount}
  BY <1>1, MinIn, Zenon
<1> QED
  BY <1>2, Zenon DEF free_map_allocate
-----------------------------------------------------------------------------
(* The sectors of the files in L, where own tells which sectors a file     *)
(* has, the lost ones l and those of the file system itself: they are      *)
(* disjoint, and make up the sectors fm that are marked used.              *)
Reserved == {FREE_MAP_SECTOR, ROOT_DIR_SECTOR}

Partition(L, own, fm, l) ==
    /\ \A x : x \in fm <=> x \in Reserved \/ x \in l \/ \E s \in L : x \in own[s]
    /\ \A s, z \in L : \A x \in own[s] : x \in own[z] => s = z
    /\ \A s \in L : \A x \in own[s] : x \notin l /\ x \notin Reserved
    /\ \A x \in l : x \notin Reserved

(* Freeing all sectors of the files in K.                                  *)
LEMMA PartitionTake ==
    ASSUME NEW L, NEW own, NEW fm, NEW l, Partition(L, own, fm, l), NEW K \in SUBSET L
    PROVE  Partition(L \ K, own, fm \ UNION {own[s] : s \in K}, l)
<1> DEFINE U == UNION {own[s] : s \in K}
<1>1. \A x : x \in U <=> \E s \in K : x \in own[s]
  BY Zenon
<1> HIDE DEF U
<1>2. \A x : x \in fm \ U <=> x \in Reserved \/ x \in l \/ \E s \in L \ K : x \in own[s]
  BY <1>1 DEF Partition
<1>3. \A s, z \in L \ K : \A x \in own[s] : x \in own[z] => s = z
  BY Zenon DEF Partition
<1>4. \A s \in L \ K : \A x \in own[s] : x \notin l /\ x \notin Reserved
  BY <1>1, Zenon DEF Partition
<1>5. \A x \in l : x \notin Reserved
  BY <1>1, Zenon DEF Partition
<1>6. Partition(L \ K, own, fm \ U, l)
  BY <1>2, <1>3, <1>4, <1>5, Zenon DEF Partition
<1> QED
  BY <1>6, Zenon DEF U

(* Losing all sectors of the files in K.                                   *)
LEMMA PartitionLose ==
    ASSUME NEW L, NEW own, NEW fm, NEW l, Partition(L, own, fm, l), NEW K \in SUBSET L
    PROVE  Partition(L \ K, own, fm, l \cup UNION {own[s] : s \in K})
<1> DEFINE U == UNION {own[s] : s \in K}
<1>1. \A x : x \in U <=> \E s \in K : x \in own[s]
  BY Zenon
<1> HIDE DEF U
<1>2. \A x : x \in fm <=> x \in Reserved \/ x \in l \cup U \/ \E s \in L \ K : x \in own[s]
  BY <1>1 DEF Partition
<1>3. \A s, z \in L \ K : \A x \in own[s] : x \in own[z] => s = z
  BY Zenon DEF Partition
<1>4. ASSUME NEW s \in L \ K, NEW x \in own[s]
      PROVE  x \notin l \cup U /\ x \notin Reserved
  <2>1. x \notin l /\ x \notin Reserved
    BY Zenon DEF Partition
  <2>2. \A z \in L : x \in own[z] => s = z
    BY Zenon DEF Partition
  <2>3. x \notin U
    BY <1>1, <2>2, Zenon
  <2> QED
    BY <2>1, <2>3, Zenon
<1>5. \A x \in l \cup U : x \notin Reserved
  BY <1>1, Zenon DEF Partition
<1>6. Partition(L \ K, own, fm, l \cup U)
  BY <1>2, <1>3, <1>4, <1>5, Zenon DEF Partition
<1> QED
  BY <1>6, Zenon DEF U

(* Making a file of lost sectors.                                          *)
LEMMA PartitionLink ==
    ASSUME NEW L, NEW own, NEW fm, NEW l, Partition(L, own, fm, l), NEW s, own[s] \subseteq l
    PROVE  Partition(L \cup {s}, own, fm, l \ own[s])
  BY Zenon DEF Partition

(* Marking free sectors X used, with no file to own them.                  *)
LEMMA PartitionAllocate ==
    ASSUME NEW L, NEW own, NEW fm, NEW l, Partition(L, own, fm, l), NEW X, X \cap fm = {}
    PROVE  Partition(L, own, fm \cup X, l \cup X)
  BY Zenon DEF Partition

(* Freeing sectors X that were lost.                                       *)
LEMMA PartitionFree ==
    ASSUME NEW L, NEW own, NEW fm, NEW l, Partition(L, own, fm, l), NEW X, X \subseteq l
    PROVE  Partition(L, own, fm \ X, l \ X)
  BY Zenon DEF Partition

(* A change to sectors no file of L owns.                                  *)
LEMMA PartitionSame ==
    ASSUME NEW L, NEW own, NEW fm, NEW l, Partition(L, own, fm, l),
           NEW own2, \A s \in L : own2[s] = own[s]
    PROVE  Partition(L, own2, fm, l)
  BY Zenon DEF Partition
-----------------------------------------------------------------------------
(* The inductive invariant.                                                *)
Entry == [in_use : BOOLEAN, name : Name \cup {BadName, Program, Null}, sector : Sector]
Descriptor == [in_use : BOOLEAN, fd : Int, file : FileId \cup {Null}]

TypeOK ==
    /\ inode_disk \in [Sector -> InodeDisk \cup {Null}]
    /\ dir \in [1 .. DirSlots -> Entry]
    /\ open_inodes \in [Sector -> Inode \cup {Null}]
    /\ files \in [FileId -> File \cup {Null}]
    /\ descriptors \in [Proc -> [0 .. CAPACITY -> Descriptor]]
    /\ executable \in [Proc -> FileId \cup {Null}]
    /\ exiting \in SUBSET Proc
    /\ filesys_lock \in Proc \cup {Null}
    /\ creating \in Creation \cup {Null}
    /\ removing \in Sector \cup {Null}

(* No two entries lead to the same inode; an open inode is in the          *)
(* directory until it is removed; a create or a remove holds the lock.     *)
LinksOK ==
    /\ \A i, j \in 1 .. DirSlots :
          dir[i].in_use /\ dir[j].in_use /\ dir[i].sector = dir[j].sector => i = j
    /\ \A s \in Sector : open_inodes[s] # Null => (open_inodes[s].removed <=> s \notin Linked)
    /\ creating # Null => filesys_lock # Null /\ removing = Null
    /\ removing # Null => /\ filesys_lock # Null
                          /\ open_inodes[removing] # Null /\ open_inodes[removing].removed

Own == [s \in Sector |-> Owned(s)]

(* What a create has allocated belongs to nobody yet.                      *)
SectorsOK ==
    /\ Partition(Live, Own, free_map, lost)
    /\ \A s \in Live : inode_disk[s] # Null
    /\ creating # Null => /\ creating.sector \in lost
                          /\ creating.inode => /\ inode_disk[creating.sector] # Null
                                               /\ Own[creating.sector] \subseteq lost

Openers == [s \in Sector |-> Of(OpenFiles, s)]
Deniers == [s \in Sector |-> Denying(Of(OpenFiles, s))]

CountsOK ==
    \A s \in Sector :
        /\ open_inodes[s] = Null => Openers[s] = {} /\ removing # s
        /\ open_inodes[s] # Null =>
              /\ open_inodes[s].open_cnt = Cardinality(Openers[s]) + (IF removing = s THEN 1 ELSE 0)
              /\ open_inodes[s].deny_write_cnt = Cardinality(Deniers[s])

(* The file each handle of a process leads to, the one past its            *)
(* descriptors being its executable.                                       *)
Target == [p \in Proc |-> [i \in 0 .. CAPACITY + 1 |->
              IF i = CAPACITY + 1 THEN executable[p]
              ELSE IF descriptors[p][i].in_use THEN descriptors[p][i].file ELSE Null]]

(* Every handle of T leads to a file of F, every such file has one handle. *)
LeadsTo(T, F) ==
    /\ \A p \in Proc, i \in 0 .. CAPACITY + 1 : T[p][i] # Null => T[p][i] \in F
    /\ \A p, q \in Proc, i, j \in 0 .. CAPACITY + 1 :
          T[p][i] = T[q][j] /\ T[p][i] # Null => p = q /\ i = j
    /\ \A f \in F : \E p \in Proc, i \in 0 .. CAPACITY + 1 : T[p][i] = f

TargetsOK == LeadsTo(Target, OpenFiles)

HandlesOK ==
    /\ TargetsOK
    /\ \A p \in Proc, i \in 0 .. CAPACITY : descriptors[p][i].in_use => descriptors[p][i].file # Null
    /\ \A p \in exiting : executable[p] # Null

FileSysOK == TypeOK /\ LinksOK /\ SectorsOK /\ CountsOK /\ HandlesOK
-----------------------------------------------------------------------------
(* An entry that lookup() finds is in use.                                 *)
LEMMA LookupFinds ==
    ASSUME TypeOK, NEW name, lookup(name) # 0
    PROVE  /\ lookup(name) \in 1 .. DirSlots /\ dir[lookup(name)].in_use
           /\ dir[lookup(name)].name = name
           /\ dir_lookup(name) \in Linked /\ dir_lookup(name) \in Sector
<1> DEFINE I == {i \in 1 .. DirSlots : dir[i].in_use /\ dir[i].name = name}
<1>1. I # {} /\ lookup(name) = Min(I)
  BY Zenon DEF lookup, FirstSlot
<1>2. I \in SUBSET Nat
  BY FileSysAssumption
<1>3. lookup(name) \in I
  BY <1>1, <1>2, MinIn, Zenon
<1>4. /\ lookup(name) \in 1 .. DirSlots /\ dir[lookup(name)].in_use
      /\ dir[lookup(name)].name = name
  BY <1>3, Zenon
<1>5. dir[lookup(name)] \in Entry
  BY <1>4, Zenon DEF TypeOK
<1> QED
  BY <1>4, <1>5, Zenon DEF Linked, dir_lookup, Entry

(* The slot that dir_add() uses is free.                                   *)
LEMMA FreeSlotFree ==
    ASSUME TypeOK, FreeSlot # 0
    PROVE  FreeSlot \in 1 .. DirSlots /\ ~dir[FreeSlot].in_use
<1> DEFINE I == {i \in 1 .. DirSlots : ~dir[i].in_use}
<1>1. I # {} /\ FreeSlot = Min(I)
  BY Zenon DEF FreeSlot, FirstSlot
<1>2. I \in SUBSET Nat
  BY FileSysAssumption
<1>3. FreeSlot \in I
  BY <1>1, <1>2, MinIn, Zenon
<1> QED
  BY <1>3, Zenon

(* A new descriptor was not in use ...                                     *)
LEMMA NewDescriptorFree ==
    ASSUME NEW p, get_new_file_descriptor(p) <= CAPACITY
    PROVE  /\ get_new_file_descriptor(p) \in 0 .. CAPACITY
           /\ ~descriptors[p][get_new_file_descriptor(p)].in_use
<1> DEFINE I == {i \in 0 .. CAPACITY : ~descriptors[p][i].in_use}
<1>1. I \cup {CAPACITY + 1} \in SUBSET Nat
  BY FileSysAssumption
<1>2. Min(I \cup {CAPACITY + 1}) \in I \cup {CAPACITY + 1}
  BY <1>1, MinIn, Zenon
<1>3. get_new_file_descriptor(p) \in I \/ get_new_file_descriptor(p) = CAPACITY + 1
  BY <1>2, Zenon DEF get_new_file_descriptor
<1>4. ~(CAPACITY + 1 <= CAPACITY)
  BY FileSysAssumption
<1> QED
  BY <1>3, <1>4, Zenon

(* ... and one that is looked up is in use.                                *)
LEMMA DescriptorInUse ==
    ASSUME NEW p, NEW fd, get_file_descriptor(p, fd) <= CAPACITY
    PROVE  /\ get_file_descriptor(p, fd) \in 0 .. CAPACITY
           /\ descriptors[p][get_file_descriptor(p, fd)].in_use
<1> DEFINE I == {i \in 0 .. CAPACITY : descriptors[p][i].in_use /\ descriptors[p][i].fd = 2 + i}
<1>1. I \cup {CAPACITY + 1} \in SUBSET Nat
  BY FileSysAssumption
<1>2. Min(I \cup {CAPACITY + 1}) \in I \cup {CAPACITY + 1}
  BY <1>1, MinIn, Zenon
<1>3. get_file_descriptor(p, fd) \in I \/ get_file_descriptor(p, fd) = CAPACITY + 1
  BY <1>2, Zenon DEF get_file_descriptor
<1>4. ~(CAPACITY + 1 <= CAPACITY)
  BY FileSysAssumption
<1> QED
  BY <1>3, <1>4, Zenon

(* A struct file from the heap is not one in use.                          *)
LEMMA FreeFileFree ==
    ASSUME FreeFiles # {}
    PROVE  Min(FreeFiles) \in FileId /\ files[Min(FreeFiles)] = Null
<1>1. FreeFiles \in SUBSET Nat
  BY FileSysAssumption DEF FreeFiles, FileId
<1> QED
  BY <1>1, MinIn, Zenon DEF FreeFiles

(* The files that have an inode open are finitely many.                    *)
LEMMA OpenersFinite ==
    ASSUME NEW s \in Sector
    PROVE  /\ IsFiniteSet(Openers[s]) /\ Cardinality(Openers[s]) \in Nat
           /\ IsFiniteSet(Deniers[s]) /\ Cardinality(Deniers[s]) \in Nat
<1>1. IsFiniteSet(FileId)
  BY FileSysAssumption, FS_Interval DEF FileId
<1>2. Openers[s] \in SUBSET FileId /\ Deniers[s] \in SUBSET FileId
  BY Zenon DEF Openers, Deniers, OpenFiles, Of, Denying
<1>3. IsFiniteSet(Openers[s]) /\ IsFiniteSet(Deniers[s])
  BY <1>1, <1>2, FS_Subset, Zenon
<1> QED
  BY <1>3, FS_CardinalityType, Zenon
-----------------------------------------------------------------------------
(* How steps keep SectorsOK: the parts of it, in the next state.           *)
LEMMA SectorsNext ==
    ASSUME Partition(Live', Own', free_map', lost'), \A s \in Live' : inode_disk'[s] # Null,
           creating' = Null
    PROVE  SectorsOK'
  BY Zenon DEF SectorsOK, Partition

(* A step that leaves the disk and the set of live files alone.            *)
LEMMA SectorsSame ==
    ASSUME SectorsOK, Live' = Live, UNCHANGED <<free_map, inode_disk, lost, creating>>
    PROVE  SectorsOK'
<1>1. Own' = Own
  BY Zenon DEF Own, Owned, InodeExtent
<1> QED
  BY <1>1, Zenon DEF SectorsOK, Partition

(* A live file owns the sector its inode is in.                            *)
LEMMA LiveSectors ==
    ASSUME TypeOK PROVE Live \subseteq Sector /\ Linked \subseteq Sector /\ \A s \in Sector : s \in Own[s]
<1>1. \A i \in 1 .. DirSlots : dir[i] \in Entry
  BY Zenon DEF TypeOK
<1>2. Linked \subseteq Sector
  BY <1>1, Zenon DEF Linked, Entry
<1> QED
  BY <1>2, Zenon DEF Live, Own, Owned

(* Who has an inode open, file by file.                                    *)
LEMMA OpenersMeans ==
    \A s \in Sector : \A f :
        /\ f \in Openers[s] <=> f \in FileId /\ files[f] # Null /\ files[f].sector = s
        /\ f \in Deniers[s] <=> f \in Openers[s] /\ files[f].deny_write
  BY Zenon DEF Openers, Deniers, OpenFiles, Of, Denying

(* The same in the next state.                                             *)
LEMMA OpenersMeansNext ==
    \A s \in Sector : \A f :
        /\ f \in Openers'[s] <=> f \in FileId /\ files'[f] # Null /\ files'[f].sector = s
        /\ f \in Deniers'[s] <=> f \in Openers'[s] /\ files'[f].deny_write
  BY Zenon DEF Openers, Deniers, OpenFiles, Of, Denying

(* A step that makes f a file with the inode in sector s.                  *)
LEMMA OpenersAdd ==
    ASSUME NEW s \in Sector, NEW f \in FileId, files[f] = Null,
           files'[f] # Null, files'[f].sector = s, \A g \in FileId : g # f => files'[g] = files[g]
    PROVE  /\ \A z \in Sector : z # s => Openers'[z] = Openers[z] /\ Deniers'[z] = Deniers[z]
           /\ Openers'[s] = Openers[s] \cup {f}
           /\ Deniers'[s] = IF files'[f].deny_write THEN Deniers[s] \cup {f} ELSE Deniers[s]
           /\ f \notin Openers[s] /\ f \notin Deniers[s]
<1>1. ASSUME NEW z \in Sector, NEW g
      PROVE  /\ g \in Openers'[z] <=> g \in Openers[z] \/ (z = s /\ g = f)
             /\ g \in Deniers'[z] <=> g \in Deniers[z] \/ (z = s /\ g = f /\ files'[f].deny_write)
  <2>1. /\ g \in Openers[z] <=> g \in FileId /\ files[g] # Null /\ files[g].sector = z
        /\ g \in Deniers[z] <=> g \in Openers[z] /\ files[g].deny_write
    BY OpenersMeans, Zenon
  <2>2. /\ g \in Openers'[z] <=> g \in FileId /\ files'[g] # Null /\ files'[g].sector = z
        /\ g \in Deniers'[z] <=> g \in Openers'[z] /\ files'[g].deny_write
    BY OpenersMeansNext, Zenon
  <2>3. CASE g = f
    BY <2>1, <2>2, <2>3, Zenon
  <2>4. CASE g # f
    BY <2>1, <2>2, <2>4, Zenon
  <2> QED
    BY <2>3, <2>4, Zenon
<1>2. ASSUME NEW z \in Sector, z # s PROVE Openers'[z] = Openers[z] /\ Deniers'[z] = Deniers[z]
  BY <1>1, <1>2, Zenon
<1>3. Openers'[s] = Openers[s] \cup {f}
  BY <1>1, Zenon
<1>4. Deniers'[s] = IF files'[f].deny_write THEN Deniers[s] \cup {f} ELSE Deniers[s]
  <2>1. ASSUME files'[f].deny_write PROVE Deniers'[s] = Deniers[s] \cup {f}
    <3>1. \A g : g \in Deniers'[s] <=> g \in Deniers[s] \/ g = f
      BY <1>1, <2>1
    <3> QED
      BY <3>1, Zenon
  <2>2. ASSUME ~files'[f].deny_write PROVE Deniers'[s] = Deniers[s]
    BY <1>1, <2>2, Zenon
  <2> QED
    BY <2>1, <2>2, Zenon
<1>5. f \notin Openers[s] /\ f \notin Deniers[s]
  BY OpenersMeans, Zenon
<1> QED
  BY <1>2, <1>3, <1>4, <1>5, Zenon
-----------------------------------------------------------------------------
(* inode_open() of a file in the directory counts one opener more.         *)
LEMMA InodeOpened ==
    ASSUME FileSysOK, NEW s \in Linked
    PROVE  \E r \in Inode :
              /\ inode_open(open_inodes, s) = [open_inodes EXCEPT ![s] = r]
              /\ r.open_cnt = Cardinality(Openers[s]) + 1 /\ ~r.removed
              /\ r.deny_write_cnt = Cardinality(Deniers[s])
<1>0. s \in Sector /\ open_inodes \in [Sector -> Inode \cup {Null}]
  BY LiveSectors, Zenon DEF FileSysOK, TypeOK
<1>1. CASE open_inodes[s] = Null
  <2> DEFINE r == [open_cnt |-> 1, removed |-> FALSE, deny_write_cnt |-> 0]
  <2>1. Openers[s] = {} /\ Deniers[s] = {}
    BY <1>0, <1>1, OpenersMeans, Zenon DEF FileSysOK, CountsOK
  <2>2. Cardinality(Openers[s]) = 0 /\ Cardinality(Deniers[s]) = 0
    BY <2>1, FS_EmptySet, Zenon
  <2>3. /\ r \in Inode /\ r.open_cnt = Cardinality(Openers[s]) + 1 /\ ~r.removed
        /\ r.deny_write_cnt = Cardinality(Deniers[s])
    BY <2>2 DEF Inode
  <2>4. inode_open(open_inodes, s) = [open_inodes EXCEPT ![s] = r]
    BY <1>0, <1>1, Zenon DEF inode_open
  <2> HIDE DEF r
  <2> QED
    BY <2>3, <2>4, Zenon
<1>2. CASE open_inodes[s] # Null
  <2> DEFINE o == open_inodes[s]
             r == [o EXCEPT !.open_cnt = @ + 1]
  <2>1. o \in Inode
    BY <1>0, <1>2, Zenon
  <2>2. ~o.removed /\ removing # s
    BY <1>0, <1>2, NullAssumption, Zenon DEF FileSysOK, LinksOK
  <2>3. o.open_cnt = Cardinality(Openers[s]) + 0 /\ o.deny_write_cnt = Cardinality(Deniers[s])
    BY <1>0, <1>2, <2>2, Zenon DEF FileSysOK, CountsOK
  <2>4. o.open_cnt = Cardinality(Openers[s])
    BY <1>0, <2>3, OpenersFinite
  <2>5. inode_open(open_inodes, s) = [open_inodes EXCEPT ![s] = r]
    <3> DEFINE v == IF o = Null THEN [open_cnt |-> 1, removed |-> FALSE, deny_write_cnt |-> 0] ELSE r
    <3>1. inode_open(open_inodes, s) = [open_inodes EXCEPT ![s] = v]
      BY Zenon DEF inode_open, inode_reopen
    <3>2. v = r
      BY <1>2, Zenon
    <3> QED
      BY <3>1, <3>2, Zenon
  <2> HIDE DEF o
  <2>6. /\ r \in Inode /\ r.open_cnt = o.open_cnt + 1 /\ r.removed = o.removed
        /\ r.deny_write_cnt = o.deny_write_cnt
    BY <2>1 DEF Inode
  <2> HIDE DEF r
  <2> QED
    BY <2>2, <2>3, <2>4, <2>5, <2>6, Zenon
<1> QED
  BY <1>1, <1>2, Zenon

(* filesys_open() and open_process_executable(): f becomes a file with the *)
(* inode in sector s, and r is that inode afterwards.                      *)
LEMMA FileOpened ==
    ASSUME FileSysOK, filesys_lock = Null, NEW s \in Linked, NEW f \in FileId, files[f] = Null,
           NEW deny \in BOOLEAN, NEW r \in Inode,
           r.open_cnt = Cardinality(Openers[s]) + 1, ~r.removed,
           r.deny_write_cnt = Cardinality(Deniers[s]) + (IF deny THEN 1 ELSE 0),
           open_inodes' = [open_inodes EXCEPT ![s] = r],
           files' = [files EXCEPT ![f] = [sector |-> s, pos |-> 0, deny_write |-> deny]],
           UNCHANGED <<free_map, inode_disk, dir, filesys_lock, creating, removing, lost>>
    PROVE  /\ open_inodes' \in [Sector -> Inode \cup {Null}] /\ files' \in [FileId -> File \cup {Null}]
           /\ LinksOK' /\ SectorsOK' /\ CountsOK'
<1> DEFINE file == [sector |-> s, pos |-> 0, deny_write |-> deny]
<1>0. /\ s \in Sector /\ open_inodes \in [Sector -> Inode \cup {Null}]
      /\ files \in [FileId -> File \cup {Null}] /\ r # Null /\ removing = Null /\ creating = Null
  BY LiveSectors, NullAssumption, Zenon DEF FileSysOK, TypeOK, LinksOK
<1>1. file \in File /\ file # Null /\ file.sector = s /\ file.deny_write = deny
  BY <1>0, NullAssumption DEF File
<1> HIDE DEF file
<1>2. files' = [files EXCEPT ![f] = file]
  BY Zenon DEF file
<1>3. files' \in [FileId -> File \cup {Null}] /\ open_inodes' \in [Sector -> Inode \cup {Null}]
  BY <1>0, <1>1, <1>2, Zenon
<1>4. /\ \A z \in Sector : open_inodes'[z] = IF z = s THEN r ELSE open_inodes[z]
      /\ files'[f] = file /\ \A g \in FileId : g # f => files'[g] = files[g]
      /\ files'[f] # Null /\ files'[f].sector = s /\ files'[f].deny_write = deny
  BY <1>0, <1>1, <1>2, Zenon
<1>5. Linked' = Linked /\ Live' = Live
  <2>1. Linked' = Linked
    BY Zenon DEF Linked
  <2>2. \A z \in Sector : z \in Linked \/ (open_inodes'[z] # Null <=> open_inodes[z] # Null)
    BY <1>0, <1>4, Zenon
  <2> QED
    BY <2>1, <2>2, Zenon DEF Live
<1>6. LinksOK'
  BY <1>0, <1>4, <1>5, Zenon DEF FileSysOK, LinksOK
<1>7. SectorsOK'
  BY <1>5, SectorsSame, Zenon DEF FileSysOK
<1>8. /\ \A z \in Sector : z # s => Openers'[z] = Openers[z] /\ Deniers'[z] = Deniers[z]
      /\ Openers'[s] = Openers[s] \cup {f} /\ f \notin Openers[s] /\ f \notin Deniers[s]
      /\ Deniers'[s] = IF deny THEN Deniers[s] \cup {f} ELSE Deniers[s]
  BY <1>0, <1>4, OpenersAdd, Zenon
<1>9. /\ Cardinality(Openers'[s]) = Cardinality(Openers[s]) + 1
      /\ Cardinality(Deniers'[s]) = Cardinality(Deniers[s]) + (IF deny THEN 1 ELSE 0)
  <2>0. IsFiniteSet(Openers[s]) /\ IsFiniteSet(Deniers[s])
    BY <1>0, OpenersFinite, Zenon
  <2>1. Cardinality(Openers'[s]) = Cardinality(Openers[s]) + 1
    BY <1>8, <2>0, FS_AddElement, Zenon
  <2>2. CASE deny
    <3>1. Cardinality(Deniers[s] \cup {f}) = Cardinality(Deniers[s]) + 1
      BY <1>8, <2>0, FS_AddElement, Zenon
    <3> QED
      BY <1>8, <2>1, <2>2, <3>1, Zenon
  <2>3. CASE ~deny
    <3>1. Cardinality(Deniers[s]) = Cardinality(Deniers[s]) + 0
      BY <1>0, OpenersFinite
    <3> QED
      BY <1>8, <2>1, <2>3, <3>1, Zenon
  <2> QED
    BY <2>2, <2>3, Zenon
<1>10. r.open_cnt = Cardinality(Openers'[s]) + 0
  BY <1>0, <1>9, OpenersFinite
<1>11. CountsOK'
  <2> SUFFICES ASSUME NEW z \in Sector
               PROVE  /\ open_inodes'[z] = Null => Openers'[z] = {} /\ removing' # z
                      /\ open_inodes'[z] # Null =>
                           /\ open_inodes'[z].open_cnt = Cardinality(Openers'[z])
                                                         + (IF removing' = z THEN 1 ELSE 0)
                           /\ open_inodes'[z].deny_write_cnt = Cardinality(Deniers'[z])
    BY Zenon DEF CountsOK
  <2>1. removing' # z /\ removing # z
    BY <1>0, NullAssumption, Zenon
  <2>2. CASE z = s
    BY <1>0, <1>4, <1>9, <1>10, <2>1, <2>2, Zenon
  <2>3. CASE z # s
    BY <1>0, <1>4, <1>8, <2>1, <2>3 DEF FileSysOK, CountsOK
  <2> QED
    BY <2>2, <2>3, Zenon
<1> QED
  BY <1>3, <1>6, <1>7, <1>11, Zenon

(* A new handle leads to a new file f.                                     *)
LEMMA TargetOpened ==
    ASSUME NEW T, NEW F, LeadsTo(T, F), Null \notin F, NEW f, f \notin F, f # Null,
           NEW p \in Proc, NEW i \in 0 .. CAPACITY + 1, T[p][i] = Null,
           NEW T2, T2[p][i] = f,
           \A q \in Proc, j \in 0 .. CAPACITY + 1 : (q = p /\ j = i) \/ T2[q][j] = T[q][j]
    PROVE  LeadsTo(T2, F \cup {f})
<1>1. \A q \in Proc, j \in 0 .. CAPACITY + 1 : T2[q][j] # Null => T2[q][j] \in F \cup {f}
  BY DEF LeadsTo
<1>2. ASSUME NEW q \in Proc, NEW j \in 0 .. CAPACITY + 1, T2[q][j] = f PROVE q = p /\ j = i
  BY <1>2 DEF LeadsTo
<1>3. ASSUME NEW q \in Proc, NEW t \in Proc, NEW j \in 0 .. CAPACITY + 1, NEW k \in 0 .. CAPACITY + 1,
             T2[q][j] = T2[t][k], T2[q][j] # Null
      PROVE  q = t /\ j = k
  <2>1. CASE T2[q][j] = f
    BY <1>2, <1>3, <2>1, Zenon
  <2>2. CASE T2[q][j] # f
    <3>1. T2[q][j] = T[q][j] /\ T2[t][k] = T[t][k]
      BY <1>3, <2>2, Zenon
    <3>2. T[q][j] = T[t][k] /\ T[q][j] # Null
      BY <1>3, <3>1, Zenon
    <3> QED
      BY <3>2 DEF LeadsTo
  <2> QED
    BY <2>1, <2>2, Zenon
<1>4. ASSUME NEW g \in F \cup {f} PROVE \E q \in Proc, j \in 0 .. CAPACITY + 1 : T2[q][j] = g
  <2>1. CASE g = f
    BY <2>1, Zenon
  <2>2. CASE g # f
    <3>1. PICK q \in Proc : \E j \in 0 .. CAPACITY + 1 : T[q][j] = g
      BY <1>4, <2>2 DEF LeadsTo
    <3>2. PICK j \in 0 .. CAPACITY + 1 : T[q][j] = g
      BY <3>1, Zenon
    <3>3. ~(q = p /\ j = i)
      BY <1>4, <2>2, <3>2, Zenon
    <3> QED
      BY <3>2, <3>3, Zenon
  <2> QED
    BY <2>1, <2>2, Zenon
<1> QED
  BY <1>1, <1>3, <1>4 DEF LeadsTo

(* The handles that led to the closed files K no longer lead anywhere.     *)
LEMMA TargetsClosed ==
    ASSUME NEW T, NEW F, LeadsTo(T, F), Null \notin F, NEW K \in SUBSET F,
           NEW T2,
           \A q \in Proc, j \in 0 .. CAPACITY + 1 :
              /\ T[q][j] \in K => T2[q][j] = Null
              /\ T[q][j] \notin K => T2[q][j] = T[q][j]
    PROVE  LeadsTo(T2, F \ K)
<1>1. \A q \in Proc, j \in 0 .. CAPACITY + 1 : T2[q][j] # Null =>
         T2[q][j] = T[q][j] /\ T[q][j] \notin K
  BY Zenon
<1>2. \A q \in Proc, j \in 0 .. CAPACITY + 1 : T2[q][j] # Null => T2[q][j] \in F \ K
  BY <1>1 DEF LeadsTo
<1>3. ASSUME NEW q \in Proc, NEW t \in Proc, NEW j \in 0 .. CAPACITY + 1, NEW k \in 0 .. CAPACITY + 1,
             T2[q][j] = T2[t][k], T2[q][j] # Null
      PROVE  q = t /\ j = k
  <2>1. T2[q][j] = T[q][j] /\ T2[t][k] = T[t][k]
    BY <1>1, <1>3, Zenon
  <2>2. T[q][j] = T[t][k] /\ T[q][j] # Null
    BY <1>3, <2>1, Zenon
  <2> QED
    BY <2>2 DEF LeadsTo
<1>4. ASSUME NEW g \in F \ K PROVE \E q \in Proc, j \in 0 .. CAPACITY + 1 : T2[q][j] = g
  <2>1. PICK q \in Proc : \E j \in 0 .. CAPACITY + 1 : T[q][j] = g
    BY DEF LeadsTo
  <2>2. PICK j \in 0 .. CAPACITY + 1 : T[q][j] = g
    BY <2>1, Zenon
  <2> QED
    BY <2>2, Zenon
<1> QED
  BY <1>2, <1>3, <1>4 DEF LeadsTo
-----------------------------------------------------------------------------
(* file_close() of the files F takes them from the openers.                *)
LEMMA OpenersClosed ==
    ASSUME NEW F \in SUBSET OpenFiles,
           files' = [f \in FileId |-> IF f \in F THEN Null ELSE files[f]],
           NEW z \in Sector
    PROVE  /\ Openers'[z] = Openers[z] \ Of(F, z) /\ Of(F, z) \in SUBSET Openers[z]
           /\ Deniers'[z] = Deniers[z] \ Denying(Of(F, z))
           /\ Denying(Of(F, z)) \in SUBSET Deniers[z]
<1>1. \A g : /\ g \in F => g \in FileId /\ files[g] # Null
             /\ g \in Of(F, z) <=> g \in F /\ files[g].sector = z
             /\ g \in Denying(Of(F, z)) <=> g \in Of(F, z) /\ files[g].deny_write
  BY Zenon DEF OpenFiles, Of, Denying
<1>2. ASSUME NEW g
      PROVE  /\ g \in Openers'[z] <=> g \in Openers[z] /\ g \notin Of(F, z)
             /\ g \in Deniers'[z] <=> g \in Deniers[z] /\ g \notin Denying(Of(F, z))
  <2>1. /\ g \in Openers[z] <=> g \in FileId /\ files[g] # Null /\ files[g].sector = z
        /\ g \in Deniers[z] <=> g \in Openers[z] /\ files[g].deny_write
    BY OpenersMeans, Zenon
  <2>2. /\ g \in Openers'[z] <=> g \in FileId /\ files'[g] # Null /\ files'[g].sector = z
        /\ g \in Deniers'[z] <=> g \in Openers'[z] /\ files'[g].deny_write
    BY OpenersMeansNext, Zenon
  <2>3. CASE g \in F
    <3>1. files'[g] = Null /\ g \in FileId
      BY <1>1, <2>3, Zenon
    <3> QED
      BY <1>1, <2>1, <2>2, <2>3, <3>1, Zenon
  <2>4. CASE g \notin F
    <3>1. g \in FileId => files'[g] = files[g]
      BY <2>4, Zenon
    <3> QED
      BY <1>1, <2>1, <2>2, <2>4, <3>1, Zenon
  <2> QED
    BY <2>3, <2>4, Zenon
<1>3. \A g : /\ g \in Of(F, z) => g \in Openers[z]
             /\ g \in Denying(Of(F, z)) => g \in Deniers[z]
  BY <1>1, OpenersMeans, Zenon
<1>4. Openers'[z] = Openers[z] \ Of(F, z)
  BY <1>2, Zenon
<1>5. Deniers'[z] = Deniers[z] \ Denying(Of(F, z))
  BY <1>2, Zenon
<1> QED
  BY <1>3, <1>4, <1>5, Zenon

(* Taking some of its elements from a finite set.                          *)
LEMMA CountLess ==
    ASSUME NEW S, IsFiniteSet(S), NEW T \in SUBSET S
    PROVE  /\ Cardinality(S \ T) = Cardinality(S) - Cardinality(T)
           /\ Cardinality(T) \in Nat /\ Cardinality(S) \in Nat
           /\ Cardinality(S) = Cardinality(T) => S \ T = {}
<1>1. S \cap T = T
  BY Zenon
<1>2. Cardinality(S \ T) = Cardinality(S) - Cardinality(S \cap T)
  BY FS_Difference, Zenon
<1>3. IsFiniteSet(T) /\ (Cardinality(S) = Cardinality(T) => S = T)
  BY FS_Subset, Zenon
<1> QED
  BY <1>1, <1>2, <1>3, FS_CardinalityType, Zenon

(* An inode with a openers less, b of which denied writes.                 *)
LEMMA InodeLess ==
    ASSUME NEW o \in Inode, NEW a \in Int, NEW b \in Int
    PROVE  LET r == [o EXCEPT !.open_cnt = @ - a, !.deny_write_cnt = @ - b]
           IN /\ r \in Inode /\ r.removed = o.removed
              /\ r.open_cnt = o.open_cnt - a /\ r.deny_write_cnt = o.deny_write_cnt - b
<1> DEFINE q == [o EXCEPT !.open_cnt = @ - a]
           n == o.deny_write_cnt - b
           r == [o EXCEPT !.open_cnt = @ - a, !.deny_write_cnt = @ - b]
<1>1. q \in Inode /\ n \in Int /\ r = [q EXCEPT !.deny_write_cnt = n]
  BY DEF Inode
<1>2. r.removed = o.removed /\ r.open_cnt = o.open_cnt - a /\ r.deny_write_cnt = o.deny_write_cnt - b
  BY DEF Inode
<1>3. r \in Inode
  <2> HIDE DEF q, n, r
  <2> QED
    BY <1>1 DEF Inode
<1> QED
  BY <1>2, <1>3, Zenon

(* The inode in sector z after file_close() of the files F.                *)
LEMMA InodeClosed ==
    ASSUME FileSysOK, removing = Null, NEW F \in SUBSET OpenFiles, NEW z \in Sector
    PROVE  LET o == open_inodes[z]
               r == InodesAfterClose(F)[z]
           IN /\ r \in Inode \cup {Null}
              /\ r = Null => Openers[z] \ Of(F, z) = {}
              /\ r # Null => /\ o # Null /\ r.removed = o.removed
                             /\ r.open_cnt = Cardinality(Openers[z] \ Of(F, z))
                             /\ r.deny_write_cnt = Cardinality(Deniers[z] \ Denying(Of(F, z)))
<1> DEFINE o == open_inodes[z]
           r == InodesAfterClose(F)[z]
           k == Of(F, z)
           d == Denying(k)
<1>1. /\ o \in Inode \cup {Null} /\ removing # z
      /\ o = Null => Openers[z] = {}
      /\ o # Null => o.open_cnt = Cardinality(Openers[z]) + 0
                     /\ o.deny_write_cnt = Cardinality(Deniers[z])
  BY NullAssumption, Zenon DEF FileSysOK, TypeOK, CountsOK
<1>2. k \in SUBSET Openers[z] /\ d \in SUBSET Deniers[z]
  <2>1. \A g : g \in k <=> g \in F /\ files[g].sector = z
    BY Zenon DEF Of
  <2>2. \A g : g \in d <=> g \in k /\ files[g].deny_write
    BY Zenon DEF Denying
  <2>3. \A g \in F : g \in FileId /\ files[g] # Null
    BY Zenon DEF OpenFiles
  <2> HIDE DEF k, d
  <2> QED
    BY <2>1, <2>2, <2>3, OpenersMeans, Zenon
<1>3. r = IF k = {} THEN o ELSE IF o.open_cnt = Cardinality(k) THEN Null
          ELSE [o EXCEPT !.open_cnt = @ - Cardinality(k), !.deny_write_cnt = @ - Cardinality(d)]
  BY Zenon DEF InodesAfterClose
<1> HIDE DEF o, r, k, d
<1>4. /\ Cardinality(Openers[z] \ k) = Cardinality(Openers[z]) - Cardinality(k)
      /\ Cardinality(k) \in Nat /\ Cardinality(Openers[z]) \in Nat
      /\ Cardinality(Openers[z]) = Cardinality(k) => Openers[z] \ k = {}
  <2>1. IsFiniteSet(Openers[z]) /\ k \in SUBSET Openers[z]
    BY <1>2, OpenersFinite, Zenon
  <2> QED
    BY <2>1, CountLess, Zenon
<1>5. /\ Cardinality(Deniers[z] \ d) = Cardinality(Deniers[z]) - Cardinality(d)
      /\ Cardinality(d) \in Nat /\ Cardinality(Deniers[z]) \in Nat
  <2>1. IsFiniteSet(Deniers[z]) /\ d \in SUBSET Deniers[z]
    BY <1>2, OpenersFinite, Zenon
  <2>2. Cardinality(Deniers[z] \ d) = Cardinality(Deniers[z]) - Cardinality(d)
    BY <2>1, CountLess, Zenon
  <2>3. Cardinality(Deniers[z]) \in Nat
    BY OpenersFinite, Zenon
  <2>4. Cardinality(d) \in Nat
    BY <2>1, CountLess, Zenon
  <2> QED
    BY <2>2, <2>3, <2>4, Zenon
<1>6. o # Null => o.open_cnt = Cardinality(Openers[z])
  BY <1>1, <1>4
<1>7. CASE k = {}
  <2>1. r = o /\ d = {} /\ Openers[z] \ k = Openers[z] /\ Deniers[z] \ d = Deniers[z]
    <3>1. d = {}
      BY <1>7, Zenon DEF d, Denying
    <3> QED
      BY <1>3, <1>7, <3>1, Zenon
  <2> QED
    BY <1>1, <1>6, <2>1, Zenon DEF o, r, k, d
<1>8. CASE k # {} /\ o.open_cnt = Cardinality(k)
  <2>1. r = Null /\ o # Null
    BY <1>1, <1>2, <1>3, <1>8, Zenon
  <2> QED
    BY <1>4, <1>6, <1>8, <2>1, Zenon DEF o, r, k, d
<1>9. CASE k # {} /\ o.open_cnt # Cardinality(k)
  <2>1. o \in Inode /\ o # Null
    BY <1>1, <1>2, <1>9, Zenon
  <2>2. r = [o EXCEPT !.open_cnt = @ - Cardinality(k), !.deny_write_cnt = @ - Cardinality(d)]
    BY <1>3, <1>9, Zenon
  <2>3. /\ r \in Inode /\ r.removed = o.removed
        /\ r.open_cnt = o.open_cnt - Cardinality(k)
        /\ r.deny_write_cnt = o.deny_write_cnt - Cardinality(d)
    <3>1. Cardinality(k) \in Int /\ Cardinality(d) \in Int
      BY <1>4, <1>5
    <3> QED
      BY <2>1, <2>2, <3>1, InodeLess, Zenon
  <2>4. r # Null
    BY <2>3, NullAssumption, Zenon
  <2> QED
    BY <1>1, <1>4, <1>5, <1>6, <2>1, <2>3, <2>4, Zenon DEF o, r, k, d
<1> QED
  BY <1>7, <1>8, <1>9, Zenon

(* file_close() of the files F keeps the invariant but for the handles.    *)
LEMMA FilesClosed ==
    ASSUME FileSysOK, removing = Null, creating = Null, NEW F \in SUBSET OpenFiles, file_close(F),
           UNCHANGED <<inode_disk, dir, filesys_lock, creating, removing, lost>>
    PROVE  /\ open_inodes' \in [Sector -> Inode \cup {Null}] /\ files' \in [FileId -> File \cup {Null}]
           /\ LinksOK' /\ SectorsOK' /\ CountsOK' /\ OpenFiles' = OpenFiles \ F
           /\ Live' \subseteq Live
<1> DEFINE K == {z \in Sector : /\ open_inodes[z] # Null /\ open_inodes[z].removed
                                /\ InodesAfterClose(F)[z] = Null}
<1>0. /\ open_inodes \in [Sector -> Inode \cup {Null}] /\ files \in [FileId -> File \cup {Null}]
      /\ open_inodes' = InodesAfterClose(F)
      /\ files' = [f \in FileId |-> IF f \in F THEN Null ELSE files[f]]
      /\ free_map' = free_map \ UNION {Owned(s) : s \in K}
  BY Zenon DEF FileSysOK, TypeOK, file_close, Owned
<1>1. \A z \in Sector : open_inodes'[z] = InodesAfterClose(F)[z]
  BY <1>0, Zenon
<1>2. open_inodes' \in [Sector -> Inode \cup {Null}]
  <2>1. \A z \in Sector : InodesAfterClose(F)[z] \in Inode \cup {Null}
    BY InodeClosed, Zenon
  <2>2. InodesAfterClose(F) = [z \in Sector |-> InodesAfterClose(F)[z]]
    BY Zenon DEF InodesAfterClose
  <2> QED
    BY <1>0, <2>1, <2>2, Zenon
<1>3. files' \in [FileId -> File \cup {Null}]
  BY <1>0, Zenon
<1>4. ASSUME NEW z \in Sector
      PROVE  /\ open_inodes'[z] = Null => Openers'[z] = {}
             /\ open_inodes'[z] # Null =>
                   /\ open_inodes[z] # Null /\ open_inodes'[z].removed = open_inodes[z].removed
                   /\ open_inodes'[z].open_cnt = Cardinality(Openers'[z])
                   /\ open_inodes'[z].deny_write_cnt = Cardinality(Deniers'[z])
  <2>1. Openers'[z] = Openers[z] \ Of(F, z) /\ Deniers'[z] = Deniers[z] \ Denying(Of(F, z))
    BY <1>0, OpenersClosed, Zenon
  <2> QED
    BY <1>1, <2>1, InodeClosed, Zenon
<1>5. Linked' = Linked
  BY Zenon DEF Linked
<1>6. Live' = Live \ K /\ K \in SUBSET Live
  <2>1. \A z : z \in K <=> /\ z \in Sector /\ open_inodes[z] # Null /\ open_inodes[z].removed
                           /\ open_inodes'[z] = Null
    BY <1>1, Zenon
  <2>2. \A z : z \in Live <=> z \in Linked \/ (z \in Sector /\ open_inodes[z] # Null)
    BY Zenon DEF Live
  <2>3. \A z : z \in Live' <=> z \in Linked \/ (z \in Sector /\ open_inodes'[z] # Null)
    BY <1>5, Zenon DEF Live
  <2>4. \A z \in Sector : open_inodes[z] # Null => (open_inodes[z].removed <=> z \notin Linked)
    BY Zenon DEF FileSysOK, LinksOK
  <2> HIDE DEF K
  <2> QED
    BY <1>4, <2>1, <2>2, <2>3, <2>4, Zenon
<1>7. LinksOK'
  <2>1. \A z \in Sector : open_inodes'[z] # Null => (open_inodes'[z].removed <=> z \notin Linked)
    BY <1>4, Zenon DEF FileSysOK, LinksOK
  <2> QED
    BY <1>5, <2>1, Zenon DEF FileSysOK, LinksOK
<1>8. SectorsOK'
  <2>1. Own' = Own
    BY Zenon DEF Own, Owned, InodeExtent
  <2>2. {Owned(s) : s \in K} = {Own[s] : s \in K}
    BY Zenon DEF Own
  <2> HIDE DEF K
  <2>3. Partition(Live, Own, free_map, lost)
    BY Zenon DEF FileSysOK, SectorsOK
  <2>4. Partition(Live \ K, Own, free_map \ UNION {Own[s] : s \in K}, lost)
    BY <1>6, <2>3, PartitionTake, Zenon
  <2>5. Partition(Live', Own', free_map', lost')
    BY <1>0, <1>6, <2>1, <2>2, <2>4, Zenon
  <2>6. \A s \in Live' : inode_disk'[s] # Null
    BY <1>6, Zenon DEF FileSysOK, SectorsOK
  <2> QED
    BY <2>5, <2>6, SectorsNext, Zenon
<1>9. CountsOK'
  <2> SUFFICES ASSUME NEW z \in Sector
               PROVE  /\ open_inodes'[z] = Null => Openers'[z] = {} /\ removing' # z
                      /\ open_inodes'[z] # Null =>
                           /\ open_inodes'[z].open_cnt = Cardinality(Openers'[z])
                                                         + (IF removing' = z THEN 1 ELSE 0)
                           /\ open_inodes'[z].deny_write_cnt = Cardinality(Deniers'[z])
    BY Zenon DEF CountsOK
  <2>1. removing' # z
    BY NullAssumption, Zenon
  <2>2. Cardinality(Openers'[z]) \in Nat
    <3>1. Openers'[z] = Openers[z] \ Of(F, z)
      BY <1>0, OpenersClosed, Zenon
    <3>2. Openers[z] \ Of(F, z) \in SUBSET Openers[z]
      BY Zenon
    <3> QED
      BY <3>1, <3>2, OpenersFinite, FS_Subset, FS_CardinalityType, Zenon
  <2>3. Cardinality(Openers'[z]) = Cardinality(Openers'[z]) + 0
    BY <2>2
  <2> QED
    BY <1>4, <2>1, <2>3, Zenon
<1>10. OpenFiles' = OpenFiles \ F
  <2>1. \A g : g \in OpenFiles' <=> g \in FileId /\ files'[g] # Null
    BY Zenon DEF OpenFiles
  <2>2. \A g : g \in OpenFiles <=> g \in FileId /\ files[g] # Null
    BY Zenon DEF OpenFiles
  <2>3. \A g \in FileId : files'[g] = IF g \in F THEN Null ELSE files[g]
    BY <1>0, Zenon
  <2> QED
    BY <2>1, <2>2, <2>3, Zenon
<1> QED
  BY <1>2, <1>3, <1>6, <1>7, <1>8, <1>9, <1>10, Zenon
-----------------------------------------------------------------------------
(* Steps that open and close nothing.                                      *)
LEMMA HandlesSame ==
    ASSUME HandlesOK, OpenFiles' = OpenFiles, UNCHANGED <<descriptors, executable, exiting>>
    PROVE  HandlesOK'
<1>1. Target' = Target
  BY Zenon DEF Target
<1> QED
  BY <1>1 DEF HandlesOK, TargetsOK, LeadsTo

(* The inodes and what has them open are as they were.                     *)
LEMMA MemorySame ==
    ASSUME FileSysOK, UNCHANGED <<memVars, removing>>
    PROVE  CountsOK' /\ HandlesOK'
<1>1. OpenFiles' = OpenFiles /\ Openers' = Openers /\ Deniers' = Deniers
  BY Zenon DEF OpenFiles, Openers, Deniers, Of, Denying, memVars
<1>2. HandlesOK'
  BY <1>1, HandlesSame, Zenon DEF FileSysOK, memVars
<1>3. CountsOK'
  BY <1>1 DEF FileSysOK, CountsOK, memVars
<1> QED
  BY <1>2, <1>3, Zenon

(* No create and no remove is under way when filesys_lock is free.         *)
LEMMA LockFree ==
    ASSUME FileSysOK, filesys_lock = Null PROVE creating = Null /\ removing = Null
  BY Zenon DEF FileSysOK, LinksOK

(* fd_create() marks a free sector used.                                   *)
LEMMA CreateStep ==
    ASSUME FileSysOK, NEW p \in Proc, NEW name \in Name \cup {BadName}, NEW size \in Sizes,
           fd_create(p, name, size)
    PROVE  FileSysOK'
<1> DEFINE s == free_map_allocate(free_map, 1)
           c == [name |-> name, size |-> size, sector |-> s, inode |-> FALSE]
<1>0. /\ filesys_lock = Null /\ s # SectorCount /\ free_map' = free_map \cup {s} /\ creating' = c
      /\ filesys_lock' = p /\ lost' = lost \cup {s}
      /\ UNCHANGED <<inode_disk, data, dir, memVars, removing, panic>>
  BY Zenon DEF fd_create, filesys_create, Enter
<1>1. s \in Sector /\ Extent(s, 1) \cap free_map = {}
  BY <1>0, AllocatedFree, Zenon
<1>2. {s} \cap free_map = {}
  <2>1. s \in Extent(s, 1)
    BY <1>1, FileSysAssumption DEF Extent, Sector
  <2> QED
    BY <1>1, <2>1, Zenon
<1>3. c \in Creation /\ c # Null /\ c.sector = s /\ c.inode = FALSE
  <2> HIDE DEF s
  <2>1. c \in Creation /\ c.sector = s /\ c.inode = FALSE
    BY <1>1 DEF Creation
  <2> QED
    BY <2>1, NullAssumption, Zenon
<1> HIDE DEF s, c
<1>4. removing = Null /\ p # Null /\ Linked' = Linked /\ Live' = Live /\ Own' = Own
  <2>1. Linked' = Linked
    BY <1>0, Zenon DEF Linked
  <2>2. Live' = Live /\ Own' = Own
    BY <1>0, <2>1, Zenon DEF Live, Own, Owned, InodeExtent, memVars
  <2> QED
    BY <1>0, <2>1, <2>2, LockFree, NullAssumption, Zenon
<1>5. TypeOK'
  BY <1>0, <1>3, Zenon DEF FileSysOK, TypeOK, memVars
<1>6. LinksOK'
  BY <1>0, <1>4, Zenon DEF FileSysOK, LinksOK, memVars
<1>7. SectorsOK'
  <2>1. Partition(Live, Own, free_map \cup {s}, lost \cup {s})
    BY <1>2, PartitionAllocate, Zenon DEF FileSysOK, SectorsOK
  <2>2. Partition(Live', Own', free_map', lost')
    BY <1>0, <1>4, <2>1, Zenon
  <2>3. creating'.sector \in lost' /\ ~creating'.inode
    BY <1>0, <1>3, Zenon
  <2> QED
    BY <1>0, <1>4, <2>2, <2>3, Zenon DEF FileSysOK, SectorsOK, Partition
<1> QED
  BY <1>0, <1>5, <1>6, <1>7, MemorySame, Zenon DEF FileSysOK

(* What a create is working on is not a file yet.                          *)
LEMMA CreatingNotLive ==
    ASSUME FileSysOK, creating # Null
    PROVE  /\ creating \in Creation /\ creating.sector \in Sector /\ creating.sector \notin Live
           /\ creating.sector \in lost /\ removing = Null
<1>1. creating \in Creation /\ removing = Null /\ creating.sector \in lost
  BY Zenon DEF FileSysOK, TypeOK, LinksOK, SectorsOK
<1>2. creating.sector \in Sector
  BY <1>1 DEF Creation
<1> QED
  BY <1>1, <1>2, LiveSectors, Zenon DEF FileSysOK, SectorsOK, Partition

(* inode_create() fails and gives the inode's sector back.                 *)
LEMMA InodeRefused ==
    ASSUME FileSysOK, creating # Null,
           free_map' = free_map \ {creating.sector}, lost' = lost \ {creating.sector},
           creating' = Null, filesys_lock' = Null,
           UNCHANGED <<inode_disk, dir, memVars, removing>>
    PROVE  FileSysOK'
<1>1. removing = Null /\ {creating.sector} \subseteq lost
  BY CreatingNotLive, Zenon
<1>2. Linked' = Linked /\ Live' = Live /\ Own' = Own
  BY Zenon DEF Live, Linked, Own, Owned, InodeExtent, memVars
<1>3. TypeOK'
  BY Zenon DEF FileSysOK, TypeOK, memVars
<1>4. LinksOK'
  BY <1>1, <1>2, Zenon DEF FileSysOK, LinksOK, memVars
<1>5. SectorsOK'
  <2>1. Partition(Live, Own, free_map \ {creating.sector}, lost \ {creating.sector})
    BY <1>1, PartitionFree, Zenon DEF FileSysOK, SectorsOK
  <2>2. Partition(Live', Own', free_map', lost') /\ \A s \in Live' : inode_disk'[s] # Null
    BY <1>2, <2>1, Zenon DEF FileSysOK, SectorsOK
  <2> QED
    BY <2>2, SectorsNext, Zenon
<1> QED
  BY <1>3, <1>4, <1>5, MemorySame, Zenon DEF FileSysOK

(* inode_create() allocates the data and writes the inode.                 *)
LEMMA InodeCreated ==
    ASSUME FileSysOK, creating # Null, ~creating.inode,
           NEW cnt, cnt = bytes_to_sectors(creating.size),
           NEW start \in Sector, Extent(start, cnt) \cap free_map = {},
           free_map' = free_map \cup Extent(start, cnt), lost' = lost \cup Extent(start, cnt),
           inode_disk' = [inode_disk EXCEPT ![creating.sector] =
                             [start |-> start, length |-> creating.size]],
           creating' = [creating EXCEPT !.inode = TRUE],
           UNCHANGED <<dir, memVars, filesys_lock, removing>>
    PROVE  FileSysOK'
<1> DEFINE s == creating.sector
           d == [start |-> start, length |-> creating.size]
<1>1. creating \in Creation /\ s \in Sector /\ s \notin Live /\ s \in lost /\ removing = Null
  BY CreatingNotLive, Zenon
<1>2. d \in InodeDisk /\ d # Null /\ d.start = start /\ d.length = creating.size
  <2>1. start \in Int /\ creating.size \in Int
    BY <1>1, FileSysAssumption DEF Creation, Sector
  <2>2. d \in InodeDisk /\ d.start = start /\ d.length = creating.size
    BY <2>1 DEF InodeDisk
  <2> QED
    BY <2>2, NullAssumption, Zenon
<1>3. /\ creating' \in Creation /\ creating' # Null
      /\ creating'.sector = s /\ creating'.inode
  <2>1. creating' \in Creation /\ creating'.sector = s /\ creating'.inode
    BY <1>1, Zenon DEF Creation
  <2> QED
    BY <2>1, NullAssumption, Zenon
<1> HIDE DEF d
<1>4. /\ inode_disk \in [Sector -> InodeDisk \cup {Null}] /\ inode_disk' = [inode_disk EXCEPT ![s] = d]
      /\ inode_disk' \in [Sector -> InodeDisk \cup {Null}]
      /\ inode_disk'[s] = d /\ \A z \in Sector : z # s => inode_disk'[z] = inode_disk[z]
  BY <1>1, <1>2, Zenon DEF FileSysOK, TypeOK, d
<1>5. Linked' = Linked /\ Live' = Live /\ Live \subseteq Sector
  BY LiveSectors, Zenon DEF FileSysOK, Live, Linked, memVars
<1>6. (\A z \in Live : Own'[z] = Own[z]) /\ Own'[s] = {s} \cup Extent(start, cnt)
  <2>1. \A z \in Sector :
           Own'[z] = {z} \cup Extent(inode_disk'[z].start, bytes_to_sectors(inode_disk'[z].length))
    BY Zenon DEF Own, Owned, InodeExtent
  <2>2. \A z \in Sector :
           Own[z] = {z} \cup Extent(inode_disk[z].start, bytes_to_sectors(inode_disk[z].length))
    BY Zenon DEF Own, Owned, InodeExtent
  <2>3. ASSUME NEW z \in Live PROVE Own'[z] = Own[z]
    <3>1. z \in Sector /\ inode_disk'[z] = inode_disk[z]
      BY <1>1, <1>4, <1>5, Zenon
    <3> QED
      BY <2>1, <2>2, <3>1, Zenon
  <2>4. Own'[s] = {s} \cup Extent(d.start, bytes_to_sectors(d.length))
    BY <1>1, <1>4, <2>1, Zenon
  <2> QED
    BY <1>2, <2>3, <2>4, Zenon
<1>7. TypeOK'
  BY <1>3, <1>4, Zenon DEF FileSysOK, TypeOK, memVars
<1>8. LinksOK'
  BY <1>1, <1>5, Zenon DEF FileSysOK, LinksOK, memVars
<1>9. SectorsOK'
  <2>1. Partition(Live, Own, free_map', lost')
    BY PartitionAllocate, Zenon DEF FileSysOK, SectorsOK
  <2>2. Partition(Live, Own', free_map', lost')
    BY <1>6, <2>1, PartitionSame, Zenon
  <2>3. Partition(Live', Own', free_map', lost')
    BY <1>5, <2>2, Zenon
  <2>4. \A z \in Live' : inode_disk'[z] # Null
    BY <1>1, <1>4, <1>5, Zenon DEF FileSysOK, SectorsOK
  <2>5. s \in lost' /\ inode_disk'[s] # Null /\ Own'[s] \subseteq lost'
    BY <1>1, <1>2, <1>4, <1>6, Zenon
  <2> HIDE DEF s
  <2> QED
    BY <1>3, <2>3, <2>4, <2>5, Zenon DEF SectorsOK, Partition
<1> QED
  BY <1>7, <1>8, <1>9, MemorySame, Zenon DEF FileSysOK

(* inode_create() in all its ways.                                         *)
LEMMA InodeCreateStep ==
    ASSUME FileSysOK, NEW p \in Proc, inode_create(p)
    PROVE  FileSysOK' \/ UNCHANGED <<diskVars, memVars, filesys_lock, creating, removing, lost>>
<1> DEFINE cnt == bytes_to_sectors(creating.size)
           start == free_map_allocate(free_map, cnt)
<1>1. creating # Null /\ ~creating.inode
  BY Zenon DEF inode_create
<1>2. CASE Panic
  BY <1>2, Zenon DEF Panic
<1>3. CASE /\ free_map' = free_map \ {creating.sector}
           /\ lost' = lost \ {creating.sector}
           /\ creating' = Null /\ filesys_lock' = Null
           /\ UNCHANGED <<inode_disk, data, dir, memVars, removing, panic>>
  BY <1>1, <1>3, InodeRefused, Zenon
<1>4. CASE /\ start # SectorCount
           /\ free_map' = free_map \cup Extent(start, cnt)
           /\ lost' = lost \cup Extent(start, cnt)
           /\ inode_disk' = [inode_disk EXCEPT ![creating.sector] =
                                [start |-> start, length |-> creating.size]]
           /\ creating' = [creating EXCEPT !.inode = TRUE]
           /\ UNCHANGED <<dir, memVars, filesys_lock, removing, panic>>
  <2>1. start \in Sector /\ Extent(start, cnt) \cap free_map = {}
    BY <1>4, AllocatedFree, Zenon
  <2> HIDE DEF start
  <2> QED
    BY <1>1, <1>4, <2>1, InodeCreated, Zenon
<1> QED
  BY <1>2, <1>3, <1>4, Zenon DEF inode_create

(* dir_add() enters the new file, or gives only its inode's sector back.   *)
LEMMA DirAddStep ==
    ASSUME FileSysOK, NEW p \in Proc, dir_add(p)
    PROVE  FileSysOK'
<1> DEFINE s == creating.sector
<1>0. /\ creating # Null /\ creating.inode /\ creating' = Null /\ filesys_lock' = Null
      /\ UNCHANGED <<inode_disk, data, memVars, removing, panic>>
  BY Zenon DEF dir_add
<1>1. creating \in Creation /\ s \in Sector /\ s \notin Live /\ s \in lost /\ removing = Null
  BY <1>0, CreatingNotLive, Zenon
<1>2. Own' = Own /\ inode_disk[s] # Null /\ Own[s] \subseteq lost /\ Own[s] = {s} \cup InodeExtent(s)
  BY <1>0, <1>1, Zenon DEF Own, Owned, InodeExtent, FileSysOK, SectorsOK
<1>3. CASE /\ ~DirAdds(creating.name) /\ free_map' = free_map \ {s} /\ lost' = lost \ {s} /\ dir' = dir
  BY <1>0, <1>3, InodeRefused, Zenon
<1>4. CASE /\ DirAdds(creating.name)
           /\ dir' = [dir EXCEPT ![FreeSlot] = [in_use |-> TRUE, name |-> creating.name, sector |-> s]]
           /\ lost' = lost \ ({s} \cup InodeExtent(s)) /\ free_map' = free_map
  <2> DEFINE e == [in_use |-> TRUE, name |-> creating.name, sector |-> s]
             k == FreeSlot
  <2>1. k \in 1 .. DirSlots /\ ~dir[k].in_use
    BY <1>4, FreeSlotFree, Zenon DEF FileSysOK, DirAdds
  <2>2. e \in Entry /\ e.in_use /\ e.sector = s
    BY <1>1 DEF Entry, Creation
  <2> HIDE DEF e, k
  <2>3. /\ dir \in [1 .. DirSlots -> Entry] /\ dir' = [dir EXCEPT ![k] = e]
        /\ dir' \in [1 .. DirSlots -> Entry]
        /\ dir'[k] = e /\ \A i \in 1 .. DirSlots : i # k => dir'[i] = dir[i]
    BY <1>4, <2>1, <2>2, Zenon DEF FileSysOK, TypeOK, e, k
  <2> HIDE DEF s
  <2>4. \A z : z \in Linked' <=> z \in Linked \/ z = s
    <3>1. \A z : z \in Linked <=> \E i \in 1 .. DirSlots : dir[i].in_use /\ z = dir[i].sector
      BY Zenon DEF Linked
    <3>2. \A z : z \in Linked' <=> \E i \in 1 .. DirSlots : dir'[i].in_use /\ z = dir'[i].sector
      BY Zenon DEF Linked
    <3>3. ASSUME NEW z \in Linked' PROVE z \in Linked \/ z = s
      <4>1. PICK i \in 1 .. DirSlots : dir'[i].in_use /\ z = dir'[i].sector
        BY <3>2, Zenon
      <4>2. CASE i = k
        BY <2>2, <2>3, <4>1, <4>2, Zenon
      <4>3. CASE i # k
        BY <2>3, <3>1, <4>1, <4>3, Zenon
      <4> QED
        BY <4>2, <4>3, Zenon
    <3>4. ASSUME NEW z \in Linked PROVE z \in Linked'
      <4>1. PICK i \in 1 .. DirSlots : dir[i].in_use /\ z = dir[i].sector
        BY <3>1, Zenon
      <4> QED
        BY <2>1, <2>3, <3>2, <4>1, Zenon
    <3>5. s \in Linked'
      BY <2>1, <2>2, <2>3, <3>2, Zenon
    <3> QED
      BY <3>3, <3>4, <3>5, Zenon
  <2>5. Live' = Live \cup {s} /\ s \notin Linked /\ open_inodes[s] = Null
    <3>1. \A z : z \in Live <=> z \in Linked \/ (z \in Sector /\ open_inodes[z] # Null)
      BY Zenon DEF Live
    <3>2. \A z : z \in Live' <=> z \in Linked' \/ (z \in Sector /\ open_inodes[z] # Null)
      BY <1>0, Zenon DEF Live, memVars
    <3> QED
      BY <1>1, <2>4, <3>1, <3>2, Zenon
  <2>6. TypeOK'
    BY <1>0, <2>3, Zenon DEF FileSysOK, TypeOK, memVars
  <2>7. LinksOK'
    <3>1. \A i \in 1 .. DirSlots : dir[i].in_use => dir[i].sector # s
      BY <2>5, Zenon DEF Linked
    <3>2. ASSUME NEW i \in 1 .. DirSlots, NEW j \in 1 .. DirSlots,
                 dir'[i].in_use, dir'[j].in_use, dir'[i].sector = dir'[j].sector
          PROVE  i = j
      <4>1. CASE i = k \/ j = k
        BY <2>2, <2>3, <3>1, <3>2, <4>1, Zenon
      <4>2. CASE i # k /\ j # k
        BY <2>3, <3>2, <4>2, Zenon DEF FileSysOK, LinksOK
      <4> QED
        BY <4>1, <4>2, Zenon
    <3>3. \A z \in Sector : open_inodes[z] # Null => (open_inodes[z].removed <=> z \notin Linked')
      BY <2>4, <2>5, Zenon DEF FileSysOK, LinksOK
    <3> QED
      BY <1>0, <1>1, <3>2, <3>3, Zenon DEF LinksOK, memVars
  <2>8. SectorsOK'
    <3>1. Partition(Live \cup {s}, Own, free_map, lost \ Own[s])
      BY <1>2, PartitionLink, Zenon DEF FileSysOK, SectorsOK
    <3>2. lost' = lost \ Own[s]
      BY <1>2, <1>4, Zenon
    <3>3. Partition(Live', Own', free_map', lost')
      BY <1>2, <1>4, <2>5, <3>1, <3>2, Zenon
    <3>4. \A z \in Live' : inode_disk'[z] # Null
      BY <1>0, <1>2, <2>5, Zenon DEF FileSysOK, SectorsOK
    <3> QED
      BY <1>0, <3>3, <3>4, SectorsNext, Zenon
  <2> QED
    BY <1>0, <2>6, <2>7, <2>8, MemorySame, Zenon DEF FileSysOK
<1> QED
  BY <1>3, <1>4, Zenon DEF dir_add

(* fd_remove() takes the file from the directory and keeps its inode open. *)
LEMMA RemoveStep ==
    ASSUME FileSysOK, NEW p \in Proc, NEW name \in Name, fd_remove(p, name)
    PROVE  FileSysOK'
<1> DEFINE s == dir_lookup(name)
           k == lookup(name)
<1>0. /\ filesys_lock = Null /\ k # 0 /\ dir' = [dir EXCEPT ![k].in_use = FALSE]
      /\ open_inodes' = inode_remove(inode_open(open_inodes, s), s)
      /\ removing' = s /\ filesys_lock' = p
      /\ UNCHANGED <<free_map, inode_disk, data, files, descriptors, executable, exiting, creating,
                     panic, lost>>
  BY Zenon DEF fd_remove, dir_remove, Enter
<1>1. /\ k \in 1 .. DirSlots /\ dir[k].in_use /\ s \in Linked /\ s \in Sector /\ dir[k].sector = s
      /\ creating = Null /\ removing = Null /\ p # Null /\ s # Null
  BY <1>0, LookupFinds, LockFree, NullAssumption, Zenon DEF FileSysOK, dir_lookup
<1> HIDE DEF s, k
<1>2. PICK r \in Inode :
              /\ inode_open(open_inodes, s) = [open_inodes EXCEPT ![s] = r]
              /\ r.open_cnt = Cardinality(Openers[s]) + 1 /\ ~r.removed
              /\ r.deny_write_cnt = Cardinality(Deniers[s])
  BY <1>1, InodeOpened, Zenon
<1> DEFINE t == [r EXCEPT !.removed = TRUE]
<1>3. /\ t \in Inode /\ t.open_cnt = r.open_cnt /\ t.removed /\ t.deny_write_cnt = r.deny_write_cnt
  BY Zenon DEF Inode
<1>4. t # Null
  BY <1>3, NullAssumption, Zenon
<1>5. /\ open_inodes \in [Sector -> Inode \cup {Null}] /\ open_inodes' \in [Sector -> Inode \cup {Null}]
      /\ open_inodes'[s] = t /\ \A z \in Sector : z # s => open_inodes'[z] = open_inodes[z]
  <2>1. open_inodes \in [Sector -> Inode \cup {Null}]
    BY Zenon DEF FileSysOK, TypeOK
  <2>2. inode_remove([open_inodes EXCEPT ![s] = r], s) = [open_inodes EXCEPT ![s] = t]
    BY <1>1, <2>1, Zenon DEF inode_remove
  <2>3. open_inodes' = [open_inodes EXCEPT ![s] = t]
    BY <1>0, <1>2, <2>2, Zenon
  <2> HIDE DEF t
  <2> QED
    BY <1>1, <1>3, <2>1, <2>3, Zenon
<1> HIDE DEF t
<1>6. /\ dir \in [1 .. DirSlots -> Entry] /\ dir' \in [1 .. DirSlots -> Entry]
      /\ ~dir'[k].in_use /\ \A i \in 1 .. DirSlots : i # k => dir'[i] = dir[i]
  <2> DEFINE e == [dir[k] EXCEPT !.in_use = FALSE]
  <2>1. dir \in [1 .. DirSlots -> Entry] /\ dir[k] \in Entry
    BY <1>1, Zenon DEF FileSysOK, TypeOK
  <2>2. e \in Entry /\ ~e.in_use
    BY <2>1, Zenon DEF Entry
  <2>3. dir' = [dir EXCEPT ![k] = e]
    BY <1>0, Zenon
  <2> HIDE DEF e
  <2> QED
    BY <1>1, <2>1, <2>2, <2>3, Zenon
<1>7. \A z : z \in Linked' <=> z \in Linked /\ z # s
  <2>1. \A z : z \in Linked <=> \E i \in 1 .. DirSlots : dir[i].in_use /\ z = dir[i].sector
    BY Zenon DEF Linked
  <2>2. \A z : z \in Linked' <=> \E i \in 1 .. DirSlots : dir'[i].in_use /\ z = dir'[i].sector
    BY Zenon DEF Linked
  <2>3. \A i \in 1 .. DirSlots : dir[i].in_use /\ dir[i].sector = s => i = k
    BY <1>1, Zenon DEF FileSysOK, LinksOK
  <2>4. ASSUME NEW z \in Linked' PROVE z \in Linked /\ z # s
    <3>1. PICK i \in 1 .. DirSlots : dir'[i].in_use /\ z = dir'[i].sector
      BY <2>2, Zenon
    <3>2. i # k
      BY <1>6, <3>1, Zenon
    <3> QED
      BY <1>6, <2>1, <2>3, <3>1, <3>2, Zenon
  <2>5. ASSUME NEW z \in Linked, z # s PROVE z \in Linked'
    <3>1. PICK i \in 1 .. DirSlots : dir[i].in_use /\ z = dir[i].sector
      BY <2>1, Zenon
    <3>2. i # k
      BY <1>1, <2>5, <3>1, Zenon
    <3> QED
      BY <1>6, <2>2, <3>1, <3>2, Zenon
  <2> QED
    BY <2>4, <2>5, Zenon
<1>8. Live' = Live
  <2>1. \A z : z \in Live <=> z \in Linked \/ (z \in Sector /\ open_inodes[z] # Null)
    BY Zenon DEF Live
  <2>2. \A z : z \in Live' <=> z \in Linked' \/ (z \in Sector /\ open_inodes'[z] # Null)
    BY Zenon DEF Live
  <2> QED
    BY <1>1, <1>4, <1>5, <1>7, <2>1, <2>2, Zenon
<1>9. TypeOK'
  BY <1>0, <1>1, <1>5, <1>6, Zenon DEF FileSysOK, TypeOK
<1>10. LinksOK'
  <2>1. ASSUME NEW i \in 1 .. DirSlots, NEW j \in 1 .. DirSlots,
               dir'[i].in_use, dir'[j].in_use, dir'[i].sector = dir'[j].sector
        PROVE  i = j
    <3>1. i # k /\ j # k
      BY <1>6, <2>1, Zenon
    <3> QED
      BY <1>6, <2>1, <3>1, Zenon DEF FileSysOK, LinksOK
  <2>2. \A z \in Sector : open_inodes'[z] # Null => (open_inodes'[z].removed <=> z \notin Linked')
    BY <1>3, <1>5, <1>7, Zenon DEF FileSysOK, LinksOK
  <2>3. open_inodes'[removing'] # Null /\ open_inodes'[removing'].removed
    BY <1>0, <1>3, <1>4, <1>5, Zenon
  <2> QED
    BY <1>0, <1>1, <2>1, <2>2, <2>3, Zenon DEF LinksOK
<1>11. SectorsOK'
  BY <1>0, <1>8, SectorsSame, Zenon DEF FileSysOK
<1>12. OpenFiles' = OpenFiles /\ Openers' = Openers /\ Deniers' = Deniers
  BY <1>0, Zenon DEF OpenFiles, Openers, Deniers, Of, Denying
<1>13. HandlesOK'
  BY <1>0, <1>12, HandlesSame, Zenon DEF FileSysOK
<1>14. CountsOK'
  <2> SUFFICES ASSUME NEW z \in Sector
               PROVE  /\ open_inodes'[z] = Null => Openers'[z] = {} /\ removing' # z
                      /\ open_inodes'[z] # Null =>
                           /\ open_inodes'[z].open_cnt = Cardinality(Openers'[z])
                                                         + (IF removing' = z THEN 1 ELSE 0)
                           /\ open_inodes'[z].deny_write_cnt = Cardinality(Deniers'[z])
    BY Zenon DEF CountsOK
  <2>1. CASE z = s
    BY <1>0, <1>2, <1>3, <1>4, <1>5, <1>12, <2>1, Zenon
  <2>2. CASE z # s
    <3>1. removing' # z /\ removing # z
      BY <1>0, <1>1, <2>2, NullAssumption, Zenon
    <3> QED
      BY <1>5, <1>12, <2>2, <3>1 DEF FileSysOK, CountsOK
  <2> QED
    BY <2>1, <2>2, Zenon
<1> QED
  BY <1>9, <1>10, <1>11, <1>13, <1>14, Zenon DEF FileSysOK

(* inode_close() at the end of a remove frees the sectors with the last    *)
(* opener.                                                                 *)
LEMMA InodeCloseStep ==
    ASSUME FileSysOK, NEW p \in Proc, inode_close(p)
    PROVE  FileSysOK'
<1> DEFINE s == removing
           o == open_inodes[s]
           r == OneCloser(o)
<1>0. /\ s # Null /\ open_inodes' = [open_inodes EXCEPT ![s] = r]
      /\ free_map' = IF o.open_cnt = 1 THEN free_map \ ({s} \cup InodeExtent(s)) ELSE free_map
      /\ removing' = Null /\ filesys_lock' = Null
      /\ UNCHANGED <<inode_disk, data, dir, files, descriptors, executable, exiting, creating,
                     panic, lost>>
  BY Zenon DEF inode_close
<1>1. /\ s \in Sector /\ open_inodes \in [Sector -> Inode \cup {Null}] /\ o \in Inode /\ o # Null
      /\ o.removed /\ s \notin Linked /\ creating = Null
      /\ o.open_cnt = Cardinality(Openers[s]) + 1 /\ o.deny_write_cnt = Cardinality(Deniers[s])
  <2>1. s \in Sector /\ open_inodes \in [Sector -> Inode \cup {Null}] /\ o # Null /\ o.removed
    BY <1>0, Zenon DEF FileSysOK, TypeOK, LinksOK
  <2> QED
    BY <1>0, <2>1, Zenon DEF FileSysOK, LinksOK, CountsOK
<1>2. /\ o.open_cnt = 1 => r = Null /\ Openers[s] = {}
      /\ o.open_cnt # 1 => /\ r \in Inode /\ r # Null /\ r.removed /\ r.open_cnt = Cardinality(Openers[s])
                           /\ r.deny_write_cnt = Cardinality(Deniers[s])
  <2>0. IsFiniteSet(Openers[s]) /\ Cardinality(Openers[s]) \in Nat
    BY <1>1, OpenersFinite, Zenon
  <2>1. o.open_cnt = 1 => Cardinality(Openers[s]) = 0
    BY <1>1, <2>0
  <2>2. o.open_cnt = 1 => r = Null /\ Openers[s] = {}
    BY <2>0, <2>1, FS_EmptySet, Zenon DEF OneCloser
  <2>3. ASSUME o.open_cnt # 1
        PROVE  /\ r \in Inode /\ r # Null /\ r.removed /\ r.open_cnt = Cardinality(Openers[s])
               /\ r.deny_write_cnt = Cardinality(Deniers[s])
    <3>1. r = [o EXCEPT !.open_cnt = @ - 1]
      BY <2>3, Zenon DEF OneCloser
    <3> HIDE DEF o, r
    <3>2. r \in Inode /\ r.removed = o.removed /\ r.open_cnt = o.open_cnt - 1
          /\ r.deny_write_cnt = o.deny_write_cnt
      <4>1. o \in Inode
        BY <1>1, Zenon
      <4> QED
        BY <3>1, <4>1 DEF Inode
    <3>3. o.open_cnt - 1 = Cardinality(Openers[s])
      BY <1>1, <2>0
    <3> QED
      BY <1>1, <3>2, <3>3, NullAssumption, Zenon
  <2> QED
    BY <2>2, <2>3, Zenon
<1> HIDE DEF r
<1>3. /\ open_inodes' \in [Sector -> Inode \cup {Null}]
      /\ open_inodes'[s] = r /\ \A z \in Sector : z # s => open_inodes'[z] = open_inodes[z]
  BY <1>0, <1>1, <1>2, Zenon
<1> HIDE DEF o
<1>4. Linked' = Linked /\ Own' = Own /\ Own[s] = {s} \cup InodeExtent(s)
  BY <1>0, <1>1, Zenon DEF Linked, Own, Owned, InodeExtent
<1>5. s \in Live /\ Live' = IF o.open_cnt = 1 THEN Live \ {s} ELSE Live
  <2>1. \A z : z \in Live <=> z \in Linked \/ (z \in Sector /\ open_inodes[z] # Null)
    BY Zenon DEF Live
  <2>2. \A z : z \in Live' <=> z \in Linked \/ (z \in Sector /\ open_inodes'[z] # Null)
    BY <1>4, Zenon DEF Live
  <2>a. s \in Sector /\ s \in Live
    BY <1>1, <2>1, Zenon DEF o
  <2>3. CASE o.open_cnt = 1
    <3>1. r = Null /\ s \notin Linked
      BY <1>1, <1>2, <2>3, Zenon
    <3>2. \A z : z \in Live' <=> z \in Live /\ z # s
      BY <1>3, <2>1, <2>2, <3>1, Zenon
    <3> QED
      BY <2>a, <2>3, <3>2, Zenon
  <2>4. CASE o.open_cnt # 1
    <3>1. r # Null
      BY <1>2, <2>4, Zenon
    <3>2. \A z : z \in Live' <=> z \in Live
      BY <1>3, <2>1, <2>2, <2>a, <3>1, Zenon
    <3> QED
      BY <2>a, <2>4, <3>2, Zenon
  <2> QED
    BY <2>3, <2>4, Zenon
<1>6. TypeOK'
  BY <1>0, <1>3, Zenon DEF FileSysOK, TypeOK
<1>7. LinksOK'
  <2>1. \A z \in Sector : open_inodes'[z] # Null => (open_inodes'[z].removed <=> z \notin Linked)
    BY <1>1, <1>2, <1>3, Zenon DEF FileSysOK, LinksOK
  <2> QED
    BY <1>0, <1>1, <1>4, <2>1, Zenon DEF FileSysOK, LinksOK
<1>8. SectorsOK'
  <2>1. Partition(Live, Own, free_map, lost)
    BY Zenon DEF FileSysOK, SectorsOK
  <2>2. Partition(Live', Own', free_map', lost')
    <3>1. CASE o.open_cnt = 1
      <4>0. {s} \in SUBSET Live
        BY <1>5, Zenon
      <4>1. Partition(Live \ {s}, Own, free_map \ UNION {Own[z] : z \in {s}}, lost)
        BY <2>1, <4>0, PartitionTake, Zenon
      <4>2. UNION {Own[z] : z \in {s}} = Own[s]
        BY Zenon
      <4> QED
        BY <1>0, <1>4, <1>5, <3>1, <4>1, <4>2, Zenon
    <3>2. CASE o.open_cnt # 1
      BY <1>0, <1>4, <1>5, <2>1, <3>2, Zenon
    <3> QED
      BY <3>1, <3>2, Zenon
  <2>3. \A z \in Live' : inode_disk'[z] # Null
    BY <1>0, <1>5, Zenon DEF FileSysOK, SectorsOK
  <2> QED
    BY <1>0, <1>1, <2>2, <2>3, SectorsNext, Zenon
<1>9. OpenFiles' = OpenFiles /\ Openers' = Openers /\ Deniers' = Deniers
  BY <1>0, Zenon DEF OpenFiles, Openers, Deniers, Of, Denying
<1>10. HandlesOK'
  BY <1>0, <1>9, HandlesSame, Zenon DEF FileSysOK
<1>11. CountsOK'
  <2> SUFFICES ASSUME NEW z \in Sector
               PROVE  /\ open_inodes'[z] = Null => Openers'[z] = {} /\ removing' # z
                      /\ open_inodes'[z] # Null =>
                           /\ open_inodes'[z].open_cnt = Cardinality(Openers'[z])
                                                         + (IF removing' = z THEN 1 ELSE 0)
                           /\ open_inodes'[z].deny_write_cnt = Cardinality(Deniers'[z])
    BY Zenon DEF CountsOK
  <2>1. removing' # z /\ Cardinality(Openers[z]) = Cardinality(Openers[z]) + 0
    <3>1. Cardinality(Openers[z]) \in Nat
      BY OpenersFinite, Zenon
    <3> QED
      BY <1>0, <3>1, NullAssumption
  <2>2. CASE z = s
    BY <1>2, <1>3, <1>9, <2>1, <2>2, Zenon
  <2>3. CASE z # s
    BY <1>3, <1>9, <2>1, <2>3 DEF FileSysOK, CountsOK
  <2> QED
    BY <2>2, <2>3, Zenon
<1> QED
  BY <1>6, <1>7, <1>8, <1>10, <1>11, Zenon DEF FileSysOK
-----------------------------------------------------------------------------
(* A process's handles: its descriptors and, past them, its executable.    *)
LEMMA HandleCases ==
    /\ \A i \in 0 .. CAPACITY : i \in 0 .. CAPACITY + 1 /\ i # CAPACITY + 1
    /\ CAPACITY + 1 \in 0 .. CAPACITY + 1
    /\ \A i \in 0 .. CAPACITY + 1 : i \in 0 .. CAPACITY \/ i = CAPACITY + 1
  BY FileSysAssumption

(* Where the handles of p lead ...                                         *)
LEMMA TargetMeans ==
    ASSUME NEW p \in Proc
    PROVE  /\ Target[p][CAPACITY + 1] = executable[p]
           /\ \A i \in 0 .. CAPACITY :
                Target[p][i] = IF descriptors[p][i].in_use THEN descriptors[p][i].file ELSE Null
  BY HandleCases, Zenon DEF Target

(* ... and in the next state.                                              *)
LEMMA TargetMeansNext ==
    ASSUME NEW p \in Proc
    PROVE  /\ Target'[p][CAPACITY + 1] = executable'[p]
           /\ \A i \in 0 .. CAPACITY :
                Target'[p][i] = IF descriptors'[p][i].in_use THEN descriptors'[p][i].file ELSE Null
  BY HandleCases, Zenon DEF Target

(* LeadsTo() in the next state.                                            *)
LEMMA TargetsNext ==
    ASSUME LeadsTo(Target', OpenFiles') PROVE TargetsOK'
  BY DEF TargetsOK, LeadsTo

(* Null is not a file, and opening f makes it one.                         *)
LEMMA OpenFilesNext ==
    ASSUME NEW f \in FileId, files[f] = Null, files'[f] # Null,
           \A g \in FileId : g # f => files'[g] = files[g]
    PROVE  OpenFiles' = OpenFiles \cup {f} /\ f \notin OpenFiles /\ f # Null /\ Null \notin OpenFiles
<1>1. \A g : g \in OpenFiles' <=> g \in FileId /\ files'[g] # Null
  BY Zenon DEF OpenFiles
<1>2. \A g : g \in OpenFiles <=> g \in FileId /\ files[g] # Null
  BY Zenon DEF OpenFiles
<1>3. ASSUME NEW g PROVE g \in OpenFiles' <=> g \in OpenFiles \/ g = f
  <2>1. CASE g = f
    BY <1>1, <2>1, Zenon
  <2>2. CASE g # f
    BY <1>1, <1>2, <2>2, Zenon
  <2> QED
    BY <2>1, <2>2, Zenon
<1> QED
  BY <1>2, <1>3, NullAssumption, Zenon

(* A new file f and the handle k of p that leads to it.                    *)
LEMMA HandleOpened ==
    ASSUME FileSysOK, NEW f \in FileId, files[f] = Null,
           NEW file \in File, files' = [files EXCEPT ![f] = file],
           NEW p \in Proc, NEW k \in 0 .. CAPACITY + 1, Target[p][k] = Null, Target'[p][k] = f,
           \A q \in Proc, j \in 0 .. CAPACITY + 1 : (q = p /\ j = k) \/ Target'[q][j] = Target[q][j]
    PROVE  TargetsOK'
<1>1. files'[f] # Null /\ \A g \in FileId : g # f => files'[g] = files[g]
  BY NullAssumption, Zenon DEF FileSysOK, TypeOK
<1>2. OpenFiles' = OpenFiles \cup {f} /\ f \notin OpenFiles /\ f # Null /\ Null \notin OpenFiles
  BY <1>1, OpenFilesNext, Zenon
<1>3. LeadsTo(Target', OpenFiles \cup {f})
  <2> DEFINE T == Target
             T2 == Target'
             F == OpenFiles
  <2>1. /\ LeadsTo(T, F) /\ Null \notin F /\ f \notin F /\ f # Null
        /\ T[p][k] = Null /\ T2[p][k] = f
    BY <1>2, Zenon DEF FileSysOK, HandlesOK, TargetsOK
  <2>2. \A q \in Proc, j \in 0 .. CAPACITY + 1 : (q = p /\ j = k) \/ T2[q][j] = T[q][j]
    BY Zenon
  <2> HIDE DEF T, T2, F
  <2>3. LeadsTo(T2, F \cup {f})
    BY <2>1, <2>2, TargetOpened
  <2> QED
    BY <2>3, Zenon DEF T2, F
<1> QED
  BY <1>2, <1>3, TargetsNext, Zenon

(* fd_open() makes a file and a descriptor for it.                         *)
LEMMA OpenStep ==
    ASSUME FileSysOK, NEW p \in Proc, NEW name \in Name, fd_open(p, name)
    PROVE  FileSysOK'
<1> DEFINE k == get_new_file_descriptor(p)
           f == Min(FreeFiles)
           s == dir_lookup(name)
           e == [in_use |-> TRUE, fd |-> 2 + k, file |-> f]
<1>0. /\ filesys_lock = Null /\ k <= CAPACITY /\ FreeFiles # {} /\ lookup(name) # 0
      /\ open_inodes' = inode_open(open_inodes, s)
      /\ files' = [files EXCEPT ![f] = [sector |-> s, pos |-> 0, deny_write |-> FALSE]]
      /\ descriptors' = [descriptors EXCEPT ![p][k] = e]
      /\ UNCHANGED <<diskVars, executable, exiting, filesys_lock, creating, removing, panic, lost>>
  BY Zenon DEF fd_open, filesys_open, file_open, Enter
<1>1. /\ k \in 0 .. CAPACITY /\ ~descriptors[p][k].in_use /\ f \in FileId /\ files[f] = Null
      /\ s \in Linked
  BY <1>0, NewDescriptorFree, FreeFileFree, LookupFinds, Zenon DEF FileSysOK
<1> HIDE DEF k, f, s
<1>2. e \in Descriptor /\ e.in_use /\ e.file = f
  BY <1>1, FileSysAssumption DEF Descriptor
<1> HIDE DEF e
<1>3. PICK r \in Inode :
              /\ inode_open(open_inodes, s) = [open_inodes EXCEPT ![s] = r]
              /\ r.open_cnt = Cardinality(Openers[s]) + 1 /\ ~r.removed
              /\ r.deny_write_cnt = Cardinality(Deniers[s])
  BY <1>1, InodeOpened, Zenon
<1>4. r.deny_write_cnt = Cardinality(Deniers[s]) + (IF FALSE THEN 1 ELSE 0)
  <2>1. Cardinality(Deniers[s]) \in Nat
    BY <1>1, LiveSectors, OpenersFinite, Zenon DEF FileSysOK
  <2> QED
    BY <1>3, <2>1
<1>5. /\ open_inodes' \in [Sector -> Inode \cup {Null}] /\ files' \in [FileId -> File \cup {Null}]
      /\ LinksOK' /\ SectorsOK' /\ CountsOK'
  <2>1. /\ open_inodes' = [open_inodes EXCEPT ![s] = r] /\ FALSE \in BOOLEAN
        /\ UNCHANGED <<free_map, inode_disk, dir, filesys_lock, creating, removing, lost>>
    BY <1>0, <1>3, Zenon DEF diskVars
  <2> QED
    BY <1>0, <1>1, <1>3, <1>4, <2>1, FileOpened, Zenon
<1>6. /\ descriptors' \in [Proc -> [0 .. CAPACITY -> Descriptor]]
      /\ descriptors'[p][k] = e
      /\ \A q \in Proc, i \in 0 .. CAPACITY : (q = p /\ i = k) \/ descriptors'[q][i] = descriptors[q][i]
  <2>1. descriptors \in [Proc -> [0 .. CAPACITY -> Descriptor]]
    BY Zenon DEF FileSysOK, TypeOK
  <2>2. descriptors' = [descriptors EXCEPT ![p] = [descriptors[p] EXCEPT ![k] = e]]
    BY <1>0, Zenon
  <2>3. descriptors[p] \in [0 .. CAPACITY -> Descriptor]
    BY <2>1, Zenon
  <2>4. /\ [descriptors[p] EXCEPT ![k] = e] \in [0 .. CAPACITY -> Descriptor]
        /\ [descriptors[p] EXCEPT ![k] = e][k] = e
        /\ \A i \in 0 .. CAPACITY : i # k => [descriptors[p] EXCEPT ![k] = e][i] = descriptors[p][i]
    BY <1>1, <1>2, <2>3, Zenon
  <2> QED
    BY <2>1, <2>2, <2>4, Zenon
<1>7. TypeOK'
  BY <1>0, <1>5, <1>6, Zenon DEF FileSysOK, TypeOK, diskVars
<1>8. HandlesOK'
  <2>1. [sector |-> s, pos |-> 0, deny_write |-> FALSE] \in File /\ f # Null
    BY <1>1, LiveSectors, NullAssumption DEF FileSysOK, File
  <2>2. k \in 0 .. CAPACITY + 1 /\ Target[p][k] = Null /\ Target'[p][k] = f
    BY <1>1, <1>2, <1>6, TargetMeans, TargetMeansNext, HandleCases, Zenon
  <2>3. ASSUME NEW q \in Proc, NEW j \in 0 .. CAPACITY + 1
        PROVE  (q = p /\ j = k) \/ Target'[q][j] = Target[q][j]
    <3>1. CASE j = CAPACITY + 1
      BY <1>0, <3>1, TargetMeans, TargetMeansNext, Zenon
    <3>2. CASE j \in 0 .. CAPACITY
      <4>1. (q = p /\ j = k) \/ descriptors'[q][j] = descriptors[q][j]
        BY <1>6, <3>2, Zenon
      <4>2. Target[q][j] = IF descriptors[q][j].in_use THEN descriptors[q][j].file ELSE Null
        BY <3>2, TargetMeans, Zenon
      <4>3. Target'[q][j] = IF descriptors'[q][j].in_use THEN descriptors'[q][j].file ELSE Null
        BY <3>2, TargetMeansNext, Zenon
      <4> QED
        BY <4>1, <4>2, <4>3, Zenon
    <3> QED
      BY <3>1, <3>2, HandleCases, Zenon
  <2>6. TargetsOK'
    <3>1. \A q \in Proc, j \in 0 .. CAPACITY + 1 : (q = p /\ j = k) \/ Target'[q][j] = Target[q][j]
      BY <2>3, Zenon
    <3> QED
      BY <1>0, <1>1, <2>1, <2>2, <3>1, HandleOpened, Zenon
  <2>7. ASSUME NEW q \in Proc, NEW i \in 0 .. CAPACITY, descriptors'[q][i].in_use
        PROVE  descriptors'[q][i].file # Null
    <3>1. (q = p /\ i = k) \/ descriptors'[q][i] = descriptors[q][i]
      BY <1>6, Zenon
    <3>2. descriptors[q][i].in_use => descriptors[q][i].file # Null
      BY Zenon DEF FileSysOK, HandlesOK
    <3> QED
      BY <1>2, <1>6, <2>1, <2>7, <3>1, <3>2, Zenon
  <2> QED
    BY <1>0, <2>6, <2>7, Zenon DEF FileSysOK, HandlesOK
<1> QED
  BY <1>5, <1>7, <1>8, Zenon DEF FileSysOK

(* The struct file of an executable.                                       *)
LEMMA ExecutableFile ==
    ASSUME NEW s
    PROVE  file_deny_write(file_open(s)) = [sector |-> s, pos |-> 0, deny_write |-> TRUE]
<1>1. ASSUME NEW u, NEW v
      PROVE  [[sector |-> s, pos |-> 0, deny_write |-> u] EXCEPT !.deny_write = v]
             = [sector |-> s, pos |-> 0, deny_write |-> v]
  OBVIOUS
<1> QED
  BY <1>1, Zenon DEF file_deny_write, file_open

(* open_process_executable() makes a file that denies writes.              *)
LEMMA ExecuteStep ==
    ASSUME FileSysOK, NEW p \in Proc, NEW name \in Name, open_process_executable(p, name)
    PROVE  FileSysOK'
<1> DEFINE k == CAPACITY + 1
           f == Min(FreeFiles)
           s == dir_lookup(name)
           file == [sector |-> s, pos |-> 0, deny_write |-> TRUE]
<1>0. /\ filesys_lock = Null /\ executable[p] = Null /\ FreeFiles # {} /\ lookup(name) # 0
      /\ open_inodes' = inode_deny_write(inode_open(open_inodes, s), s)
      /\ files' = [files EXCEPT ![f] = file]
      /\ executable' = [executable EXCEPT ![p] = f]
      /\ UNCHANGED <<diskVars, descriptors, exiting, filesys_lock, creating, removing, panic, lost>>
  <2>1. file_deny_write(file_open(s)) = file
    BY ExecutableFile, Zenon
  <2> QED
    BY <2>1, Zenon DEF open_process_executable
<1>1. f \in FileId /\ files[f] = Null /\ s \in Linked /\ s \in Sector /\ f # Null
  BY <1>0, FreeFileFree, LookupFinds, NullAssumption, Zenon DEF FileSysOK
<1> HIDE DEF f, s
<1>2. PICK r \in Inode :
              /\ inode_open(open_inodes, s) = [open_inodes EXCEPT ![s] = r]
              /\ r.open_cnt = Cardinality(Openers[s]) + 1 /\ ~r.removed
              /\ r.deny_write_cnt = Cardinality(Deniers[s])
  BY <1>1, InodeOpened, Zenon
<1> DEFINE t == [r EXCEPT !.deny_write_cnt = @ + 1]
<1>3. /\ t \in Inode /\ t.open_cnt = r.open_cnt /\ t.removed = r.removed
      /\ t.deny_write_cnt = r.deny_write_cnt + 1
  BY DEF Inode
<1>4. open_inodes' = [open_inodes EXCEPT ![s] = t]
  <2>1. open_inodes \in [Sector -> Inode \cup {Null}]
    BY Zenon DEF FileSysOK, TypeOK
  <2>2. inode_deny_write([open_inodes EXCEPT ![s] = r], s) = [open_inodes EXCEPT ![s] = t]
    BY <1>1, <2>1, Zenon DEF inode_deny_write
  <2> QED
    BY <1>0, <1>2, <2>2, Zenon
<1> HIDE DEF t
<1>5. /\ open_inodes' \in [Sector -> Inode \cup {Null}] /\ files' \in [FileId -> File \cup {Null}]
      /\ LinksOK' /\ SectorsOK' /\ CountsOK'
  <2>1. /\ t.open_cnt = Cardinality(Openers[s]) + 1 /\ ~t.removed
        /\ t.deny_write_cnt = Cardinality(Deniers[s]) + (IF TRUE THEN 1 ELSE 0)
    BY <1>2, <1>3, Zenon
  <2>2. TRUE \in BOOLEAN /\ UNCHANGED <<free_map, inode_disk, dir, filesys_lock, creating, removing, lost>>
    BY <1>0, Zenon DEF diskVars
  <2> QED
    BY <1>0, <1>1, <1>3, <1>4, <2>1, <2>2, FileOpened, Zenon
<1>6. /\ executable' \in [Proc -> FileId \cup {Null}] /\ executable'[p] = f
      /\ \A q \in Proc : q # p => executable'[q] = executable[q]
  BY <1>0, <1>1, Zenon DEF FileSysOK, TypeOK
<1>7. TypeOK'
  BY <1>0, <1>5, <1>6, Zenon DEF FileSysOK, TypeOK, diskVars
<1>8. HandlesOK'
  <2>1. file \in File
    BY <1>1 DEF File
  <2>2. k \in 0 .. CAPACITY + 1 /\ Target[p][k] = Null /\ Target'[p][k] = f
    BY <1>0, <1>6, TargetMeans, TargetMeansNext, HandleCases, Zenon
  <2>3. ASSUME NEW q \in Proc, NEW j \in 0 .. CAPACITY + 1
        PROVE  (q = p /\ j = k) \/ Target'[q][j] = Target[q][j]
    <3>1. CASE j = CAPACITY + 1
      BY <1>6, <3>1, TargetMeans, TargetMeansNext, Zenon
    <3>2. CASE j \in 0 .. CAPACITY
      <4>1. Target[q][j] = IF descriptors[q][j].in_use THEN descriptors[q][j].file ELSE Null
        BY <3>2, TargetMeans, Zenon
      <4>2. Target'[q][j] = IF descriptors'[q][j].in_use THEN descriptors'[q][j].file ELSE Null
        BY <3>2, TargetMeansNext, Zenon
      <4> QED
        BY <1>0, <4>1, <4>2, Zenon
    <3> QED
      BY <3>1, <3>2, HandleCases, Zenon
  <2> HIDE DEF file, k
  <2>4. TargetsOK'
    <3>1. \A q \in Proc, j \in 0 .. CAPACITY + 1 : (q = p /\ j = k) \/ Target'[q][j] = Target[q][j]
      BY <2>3, Zenon
    <3> QED
      BY <1>0, <1>1, <2>1, <2>2, <3>1, HandleOpened, Zenon
  <2>5. \A q \in exiting' : executable'[q] # Null
    <3>1. \A q \in exiting : q \in Proc /\ executable[q] # Null
      BY Zenon DEF FileSysOK, TypeOK, HandlesOK
    <3> QED
      BY <1>0, <1>1, <1>6, <3>1, Zenon
  <2> QED
    BY <1>0, <2>4, <2>5, Zenon DEF FileSysOK, HandlesOK
<1> QED
  BY <1>5, <1>7, <1>8, Zenon DEF FileSysOK

(* Closing the files F and the handles that lead to them.                  *)
LEMMA HandlesClosed ==
    ASSUME FileSysOK, NEW F \in SUBSET OpenFiles, OpenFiles' = OpenFiles \ F,
           \A q \in Proc, j \in 0 .. CAPACITY + 1 :
              /\ Target[q][j] \in F => Target'[q][j] = Null
              /\ Target[q][j] \notin F => Target'[q][j] = Target[q][j]
    PROVE  TargetsOK'
<1>1. LeadsTo(Target', OpenFiles \ F)
  <2> DEFINE T == Target
             T2 == Target'
             G == OpenFiles
  <2>1. LeadsTo(T, G) /\ Null \notin G /\ F \in SUBSET G
    BY NullAssumption, Zenon DEF FileSysOK, HandlesOK, TargetsOK, OpenFiles
  <2>2. \A q \in Proc, j \in 0 .. CAPACITY + 1 :
           /\ T[q][j] \in F => T2[q][j] = Null
           /\ T[q][j] \notin F => T2[q][j] = T[q][j]
    BY Zenon
  <2> HIDE DEF T, T2, G
  <2>3. LeadsTo(T2, G \ F)
    BY <2>1, <2>2, TargetsClosed
  <2> QED
    BY <2>3, Zenon DEF T2, G
<1> QED
  BY <1>1, TargetsNext, Zenon

(* A handle that leads somewhere is the only one that leads there.         *)
LEMMA HandleUnique ==
    ASSUME FileSysOK, NEW p \in Proc, NEW i \in 0 .. CAPACITY + 1, Target[p][i] # Null
    PROVE  /\ Target[p][i] \in OpenFiles
           /\ \A q \in Proc, j \in 0 .. CAPACITY + 1 : Target[q][j] = Target[p][i] => q = p /\ j = i
<1>1. LeadsTo(Target, OpenFiles)
  BY Zenon DEF FileSysOK, HandlesOK, TargetsOK
<1>2. Target[p][i] \in OpenFiles
  BY <1>1 DEF LeadsTo
<1>3. ASSUME NEW q \in Proc, NEW j \in 0 .. CAPACITY + 1, Target[q][j] = Target[p][i]
      PROVE  q = p /\ j = i
  <2>1. Target[p][i] = Target[q][j]
    BY <1>3, Zenon
  <2> QED
    BY <1>1, <2>1 DEF LeadsTo
<1> QED
  BY <1>2, <1>3, Zenon

(* A descriptor looked up leads to an open file.                           *)
LEMMA DescriptorFile ==
    ASSUME FileSysOK, NEW p \in Proc, NEW i \in 0 .. CAPACITY, descriptors[p][i].in_use
    PROVE  /\ descriptors[p][i].file \in OpenFiles /\ Target[p][i] = descriptors[p][i].file
           /\ Target[p][i] # Null
<1>1. Target[p][i] = descriptors[p][i].file /\ Target[p][i] # Null
  <2>1. Target[p][i] = descriptors[p][i].file
    BY TargetMeans, Zenon
  <2>2. descriptors[p][i].file # Null
    BY Zenon DEF FileSysOK, HandlesOK
  <2> QED
    BY <2>1, <2>2, Zenon
<1> QED
  BY <1>1, HandleUnique, HandleCases, Zenon

(* fd_close() closes the file of a descriptor.                             *)
LEMMA CloseStep ==
    ASSUME FileSysOK, NEW p \in Proc, NEW fd, fd_close(p, fd)
    PROVE  FileSysOK' /\ Live' \subseteq Live
<1> DEFINE k == get_file_descriptor(p, fd)
           f == descriptors[p][k].file
<1>0. /\ filesys_lock = Null /\ k <= CAPACITY /\ file_close({f})
      /\ descriptors' = [descriptors EXCEPT ![p][k] = NoDescriptor]
      /\ UNCHANGED <<inode_disk, data, dir, executable, exiting, filesys_lock, creating, removing, panic, lost>>
  BY Zenon DEF fd_close, Enter
<1>1. /\ k \in 0 .. CAPACITY /\ descriptors[p][k].in_use /\ k \in 0 .. CAPACITY + 1
      /\ creating = Null /\ removing = Null
  BY <1>0, DescriptorInUse, LockFree, HandleCases, Zenon
<1> HIDE DEF k
<1>2. f \in OpenFiles /\ Target[p][k] = f /\ Target[p][k] # Null
  BY <1>1, DescriptorFile, Zenon
<1> HIDE DEF f
<1>3. /\ open_inodes' \in [Sector -> Inode \cup {Null}] /\ files' \in [FileId -> File \cup {Null}]
      /\ LinksOK' /\ SectorsOK' /\ CountsOK' /\ OpenFiles' = OpenFiles \ {f}
      /\ Live' \subseteq Live
  BY <1>0, <1>1, <1>2, FilesClosed, Zenon
<1>4. /\ descriptors' \in [Proc -> [0 .. CAPACITY -> Descriptor]]
      /\ ~descriptors'[p][k].in_use
      /\ \A q \in Proc, i \in 0 .. CAPACITY : (q = p /\ i = k) \/ descriptors'[q][i] = descriptors[q][i]
  <2> DEFINE e == NoDescriptor
  <2>1. e \in Descriptor /\ ~e.in_use
    BY DEF Descriptor, NoDescriptor
  <2> HIDE DEF e
  <2>2. descriptors \in [Proc -> [0 .. CAPACITY -> Descriptor]]
    BY Zenon DEF FileSysOK, TypeOK
  <2>3. descriptors' = [descriptors EXCEPT ![p] = [descriptors[p] EXCEPT ![k] = e]]
    BY <1>0, Zenon DEF e
  <2>4. descriptors[p] \in [0 .. CAPACITY -> Descriptor]
    BY <2>2, Zenon
  <2>5. /\ [descriptors[p] EXCEPT ![k] = e] \in [0 .. CAPACITY -> Descriptor]
        /\ [descriptors[p] EXCEPT ![k] = e][k] = e
        /\ \A i \in 0 .. CAPACITY : i # k => [descriptors[p] EXCEPT ![k] = e][i] = descriptors[p][i]
    BY <1>1, <2>1, <2>4, Zenon
  <2> QED
    BY <2>1, <2>2, <2>3, <2>5, Zenon
<1>5. TypeOK'
  BY <1>0, <1>3, <1>4, Zenon DEF FileSysOK, TypeOK
<1>6. TargetsOK'
  <2>1. \A q \in Proc, j \in 0 .. CAPACITY + 1 : Target[q][j] = f => q = p /\ j = k
    BY <1>1, <1>2, HandleUnique, Zenon
  <2>2. Target'[p][k] = Null
    BY <1>1, <1>4, TargetMeansNext, Zenon
  <2>3. ASSUME NEW q \in Proc, NEW j \in 0 .. CAPACITY + 1, ~(q = p /\ j = k)
        PROVE  Target'[q][j] = Target[q][j]
    <3>1. CASE j = CAPACITY + 1
      BY <1>0, <3>1, TargetMeans, TargetMeansNext, Zenon
    <3>2. CASE j \in 0 .. CAPACITY
      <4>1. descriptors'[q][j] = descriptors[q][j]
        BY <1>4, <2>3, <3>2, Zenon
      <4>2. Target[q][j] = IF descriptors[q][j].in_use THEN descriptors[q][j].file ELSE Null
        BY <3>2, TargetMeans, Zenon
      <4>3. Target'[q][j] = IF descriptors'[q][j].in_use THEN descriptors'[q][j].file ELSE Null
        BY <3>2, TargetMeansNext, Zenon
      <4> QED
        BY <4>1, <4>2, <4>3
    <3> QED
      BY <3>1, <3>2, HandleCases, Zenon
  <2>4. \A q \in Proc, j \in 0 .. CAPACITY + 1 :
           /\ Target[q][j] \in {f} => Target'[q][j] = Null
           /\ Target[q][j] \notin {f} => Target'[q][j] = Target[q][j]
    BY <1>2, <2>1, <2>2, <2>3, Zenon
  <2>5. {f} \in SUBSET OpenFiles
    BY <1>2, Zenon
  <2> QED
    BY <1>3, <2>4, <2>5, HandlesClosed, Zenon
<1>7. HandlesOK'
  <2>1. ASSUME NEW q \in Proc, NEW i \in 0 .. CAPACITY, descriptors'[q][i].in_use
        PROVE  descriptors'[q][i].file # Null
    <3>1. descriptors'[q][i] = descriptors[q][i]
      BY <1>4, <2>1, Zenon
    <3>2. descriptors[q][i].in_use => descriptors[q][i].file # Null
      BY Zenon DEF FileSysOK, HandlesOK
    <3> QED
      BY <2>1, <3>1, <3>2, Zenon
  <2> QED
    BY <1>0, <1>6, <2>1, Zenon DEF FileSysOK, HandlesOK
<1> QED
  BY <1>3, <1>5, <1>7, Zenon DEF FileSysOK

(* close_all_file_descriptors() closes the files of all descriptors of p.  *)
LEMMA CloseAllStep ==
    ASSUME FileSysOK, NEW p \in Proc, close_all_file_descriptors(p)
    PROVE  FileSysOK' /\ Live' \subseteq Live
<1> DEFINE F == {descriptors[p][i].file : i \in {j \in 0 .. CAPACITY : descriptors[p][j].in_use}}
<1>0. /\ filesys_lock = Null /\ executable[p] # Null /\ file_close(F)
      /\ descriptors' = [descriptors EXCEPT ![p] = [i \in 0 .. CAPACITY |-> NoDescriptor]]
      /\ exiting' = exiting \cup {p}
      /\ UNCHANGED <<inode_disk, data, dir, executable, filesys_lock, creating, removing, panic, lost>>
  BY Zenon DEF close_all_file_descriptors, Enter, Running
<1>1. creating = Null /\ removing = Null
  BY <1>0, LockFree, Zenon
<1>2. \A g : g \in F <=> \E i \in 0 .. CAPACITY : descriptors[p][i].in_use /\ g = descriptors[p][i].file
  BY Zenon
<1> HIDE DEF F
<1>3. F \in SUBSET OpenFiles
  <2> SUFFICES ASSUME NEW g \in F PROVE g \in OpenFiles
    BY Zenon
  <2>1. PICK i \in 0 .. CAPACITY : descriptors[p][i].in_use /\ g = descriptors[p][i].file
    BY <1>2, Zenon
  <2> QED
    BY <2>1, DescriptorFile, Zenon
<1>4. /\ open_inodes' \in [Sector -> Inode \cup {Null}] /\ files' \in [FileId -> File \cup {Null}]
      /\ LinksOK' /\ SectorsOK' /\ CountsOK' /\ OpenFiles' = OpenFiles \ F
      /\ Live' \subseteq Live
  BY <1>0, <1>1, <1>3, FilesClosed, Zenon
<1>5. /\ descriptors' \in [Proc -> [0 .. CAPACITY -> Descriptor]]
      /\ \A i \in 0 .. CAPACITY : ~descriptors'[p][i].in_use
      /\ \A q \in Proc : q # p => descriptors'[q] = descriptors[q]
  <2> DEFINE e == NoDescriptor
  <2>1. e \in Descriptor /\ ~e.in_use
    BY DEF Descriptor, NoDescriptor
  <2> HIDE DEF e
  <2>2. descriptors' = [descriptors EXCEPT ![p] = [i \in 0 .. CAPACITY |-> e]]
    BY <1>0, Zenon DEF e
  <2> QED
    BY <2>1, <2>2, Zenon DEF FileSysOK, TypeOK
<1>6. TypeOK'
  BY <1>0, <1>4, <1>5, Zenon DEF FileSysOK, TypeOK
<1>7. TargetsOK'
  <2>1. ASSUME NEW q \in Proc, NEW j \in 0 .. CAPACITY + 1, Target[q][j] \in F
        PROVE  Target'[q][j] = Null
    <3>1. PICK i \in 0 .. CAPACITY : descriptors[p][i].in_use /\ Target[q][j] = descriptors[p][i].file
      BY <1>2, <2>1, Zenon
    <3>2. Target[p][i] = Target[q][j] /\ Target[p][i] # Null
      BY <3>1, DescriptorFile, Zenon
    <3>3. q = p /\ j = i
      BY <3>2, HandleUnique, HandleCases, Zenon
    <3>4. ~descriptors'[p][i].in_use
      BY <1>5, Zenon
    <3> QED
      BY <3>3, <3>4, TargetMeansNext
  <2>2. ASSUME NEW q \in Proc, NEW j \in 0 .. CAPACITY + 1, Target[q][j] \notin F
        PROVE  Target'[q][j] = Target[q][j]
    <3>1. CASE j = CAPACITY + 1
      BY <1>0, <3>1, TargetMeans, TargetMeansNext, Zenon
    <3>2. CASE j \in 0 .. CAPACITY /\ q # p
      <4>1. descriptors'[q][j] = descriptors[q][j]
        BY <1>5, <3>2, Zenon
      <4>2. Target[q][j] = IF descriptors[q][j].in_use THEN descriptors[q][j].file ELSE Null
        BY <3>2, TargetMeans, Zenon
      <4>3. Target'[q][j] = IF descriptors'[q][j].in_use THEN descriptors'[q][j].file ELSE Null
        BY <3>2, TargetMeansNext, Zenon
      <4> QED
        BY <4>1, <4>2, <4>3
    <3>3. CASE j \in 0 .. CAPACITY /\ q = p
      <4>1. ~descriptors'[p][j].in_use
        BY <1>5, <3>3, Zenon
      <4>2. ~descriptors[p][j].in_use
        <5>1. descriptors[p][j].in_use => Target[p][j] = descriptors[p][j].file
          BY <3>3, TargetMeans, Zenon
        <5> QED
          BY <1>2, <2>2, <3>3, <5>1, Zenon
      <4> QED
        BY <3>3, <4>1, <4>2, TargetMeans, TargetMeansNext
    <3> QED
      BY <3>1, <3>2, <3>3, HandleCases, Zenon
  <2>3. \A q \in Proc, j \in 0 .. CAPACITY + 1 :
           /\ Target[q][j] \in F => Target'[q][j] = Null
           /\ Target[q][j] \notin F => Target'[q][j] = Target[q][j]
    BY <2>1, <2>2, Zenon
  <2> QED
    BY <1>3, <1>4, <2>3, HandlesClosed
<1>8. HandlesOK'
  <2>1. ASSUME NEW q \in Proc, NEW i \in 0 .. CAPACITY, descriptors'[q][i].in_use
        PROVE  descriptors'[q][i].file # Null
    <3>1. descriptors'[q][i] = descriptors[q][i]
      BY <1>5, <2>1, Zenon
    <3>2. descriptors[q][i].in_use => descriptors[q][i].file # Null
      BY Zenon DEF FileSysOK, HandlesOK
    <3> QED
      BY <2>1, <3>1, <3>2, Zenon
  <2> QED
    BY <1>0, <1>7, <2>1, Zenon DEF FileSysOK, HandlesOK
<1> QED
  BY <1>4, <1>6, <1>8, Zenon DEF FileSysOK

(* close_process_executable() closes the executable of p.                  *)
LEMMA CloseExecutableStep ==
    ASSUME FileSysOK, NEW p \in Proc, close_process_executable(p)
    PROVE  FileSysOK' /\ Live' \subseteq Live
<1> DEFINE f == executable[p]
           k == CAPACITY + 1
<1>0. /\ filesys_lock = Null /\ p \in exiting /\ file_close({f})
      /\ executable' = [executable EXCEPT ![p] = Null] /\ exiting' = exiting \ {p}
      /\ UNCHANGED <<inode_disk, data, dir, descriptors, filesys_lock, creating, removing, panic, lost>>
  BY Zenon DEF close_process_executable
<1>1. creating = Null /\ removing = Null /\ f # Null /\ k \in 0 .. CAPACITY + 1
  BY <1>0, LockFree, HandleCases, Zenon DEF FileSysOK, HandlesOK
<1>2. Target[p][k] = f
  BY TargetMeans, Zenon
<1> HIDE DEF f
<1>3. {f} \in SUBSET OpenFiles
  <2>1. Target[p][k] # Null
    BY <1>1, <1>2, Zenon
  <2>2. Target[p][k] \in OpenFiles
    BY <1>1, <2>1, HandleUnique
  <2> QED
    BY <1>2, <2>2, Zenon
<1>4. /\ open_inodes' \in [Sector -> Inode \cup {Null}] /\ files' \in [FileId -> File \cup {Null}]
      /\ LinksOK' /\ SectorsOK' /\ CountsOK' /\ OpenFiles' = OpenFiles \ {f}
      /\ Live' \subseteq Live
  BY <1>0, <1>1, <1>3, FilesClosed, Zenon
<1>5. /\ executable' \in [Proc -> FileId \cup {Null}] /\ executable'[p] = Null
      /\ \A q \in Proc : q # p => executable'[q] = executable[q]
  BY <1>0, Zenon DEF FileSysOK, TypeOK
<1>6. TypeOK'
  BY <1>0, <1>4, <1>5, Zenon DEF FileSysOK, TypeOK
<1>7. TargetsOK'
  <2>1. \A q \in Proc, j \in 0 .. CAPACITY + 1 : Target[q][j] = f => q = p /\ j = k
    BY <1>1, <1>2, HandleUnique, Zenon
  <2>2. Target'[p][k] = Null
    BY <1>5, TargetMeansNext, Zenon
  <2>3. ASSUME NEW q \in Proc, NEW j \in 0 .. CAPACITY + 1, ~(q = p /\ j = k)
        PROVE  Target'[q][j] = Target[q][j]
    <3>1. CASE j = CAPACITY + 1
      BY <1>5, <2>3, <3>1, TargetMeans, TargetMeansNext, Zenon
    <3>2. CASE j \in 0 .. CAPACITY
      BY <1>0, <3>2, TargetMeans, TargetMeansNext
    <3> QED
      BY <3>1, <3>2, HandleCases, Zenon
  <2>4. \A q \in Proc, j \in 0 .. CAPACITY + 1 :
           /\ Target[q][j] \in {f} => Target'[q][j] = Null
           /\ Target[q][j] \notin {f} => Target'[q][j] = Target[q][j]
    BY <1>2, <2>1, <2>2, <2>3, Zenon
  <2> QED
    BY <1>3, <1>4, <2>4, HandlesClosed, Zenon
<1>8. HandlesOK'
  <2>1. \A q \in exiting' : executable'[q] # Null
    <3>1. \A q \in exiting : q \in Proc /\ executable[q] # Null
      BY Zenon DEF FileSysOK, TypeOK, HandlesOK
    <3> QED
      BY <1>0, <1>5, <3>1, Zenon
  <2> QED
    BY <1>0, <1>7, <2>1, Zenon DEF FileSysOK, HandlesOK
<1> QED
  BY <1>4, <1>6, <1>8, Zenon DEF FileSysOK
-----------------------------------------------------------------------------
(* A step that only moves the position of a file.                          *)
LEMMA FileMoved ==
    ASSUME FileSysOK, NEW f \in OpenFiles, NEW file \in File,
           file.sector = files[f].sector, file.deny_write = files[f].deny_write,
           files' = [files EXCEPT ![f] = file],
           UNCHANGED <<free_map, inode_disk, dir, open_inodes, descriptors, executable, exiting,
                       filesys_lock, creating, removing, lost>>
    PROVE  FileSysOK'
<1>1. /\ files \in [FileId -> File \cup {Null}] /\ f \in FileId /\ files[f] # Null /\ file # Null
      /\ files' \in [FileId -> File \cup {Null}]
      /\ files'[f] = file /\ \A g \in FileId : g # f => files'[g] = files[g]
  BY NullAssumption, Zenon DEF FileSysOK, TypeOK, OpenFiles
<1>2. ASSUME NEW g \in FileId
      PROVE  /\ files'[g] = Null <=> files[g] = Null
             /\ files'[g].sector = files[g].sector /\ (files'[g].deny_write <=> files[g].deny_write)
  <2>1. CASE g = f
    BY <1>1, <2>1, Zenon
  <2>2. CASE g # f
    BY <1>1, <2>2, Zenon
  <2> QED
    BY <2>1, <2>2, Zenon
<1>3. OpenFiles' = OpenFiles
  BY <1>2, Zenon DEF OpenFiles
<1>4. ASSUME NEW z \in Sector PROVE Openers'[z] = Openers[z] /\ Deniers'[z] = Deniers[z]
  <2>1. ASSUME NEW g
        PROVE  (g \in Openers'[z] <=> g \in Openers[z]) /\ (g \in Deniers'[z] <=> g \in Deniers[z])
    <3>1. /\ g \in Openers[z] <=> g \in FileId /\ files[g] # Null /\ files[g].sector = z
          /\ g \in Deniers[z] <=> g \in Openers[z] /\ files[g].deny_write
      BY OpenersMeans, Zenon
    <3>2. /\ g \in Openers'[z] <=> g \in FileId /\ files'[g] # Null /\ files'[g].sector = z
          /\ g \in Deniers'[z] <=> g \in Openers'[z] /\ files'[g].deny_write
      BY OpenersMeansNext, Zenon
    <3> QED
      BY <1>2, <3>1, <3>2, Zenon
  <2> QED
    BY <2>1, Zenon
<1>5. Linked' = Linked /\ Live' = Live
  BY Zenon DEF Linked, Live
<1>6. TypeOK'
  BY <1>1, Zenon DEF FileSysOK, TypeOK
<1>7. LinksOK'
  BY <1>5, Zenon DEF FileSysOK, LinksOK
<1>8. SectorsOK'
  BY <1>5, SectorsSame, Zenon DEF FileSysOK
<1>9. CountsOK'
  BY <1>4 DEF FileSysOK, CountsOK
<1>10. HandlesOK'
  BY <1>3, HandlesSame, Zenon DEF FileSysOK
<1> QED
  BY <1>6, <1>7, <1>8, <1>9, <1>10, Zenon DEF FileSysOK

(* The inode of an open file is on the disk.                               *)
LEMMA OpenFileInode ==
    ASSUME FileSysOK, NEW f \in OpenFiles
    PROVE  /\ files[f] \in File /\ inode_disk[files[f].sector] \in InodeDisk
           /\ files[f].sector \in Live
<1>1. f \in FileId /\ files[f] # Null /\ files[f] \in File
  BY Zenon DEF FileSysOK, TypeOK, OpenFiles
<1>2. files[f].sector \in Sector
  BY <1>1 DEF File
<1>3. open_inodes[files[f].sector] # Null
  BY <1>1, <1>2, OpenersMeans, Zenon DEF FileSysOK, CountsOK
<1>4. files[f].sector \in Live /\ inode_disk[files[f].sector] # Null
  BY <1>2, <1>3, Zenon DEF FileSysOK, SectorsOK, Live
<1> QED
  BY <1>1, <1>2, <1>4, Zenon DEF FileSysOK, TypeOK

(* A position that moves by the bytes transferred, or to a given place.    *)
LEMMA PositionMoves ==
    ASSUME FileSysOK, NEW f \in OpenFiles, NEW size \in Int,
           NEW file, \/ file = [files[f] EXCEPT !.pos = @ + bytes_transferred(files[f].sector, size, @)]
                     \/ file = [files[f] EXCEPT !.pos = size]
    PROVE  /\ file \in File /\ file.sector = files[f].sector
           /\ file.deny_write = files[f].deny_write
<1>1. files[f] \in File /\ inode_disk[files[f].sector] \in InodeDisk
  BY OpenFileInode, Zenon
<1>2. files[f].pos \in Int /\ inode_disk[files[f].sector].length \in Int
  BY <1>1 DEF File, InodeDisk
<1>3. bytes_transferred(files[f].sector, size, files[f].pos) \in Int
  BY <1>2 DEF bytes_transferred, Smaller
<1>4. PICK n \in Int : file = [files[f] EXCEPT !.pos = n]
  <2>1. files[f].pos + bytes_transferred(files[f].sector, size, files[f].pos) \in Int
    BY <1>2, <1>3
  <2> QED
    BY <2>1, Zenon
<1> QED
  BY <1>1, <1>4 DEF File

(* fd_read() moves the position.                                           *)
LEMMA ReadStep ==
    ASSUME FileSysOK, NEW p \in Proc, NEW fd, NEW size \in ReadSizes, fd_read(p, fd, size)
    PROVE  FileSysOK'
<1> DEFINE k == get_file_descriptor(p, fd)
           f == descriptors[p][k].file
           file == file_read(files[f], size)
<1>0. /\ k <= CAPACITY /\ files' = [files EXCEPT ![f] = file]
      /\ UNCHANGED <<diskVars, open_inodes, descriptors, executable, exiting, filesys_lock, creating,
                     removing, panic, lost>>
  BY Zenon DEF fd_read
<1>1. f \in OpenFiles
  BY <1>0, DescriptorInUse, DescriptorFile, Zenon
<1>2. file = [files[f] EXCEPT !.pos = @ + bytes_transferred(files[f].sector, size, @)]
  BY Zenon DEF file_read
<1> HIDE DEF f, file
<1>3. file \in File /\ file.sector = files[f].sector /\ file.deny_write = files[f].deny_write
  <2>1. size \in Int
    BY FileSysAssumption
  <2> QED
    BY <1>1, <1>2, <2>1, PositionMoves, Zenon
<1> QED
  BY <1>0, <1>1, <1>3, FileMoved, Zenon DEF diskVars

(* fd_write() changes the data and the position.                           *)
LEMMA WriteStep ==
    ASSUME FileSysOK, NEW p \in Proc, NEW fd, NEW bytes \in Buffers, fd_write(p, fd, bytes)
    PROVE  FileSysOK'
<1> DEFINE k == get_file_descriptor(p, fd)
           f == descriptors[p][k].file
           file == file_write(files[f], bytes)
<1>0. /\ k <= CAPACITY /\ files' = [files EXCEPT ![f] = file]
      /\ UNCHANGED <<free_map, inode_disk, dir, open_inodes, descriptors, executable,
                     exiting, filesys_lock, creating, removing, panic, lost>>
  BY Zenon DEF fd_write
<1>1. f \in OpenFiles
  BY <1>0, DescriptorInUse, DescriptorFile, Zenon
<1>2. file = [files[f] EXCEPT !.pos = @ + bytes_transferred(files[f].sector, Len(bytes), @)]
  BY Zenon DEF file_write
<1> HIDE DEF f, file
<1>3. file \in File /\ file.sector = files[f].sector /\ file.deny_write = files[f].deny_write
  <2>1. Len(bytes) \in Int
    BY FileSysAssumption
  <2> QED
    BY <1>1, <1>2, <2>1, PositionMoves, Zenon
<1> QED
  BY <1>0, <1>1, <1>3, FileMoved, Zenon

(* fd_seek() sets the position, or panics.                                 *)
LEMMA SeekStep ==
    ASSUME FileSysOK, NEW p \in Proc, NEW fd, NEW position \in Positions, fd_seek(p, fd, position)
    PROVE  FileSysOK' \/ UNCHANGED <<diskVars, memVars, filesys_lock, creating, removing, lost>>
<1> DEFINE k == get_file_descriptor(p, fd)
           f == descriptors[p][k].file
           file == file_seek(files[f], position)
<1>1. CASE Panic
  BY <1>1, Zenon DEF Panic
<1>2. CASE ~Panic
  <2>0. /\ k <= CAPACITY /\ files' = [files EXCEPT ![f] = file]
        /\ UNCHANGED <<diskVars, open_inodes, descriptors, executable, exiting, filesys_lock,
                       creating, removing, panic, lost>>
    BY <1>2, Zenon DEF fd_seek
  <2>1. f \in OpenFiles
    BY <2>0, DescriptorInUse, DescriptorFile, Zenon
  <2>2. file = [files[f] EXCEPT !.pos = position]
    BY Zenon DEF file_seek
  <2> HIDE DEF f, file
  <2>3. file \in File /\ file.sector = files[f].sector /\ file.deny_write = files[f].deny_write
    <3>1. position \in Int
      BY FileSysAssumption
    <3> QED
      BY <2>1, <2>2, <3>1, PositionMoves, Zenon
  <2> QED
    BY <2>0, <2>1, <2>3, FileMoved, Zenon DEF diskVars
<1> QED
  BY <1>1, <1>2, Zenon
-----------------------------------------------------------------------------
(* The formatted file system.                                              *)
LEMMA InitOK == Init => FileSysOK
<1> SUFFICES ASSUME Init PROVE FileSysOK
  OBVIOUS
<1> DEFINE boot == [start |-> 3, length |-> BLOCK_SECTOR_SIZE]
           program == [in_use |-> TRUE, name |-> Program, sector |-> 2]
<1>1. 0 \in Sector /\ 2 \in Sector /\ 1 \in 1 .. DirSlots
  BY FileSysAssumption DEF Sector
<1>2. boot \in InodeDisk /\ boot # Null /\ boot.start = 3 /\ boot.length = BLOCK_SECTOR_SIZE
  <2>1. boot \in InodeDisk /\ boot.start = 3 /\ boot.length = BLOCK_SECTOR_SIZE
    BY FileSysAssumption DEF InodeDisk
  <2> QED
    BY <2>1, NullAssumption, Zenon
<1>3. program \in Entry /\ program.in_use /\ program.sector = 2 /\ NoEntry \in Entry /\ ~NoEntry.in_use
  BY <1>1 DEF Entry, NoEntry
<1>4. NoDescriptor \in Descriptor /\ ~NoDescriptor.in_use
  BY DEF Descriptor, NoDescriptor
<1> HIDE DEF boot, program
<1>5. /\ inode_disk \in [Sector -> InodeDisk \cup {Null}] /\ inode_disk[2] = boot
  BY <1>1, <1>2, Zenon DEF Init, boot
<1>6. /\ dir \in [1 .. DirSlots -> Entry] /\ dir[1] = program
      /\ \A i \in 1 .. DirSlots : dir[i].in_use => i = 1
  BY <1>1, <1>3, Zenon DEF Init, program
<1>7. TypeOK
  BY <1>4, <1>5, <1>6, Zenon DEF Init, TypeOK
<1>8. Linked = {2} /\ Live = {2}
  <2>1. Linked = {2}
    BY <1>1, <1>3, <1>6, Zenon DEF Linked
  <2>2. \A s \in Sector : open_inodes[s] = Null
    BY Zenon DEF Init
  <2> QED
    BY <2>1, <2>2, Zenon DEF Live
<1>9. LinksOK
  <2>1. \A s \in Sector : open_inodes[s] = Null
    BY Zenon DEF Init
  <2> QED
    BY <1>6, <2>1, Zenon DEF LinksOK, Init
<1>10. SectorsOK
  <2>1. Own[2] = {2, 3}
    <3>1. bytes_to_sectors(BLOCK_SECTOR_SIZE) = 1
      BY FileSysAssumption DEF bytes_to_sectors
    <3>2. Extent(3, 1) = {3}
      BY DEF Extent
    <3>3. Own[2] = {2} \cup Extent(3, 1)
      BY <1>1, <1>2, <1>5, <3>1, Zenon DEF Own, Owned, InodeExtent
    <3> QED
      BY <3>2, <3>3, Zenon
  <2>2. free_map = {0, 1, 2, 3} /\ lost = {} /\ Reserved = {0, 1}
    BY DEF Init, Reserved, FREE_MAP_SECTOR, ROOT_DIR_SECTOR
  <2>3. Partition(Live, Own, free_map, lost)
    BY <1>8, <2>1, <2>2 DEF Partition
  <2> QED
    BY <1>2, <1>5, <1>8, <2>3, Zenon DEF SectorsOK, Init
<1>11. OpenFiles = {}
  BY Zenon DEF Init, OpenFiles
<1>12. CountsOK
  <2>1. \A s \in Sector : Openers[s] = {}
    BY <1>11, Zenon DEF Openers, Of
  <2>2. \A s \in Sector : open_inodes[s] = Null /\ removing # s
    BY NullAssumption, Zenon DEF Init
  <2> QED
    BY <2>1, <2>2, Zenon DEF CountsOK
<1>13. HandlesOK
  <2>1. \A p \in Proc, i \in 0 .. CAPACITY : ~descriptors[p][i].in_use
    BY <1>4, Zenon DEF Init
  <2>2. \A p \in Proc, j \in 0 .. CAPACITY + 1 : Target[p][j] = Null
    <3> SUFFICES ASSUME NEW p \in Proc, NEW j \in 0 .. CAPACITY + 1 PROVE Target[p][j] = Null
      BY Zenon
    <3>1. executable[p] = Null
      BY Zenon DEF Init
    <3> QED
      BY <2>1, <3>1, TargetMeans, HandleCases
  <2>3. LeadsTo(Target, OpenFiles)
    BY <1>11, <2>2 DEF LeadsTo
  <2> QED
    BY <2>1, <2>3, Zenon DEF HandlesOK, TargetsOK, Init
<1> QED
  BY <1>7, <1>9, <1>10, <1>12, <1>13, Zenon DEF FileSysOK

(* After a crash the removed files that were still open are lost.          *)
LEMMA BootStep ==
    ASSUME FileSysOK, filesys_init PROVE FileSysOK'
<1> DEFINE K == {z \in Sector : open_inodes[z] # Null /\ open_inodes[z].removed}
<1>0. /\ lost' = lost \cup UNION {Owned(s) : s \in K}
      /\ open_inodes' = [s \in Sector |-> Null] /\ files' = [f \in FileId |-> Null]
      /\ descriptors' = [p \in Proc |-> [i \in 0 .. CAPACITY |-> NoDescriptor]]
      /\ executable' = [p \in Proc |-> Null] /\ exiting' = {}
      /\ filesys_lock' = Null /\ creating' = Null /\ removing' = Null
      /\ UNCHANGED <<free_map, inode_disk, data, dir>>
  BY Zenon DEF filesys_init, Owned, diskVars
<1>1. NoDescriptor \in Descriptor /\ ~NoDescriptor.in_use
  BY DEF Descriptor, NoDescriptor
<1>2. TypeOK'
  BY <1>0, <1>1, Zenon DEF FileSysOK, TypeOK
<1>3. \A s \in Sector : open_inodes'[s] = Null
  BY <1>0, Zenon
<1>4. Linked' = Linked /\ Live' = Live \ K /\ K \in SUBSET Live /\ Own' = Own
  <2>1. Linked' = Linked /\ Own' = Own
    BY <1>0, Zenon DEF Linked, Own, Owned, InodeExtent
  <2>2. \A z : z \in Live <=> z \in Linked \/ (z \in Sector /\ open_inodes[z] # Null)
    BY Zenon DEF Live
  <2>3. \A z : z \in Live' <=> z \in Linked
    BY <1>3, <2>1, Zenon DEF Live
  <2>4. \A z : z \in K <=> z \in Sector /\ open_inodes[z] # Null /\ open_inodes[z].removed
    BY Zenon
  <2>5. \A z \in Sector : open_inodes[z] # Null => (open_inodes[z].removed <=> z \notin Linked)
    BY Zenon DEF FileSysOK, LinksOK
  <2> HIDE DEF K
  <2> QED
    BY <2>1, <2>2, <2>3, <2>4, <2>5, Zenon
<1>5. LinksOK'
  BY <1>0, <1>3, <1>4, Zenon DEF FileSysOK, LinksOK
<1>6. SectorsOK'
  <2>1. {Owned(s) : s \in K} = {Own[s] : s \in K}
    BY Zenon DEF Own
  <2> HIDE DEF K
  <2>2. Partition(Live \ K, Own, free_map, lost \cup UNION {Own[s] : s \in K})
    <3>1. Partition(Live, Own, free_map, lost)
      BY Zenon DEF FileSysOK, SectorsOK
    <3>2. K \in SUBSET Live
      BY <1>4, Zenon
    <3> QED
      BY <3>1, <3>2, PartitionLose
  <2>3. Partition(Live', Own', free_map', lost')
    BY <1>0, <1>4, <2>1, <2>2, Zenon
  <2>4. \A s \in Live' : inode_disk'[s] # Null
    BY <1>0, <1>4, Zenon DEF FileSysOK, SectorsOK
  <2> QED
    BY <1>0, <2>3, <2>4, SectorsNext, Zenon
<1>7. OpenFiles' = {}
  BY <1>0, Zenon DEF OpenFiles
<1>8. CountsOK'
  <2>1. \A s \in Sector : Openers'[s] = {}
    BY <1>7, Zenon DEF Openers, Of
  <2>2. \A s \in Sector : removing' # s
    BY <1>0, NullAssumption, Zenon
  <2> QED
    BY <1>3, <2>1, <2>2, Zenon DEF CountsOK
<1>9. HandlesOK'
  <2>1. \A p \in Proc, i \in 0 .. CAPACITY : ~descriptors'[p][i].in_use
    BY <1>0, <1>1, Zenon
  <2>2. \A p \in Proc, j \in 0 .. CAPACITY + 1 : Target'[p][j] = Null
    <3> SUFFICES ASSUME NEW p \in Proc, NEW j \in 0 .. CAPACITY + 1 PROVE Target'[p][j] = Null
      BY Zenon
    <3>1. executable'[p] = Null
      BY <1>0, Zenon
    <3> QED
      BY <2>1, <3>1, TargetMeansNext, HandleCases
  <2>3. LeadsTo(Target', OpenFiles')
    BY <1>7, <2>2 DEF LeadsTo
  <2> QED
    BY <1>0, <2>1, <2>3, TargetsNext, Zenon DEF HandlesOK
<1> QED
  BY <1>2, <1>5, <1>6, <1>8, <1>9, Zenon DEF FileSysOK

(* Steps that change nothing but the lock and the panic.                   *)
LEMMA QuietStep ==
    ASSUME FileSysOK, UNCHANGED <<diskVars, memVars, creating, removing, lost>>,
           \/ UNCHANGED filesys_lock
           \/ filesys_lock' \in Proc
           \/ filesys_lock' = Null /\ creating = Null /\ removing = Null
    PROVE  FileSysOK'
<1>1. Linked' = Linked /\ Live' = Live
  BY Zenon DEF Linked, Live, diskVars, memVars
<1>2. TypeOK'
  BY Zenon DEF FileSysOK, TypeOK, diskVars, memVars
<1>3. LinksOK'
  <2>1. filesys_lock' \in Proc => filesys_lock' # Null
    BY NullAssumption, Zenon
  <2> QED
    BY <1>1, <2>1, Zenon DEF FileSysOK, LinksOK, diskVars, memVars
<1>4. SectorsOK'
  BY <1>1, SectorsSame, Zenon DEF FileSysOK, diskVars
<1> QED
  BY <1>2, <1>3, <1>4, MemorySame, Zenon DEF FileSysOK

(* Every step of the file system keeps the invariant.                      *)
LEMMA FileSysStep ==
    ASSUME FileSysOK, [Next]_vars PROVE FileSysOK'
<1>1. CASE UNCHANGED vars
  BY <1>1, QuietStep, Zenon DEF vars
<1>2. CASE filesys_init
  BY <1>2, BootStep, Zenon
<1>3. ASSUME NEW p \in Proc, NEW name \in Name \cup {BadName}, NEW size \in Sizes,
             fd_create(p, name, size)
      PROVE  FileSysOK'
  BY <1>3, CreateStep, Zenon
<1>4. ASSUME NEW p \in Proc, inode_create(p) PROVE FileSysOK'
  <2>1. CASE UNCHANGED <<diskVars, memVars, filesys_lock, creating, removing, lost>>
    BY <2>1, QuietStep, Zenon
  <2> QED
    BY <1>4, <2>1, InodeCreateStep, Zenon
<1>5. ASSUME NEW p \in Proc, dir_add(p) \/ inode_close(p) PROVE FileSysOK'
  BY <1>5, DirAddStep, InodeCloseStep, Zenon
<1>6. ASSUME NEW p \in Proc, NEW name \in Name,
             fd_remove(p, name) \/ fd_open(p, name) \/ open_process_executable(p, name)
      PROVE  FileSysOK'
  BY <1>6, RemoveStep, OpenStep, ExecuteStep, Zenon
<1>7. ASSUME NEW p \in Proc, NEW fd, fd_close(p, fd) PROVE FileSysOK'
  BY <1>7, CloseStep, Zenon
<1>8. ASSUME NEW p \in Proc, NEW fd, NEW size \in ReadSizes, fd_read(p, fd, size) PROVE FileSysOK'
  BY <1>8, ReadStep, Zenon
<1>9. ASSUME NEW p \in Proc, NEW fd, NEW bytes \in Buffers, fd_write(p, fd, bytes) PROVE FileSysOK'
  BY <1>9, WriteStep, Zenon
<1>10. ASSUME NEW p \in Proc, NEW fd, NEW position \in Positions, fd_seek(p, fd, position)
       PROVE  FileSysOK'
  <2>1. CASE UNCHANGED <<diskVars, memVars, filesys_lock, creating, removing, lost>>
    BY <2>1, QuietStep, Zenon
  <2> QED
    BY <1>10, <2>1, SeekStep, Zenon
<1>11. ASSUME NEW p \in Proc, fd_read_stdin(p) PROVE FileSysOK'
  BY <1>11, QuietStep, Zenon DEF fd_read_stdin
<1>12. ASSUME NEW p \in Proc, fd_read_stdin_return(p) PROVE FileSysOK'
  BY <1>12, QuietStep, Zenon DEF fd_read_stdin_return
<1>13. ASSUME NEW p \in Proc, close_all_file_descriptors(p) \/ close_process_executable(p)
       PROVE  FileSysOK'
  BY <1>13, CloseAllStep, CloseExecutableStep, Zenon
<1> QED
  BY <1>1, <1>2, <1>3, <1>4, <1>5, <1>6, <1>7, <1>8, <1>9, <1>10, <1>11, <1>12, <1>13, Zenon DEF Next

(* The invariant holds in every reachable state.                           *)
LEMMA FileSysInvariant == Spec => []FileSysOK
<1>1. FileSysOK /\ [Next]_vars => FileSysOK'
  BY FileSysStep
<1> QED
  BY <1>1, InitOK, PTL DEF Spec

(* No sector belongs to two files, every sector of a file is marked used   *)
(* and only lost ones are marked used besides, whatever is created,        *)
(* removed, opened and closed, between any two writes to the disk and      *)
(* after a crash at any moment (SectorsOwned; free_map, inode_close(),     *)
(* filesys_create()).                                                      *)
THEOREM SectorsInvariant == Spec => []SectorsOwned
<1>1. FileSysOK => SectorsOwned
  <2> SUFFICES ASSUME FileSysOK PROVE SectorsOwned
    OBVIOUS
  <2>1. Partition(Live, Own, free_map, lost) /\ \A s \in Live : inode_disk[s] # Null
    BY Zenon DEF FileSysOK, SectorsOK
  <2>2. \A s \in Live : Own[s] = Owned(s)
    BY LiveSectors, Zenon DEF FileSysOK, Own
  <2>3. \A s, z \in Live : s # z => Owned(s) \cap Owned(z) = {}
    <3> SUFFICES ASSUME NEW s \in Live, NEW z \in Live, NEW x \in Owned(s), x \in Owned(z)
                 PROVE  s = z
      BY Zenon
    <3>1. x \in Own[s] /\ x \in Own[z]
      BY <2>2, Zenon
    <3> QED
      BY <2>1, <3>1, Zenon DEF Partition
  <2>4. \A x : x \in FileSectors <=> \E s \in Live : x \in Owned(s)
    BY Zenon DEF FileSectors
  <2>5. \A x : x \in FileSectors <=> \E s \in Live : x \in Own[s]
    BY <2>2, <2>4, Zenon
  <2>6. \A x : x \in free_map <=> x \in Reserved \/ x \in lost \/ x \in FileSectors
    BY <2>1, <2>5, Zenon DEF Partition
  <2>7. free_map = {FREE_MAP_SECTOR, ROOT_DIR_SECTOR} \cup FileSectors \cup lost
    BY <2>6, Zenon DEF Reserved
  <2>8. lost \cap FileSectors = {}
    BY <2>1, <2>5, Zenon DEF Partition
  <2> QED
    BY <2>1, <2>3, <2>7, <2>8, Zenon DEF SectorsOwned
<1> QED
  BY <1>1, FileSysInvariant, PTL

(* The handles that lead to f, as pairs.                                   *)
LEMMA HandlesMeans ==
    ASSUME NEW f, f # Null, NEW h
    PROVE  h \in Handles(f) <=> \E p \in Proc, i \in 0 .. CAPACITY + 1 :
                                   h = <<p, i>> /\ Target[p][i] = f
<1>1. ASSUME h \in Handles(f)
      PROVE  \E p \in Proc, i \in 0 .. CAPACITY + 1 : h = <<p, i>> /\ Target[p][i] = f
  <2>1. CASE /\ h \in Proc \X (0 .. CAPACITY) /\ descriptors[h[1]][h[2]].in_use
             /\ descriptors[h[1]][h[2]].file = f
    <3>1. h[1] \in Proc /\ h[2] \in 0 .. CAPACITY /\ h = <<h[1], h[2]>>
      BY <2>1
    <3>2. Target[h[1]][h[2]] = f
      BY <2>1, <3>1, TargetMeans
    <3> QED
      BY <3>1, <3>2, HandleCases, Zenon
  <2>2. CASE h \in {q \in Proc : executable[q] = f} \X {CAPACITY + 1}
    <3>1. h[1] \in Proc /\ executable[h[1]] = f /\ h[2] = CAPACITY + 1 /\ h = <<h[1], h[2]>>
      BY <2>2
    <3>2. Target[h[1]][CAPACITY + 1] = f
      BY <3>1, TargetMeans, Zenon
    <3> QED
      BY <3>1, <3>2, HandleCases, Zenon
  <2> QED
    BY <1>1, <2>1, <2>2, Zenon DEF Handles
<1>2. ASSUME NEW p \in Proc, NEW i \in 0 .. CAPACITY + 1, h = <<p, i>>, Target[p][i] = f
      PROVE  h \in Handles(f)
  <2>1. h[1] = p /\ h[2] = i
    BY <1>2
  <2>2. CASE i = CAPACITY + 1
    <3>1. executable[p] = f
      BY <1>2, <2>2, TargetMeans, Zenon
    <3>2. h \in {q \in Proc : executable[q] = f} \X {CAPACITY + 1}
      BY <1>2, <2>2, <3>1
    <3> QED
      BY <3>2, Zenon DEF Handles
  <2>3. CASE i \in 0 .. CAPACITY
    <3>1. Target[p][i] = IF descriptors[p][i].in_use THEN descriptors[p][i].file ELSE Null
      BY <2>3, TargetMeans, Zenon
    <3>2. descriptors[p][i].in_use /\ descriptors[p][i].file = f
      BY <1>2, <3>1
    <3>3. h \in Proc \X (0 .. CAPACITY)
      BY <1>2, <2>3
    <3> QED
      BY <2>1, <3>2, <3>3, Zenon DEF Handles
  <2> QED
    BY <2>2, <2>3, HandleCases, Zenon
<1> QED
  BY <1>1, <1>2, Zenon

(* An inode counts the files that have it open and those that deny writes, *)
(* over every order of open, exec, remove, close, exit and crash, and      *)
(* every struct file has exactly one descriptor or executable to close it  *)
(* (CountsMatch; inode_open(), inode_close(), file_close()).               *)
THEOREM CountsInvariant == Spec => []CountsMatch
<1>1. FileSysOK => CountsMatch
  <2> SUFFICES ASSUME FileSysOK PROVE CountsMatch
    OBVIOUS
  <2>1. \A s \in Sector :
         IF open_inodes[s] = Null THEN Of(OpenFiles, s) = {}
         ELSE /\ open_inodes[s].open_cnt = Cardinality(Of(OpenFiles, s))
                                          + (IF removing = s THEN 1 ELSE 0)
              /\ open_inodes[s].deny_write_cnt = Cardinality(Denying(Of(OpenFiles, s)))
    <3> SUFFICES ASSUME NEW s \in Sector
                 PROVE  /\ open_inodes[s] = Null => Of(OpenFiles, s) = {}
                        /\ open_inodes[s] # Null =>
                            /\ open_inodes[s].open_cnt = Cardinality(Of(OpenFiles, s))
                                                         + (IF removing = s THEN 1 ELSE 0)
                            /\ open_inodes[s].deny_write_cnt = Cardinality(Denying(Of(OpenFiles, s)))
      BY Zenon
    <3>1. Openers[s] = Of(OpenFiles, s) /\ Deniers[s] = Denying(Of(OpenFiles, s))
      BY Zenon DEF Openers, Deniers
    <3> QED
      BY <3>1 DEF FileSysOK, CountsOK
  <2>2. ASSUME NEW f \in FileId
        PROVE  Cardinality(Handles(f)) = IF files[f] = Null THEN 0 ELSE 1
    <3>0. f # Null /\ LeadsTo(Target, OpenFiles)
      BY NullAssumption, Zenon DEF FileSysOK, HandlesOK, TargetsOK
    <3>1. CASE files[f] = Null
      <4>1. f \notin OpenFiles
        BY <3>1, Zenon DEF OpenFiles
      <4>2. \A p \in Proc, i \in 0 .. CAPACITY + 1 : Target[p][i] # f
        BY <3>0, <4>1 DEF LeadsTo
      <4>3. Handles(f) = {}
        BY <3>0, <4>2, HandlesMeans, Zenon
      <4> QED
        BY <3>1, <4>3, FS_EmptySet, Zenon
    <3>2. CASE files[f] # Null
      <4>1. f \in OpenFiles
        BY <3>2, Zenon DEF OpenFiles
      <4>2. PICK p \in Proc : \E i \in 0 .. CAPACITY + 1 : Target[p][i] = f
        BY <3>0, <4>1 DEF LeadsTo
      <4>3. PICK i \in 0 .. CAPACITY + 1 : Target[p][i] = f
        BY <4>2, Zenon
      <4>4. \A q \in Proc, j \in 0 .. CAPACITY + 1 : Target[q][j] = f => q = p /\ j = i
        <5>1. Target[p][i] # Null
          BY <3>0, <4>3, Zenon
        <5> QED
          BY <4>3, <5>1, HandleUnique, Zenon
      <4>5. Handles(f) = {<<p, i>>}
        <5>1. ASSUME NEW h PROVE h \in Handles(f) <=> h = <<p, i>>
          <6>1. h \in Handles(f) <=> \E q \in Proc, j \in 0 .. CAPACITY + 1 :
                                       h = <<q, j>> /\ Target[q][j] = f
            BY <3>0, HandlesMeans, Zenon
          <6> QED
            BY <4>3, <4>4, <6>1, Zenon
        <5> QED
          BY <5>1, Zenon
      <4> QED
        BY <3>2, <4>5, FS_Singleton, Zenon
    <3> QED
      BY <3>1, <3>2, Zenon
  <2> QED
    BY <2>1, <2>2, Zenon DEF CountsMatch
<1> QED
  BY <1>1, FileSysInvariant, PTL
=============================================================================
