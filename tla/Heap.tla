------------------------------- MODULE Heap -------------------------------
(***************************************************************************)
(* malloc() and free() (threads/malloc.c) on top of the page allocator     *)
(* (threads/palloc.c).  malloc() holds the lock of a descriptor while it   *)
(* takes a page, palloc_get_multiple() the lock of the pool while it scans *)
(* the bitmap; palloc_free_multiple() takes no lock.                       *)
(*                                                                         *)
(* A block is <<page, index>>, a big block <<page, 0>> has pages of its    *)
(* own.  Of a block's bytes the model keeps one: the thread that wrote it, *)
(* 0, or Freed for the 0xcc that free() and palloc_free_multiple() write.  *)
(***************************************************************************)
EXTENDS Integers, Sequences, FiniteSets, SequencesExt, FiniteSetsExt, Bitmap

CONSTANTS Thread,
          Pages,           \* pages of the kernel pool
          PGSIZE,          \* bytes of a page
          ArenaSize,       \* sizeof (struct arena)
          MinBlock,        \* the smallest block size
          Sizes,           \* bound: sizes that are asked for
          MaxBlocks,       \* bound: blocks in use at a time
          Freed, Null

Page == 0 .. Pages - 1

(* malloc_init(): the descriptors, one per block size below half a page.   *)
desc == {MinBlock * 2^k : k \in 0 .. 6} \cap 1 .. (PGSIZE \div 2 - 1)
blocks_per_arena(d) == (PGSIZE - ArenaSize) \div d
Block == Page \X (0 .. blocks_per_arena(MinBlock))

VARIABLES
    used_map,    \* the bitmap of the kernel pool
    pool_lock,   \* its holder
    arena,       \* struct arena at the start of a page
    free_list,   \* of each descriptor
    desc_lock,   \* holder of each descriptor's lock
    content,     \* what the bytes of each block are
    blocks,      \* blocks of each thread
    pc,          \* where each thread is
    size,        \* the size malloc() was called with
    old_block,   \* realloc(): the block to be replaced, or the block free() frees
    pages,       \* the pages a thread is taking or giving back
    panic        \* an ASSERT has failed

poolVars == <<used_map, pool_lock>>
listVars == <<arena, free_list, desc_lock>>
vars == <<poolVars, listVars, content, blocks, pc, size, old_block, pages, panic>>

Init ==
    /\ used_map = [i \in Page |-> FALSE]
    /\ pool_lock = Null
    /\ arena = [i \in Page |-> Null]
    /\ free_list = [d \in desc |-> <<>>]
    /\ desc_lock = [d \in desc |-> Null]
    /\ content = [b \in Block |-> 0]
    /\ blocks = [t \in Thread |-> {}]
    /\ pc = [t \in Thread |-> "idle"]
    /\ size = [t \in Thread |-> 0]
    /\ old_block = [t \in Thread |-> Null]
    /\ pages = [t \in Thread |-> {}]
    /\ panic = FALSE

(* The descriptor malloc() finds for the size, 0 for a big block.          *)
DescOf(n) == IF \E d \in desc : d >= n THEN Min({d \in desc : d >= n}) ELSE 0
page_cnt(t) == IF DescOf(size[t]) = 0 THEN (size[t] + ArenaSize + PGSIZE - 1) \div PGSIZE ELSE 1
BlockPages(b) == b[1] .. b[1] + arena[b[1]].free_cnt - 1
ArenaBlocks(a, d) == [i \in 1 .. blocks_per_arena(d) |-> <<a, i>>]
Goto(t, label) == pc' = [pc EXCEPT ![t] = label]

(* malloc() gives b to its caller, which fills it; realloc() copies the    *)
(* old block and goes on to free it.                                       *)
Give(t, b) ==
    /\ blocks' = [blocks EXCEPT ![t] = @ \cup {b}]
    /\ content' = [content EXCEPT ![b] = IF old_block[t] = Null THEN t ELSE content[old_block[t]]]
    /\ Goto(t, IF old_block[t] = Null THEN "idle" ELSE "free")
    /\ size' = [size EXCEPT ![t] = 0]
-----------------------------------------------------------------------------
(* malloc(), and calloc() and realloc(), which call it: find the           *)
(* descriptor, take its lock, and go on to its first free block or to ask  *)
(* for pages.                                                              *)
malloc(t, n, old) ==
    LET d == DescOf(n) IN
    /\ ~panic /\ pc[t] = "idle" /\ (old # Null => old \in blocks[t])
    /\ (old = Null => Cardinality(UNION Range(blocks)) < MaxBlocks)
    /\ (d # 0 => desc_lock[d] = Null)
    /\ size' = [size EXCEPT ![t] = n]
    /\ old_block' = [old_block EXCEPT ![t] = old]
    /\ desc_lock' = IF d = 0 THEN desc_lock ELSE [desc_lock EXCEPT ![d] = t]
    /\ Goto(t, IF d = 0 \/ free_list[d] = <<>> THEN "get" ELSE "pop")
    /\ UNCHANGED <<poolVars, arena, free_list, content, blocks, pages, panic>>

(* Mutant: the pool has no lock.                                           *)
PoolUnlocked_always == TRUE

PoolUnlocked == pool_lock = Null

(* palloc_get_multiple(): bitmap_scan() under the lock of the pool ...     *)
palloc_get_multiple(t) ==
    LET idx == bitmap_scan(used_map, 0, page_cnt(t), FALSE)
        d == DescOf(size[t])
    IN /\ ~panic /\ pc[t] = "get" /\ PoolUnlocked
       /\ IF idx # BITMAP_ERROR
          THEN /\ pool_lock' = t
               /\ pages' = [pages EXCEPT ![t] = idx .. idx + page_cnt(t) - 1]
               /\ Goto(t, "flip") /\ UNCHANGED <<desc_lock, size, old_block>>
          ELSE /\ desc_lock' = IF d = 0 THEN desc_lock ELSE [desc_lock EXCEPT ![d] = Null]
               /\ size' = [size EXCEPT ![t] = 0]
               /\ old_block' = [old_block EXCEPT ![t] = Null]
               /\ Goto(t, "idle") /\ UNCHANGED <<pool_lock, pages>>
       /\ UNCHANGED <<used_map, arena, free_list, content, blocks, panic>>

(* ... and the bits are set.                                               *)
bitmap_scan_and_flip(t) ==
    /\ ~panic /\ pc[t] = "flip"
    /\ used_map' = bitmap_set_multiple(used_map, Min(pages[t]), page_cnt(t), TRUE)
    /\ pool_lock' = Null
    /\ Goto(t, "arena")
    /\ UNCHANGED <<listVars, content, blocks, size, old_block, pages, panic>>

(* malloc(): the pages become a big block, or an arena whose blocks go to  *)
(* the free list and whose first is taken.                                 *)
malloc_arena(t) ==
    LET d == DescOf(size[t])
        a == Min(pages[t])
    IN /\ ~panic /\ pc[t] = "arena"
       /\ pages' = [pages EXCEPT ![t] = {}]
       /\ IF d = 0
          THEN /\ arena' = [arena EXCEPT ![a] = [desc |-> 0, free_cnt |-> page_cnt(t)]]
               /\ Give(t, <<a, 0>>)
               /\ UNCHANGED <<free_list, desc_lock>>
          ELSE /\ arena' = [arena EXCEPT ![a] = [desc |-> d, free_cnt |-> blocks_per_arena(d)]]
               /\ free_list' = [free_list EXCEPT ![d] = @ \o ArenaBlocks(a, d)]
               /\ Goto(t, "pop")
               /\ UNCHANGED <<desc_lock, content, blocks, size>>
       /\ UNCHANGED <<poolVars, old_block, panic>>

(* malloc(): the first block of the free list; block_to_arena() asserts    *)
(* that an arena is there.                                                 *)
malloc_pop(t) ==
    LET d == DescOf(size[t])
        b == Head(free_list[d])
    IN /\ ~panic /\ pc[t] = "pop"
       /\ IF arena[b[1]] = Null
          THEN panic' = TRUE /\ UNCHANGED <<listVars, content, blocks, pc, size>>
          ELSE /\ free_list' = [free_list EXCEPT ![d] = Tail(@)]
               /\ arena' = [arena EXCEPT ![b[1]].free_cnt = @ - 1]
               /\ desc_lock' = [desc_lock EXCEPT ![d] = Null]
               /\ Give(t, b)
               /\ UNCHANGED panic
       /\ UNCHANGED <<poolVars, old_block, pages>>
-----------------------------------------------------------------------------
(* free() is called; realloc() comes here with its old block.              *)
free(t, b) ==
    /\ ~panic /\ pc[t] = "idle" /\ b \in blocks[t]
    /\ old_block' = [old_block EXCEPT ![t] = b]
    /\ Goto(t, "free")
    /\ UNCHANGED <<poolVars, listVars, content, blocks, size, pages, panic>>

(* free(): the block is filled with 0xcc; a big block's pages are next.    *)
free_fill(t) ==
    LET b == old_block[t] IN
    /\ ~panic /\ pc[t] = "free"
    /\ IF arena[b[1]] = Null THEN panic' = TRUE /\ UNCHANGED <<content, blocks, pc, pages>>
       ELSE /\ blocks' = [blocks EXCEPT ![t] = @ \ {b}]
            /\ IF arena[b[1]].desc = 0
               THEN /\ pages' = [pages EXCEPT ![t] = BlockPages(b)]
                    /\ Goto(t, "fill") /\ UNCHANGED content
               ELSE /\ content' = [content EXCEPT ![b] = Freed]
                    /\ Goto(t, "push") /\ UNCHANGED pages
            /\ UNCHANGED panic
    /\ UNCHANGED <<poolVars, listVars, size, old_block>>

WithoutArena(list, a) == SelectSeq(list, LAMBDA b : b[1] # a)

(* free(): the block goes to the front of the free list; an arena without  *)
(* a block in use is taken apart and its page given back, the lock held.   *)
free_push(t) ==
    LET b == old_block[t]
        a == b[1]
        d == arena[a].desc
        unused == arena[a].free_cnt + 1 >= blocks_per_arena(d)
    IN /\ ~panic /\ pc[t] = "push" /\ desc_lock[d] = Null
       /\ arena' = [arena EXCEPT ![a].free_cnt = @ + 1]
       /\ IF unused
          THEN /\ panic' = (arena[a].free_cnt + 1 # blocks_per_arena(d))
               /\ free_list' = [free_list EXCEPT ![d] = WithoutArena(@, a)]
               /\ desc_lock' = [desc_lock EXCEPT ![d] = t]
               /\ pages' = [pages EXCEPT ![t] = {a}]
               /\ Goto(t, "fill") /\ UNCHANGED old_block
          ELSE /\ free_list' = [free_list EXCEPT ![d] = <<b>> \o @]
               /\ old_block' = [old_block EXCEPT ![t] = Null]
               /\ Goto(t, "idle") /\ UNCHANGED <<desc_lock, pages, panic>>
       /\ UNCHANGED <<poolVars, content, blocks, size>>

(* palloc_free_multiple(): the pages are filled with 0xcc ...              *)
palloc_free_multiple(t) ==
    /\ ~panic /\ pc[t] = "fill"
    /\ content' = [b \in Block |-> IF b[1] \in pages[t] THEN Freed ELSE content[b]]
    /\ arena' = [i \in Page |-> IF i \in pages[t] THEN Null ELSE arena[i]]
    /\ Goto(t, "reset")
    /\ UNCHANGED <<poolVars, free_list, desc_lock, blocks, size, old_block, pages, panic>>

(* ... and, without the pool's lock, their bits cleared.                   *)
palloc_free_reset(t) ==
    LET start == Min(pages[t])
        cnt == Cardinality(pages[t])
    IN /\ ~panic /\ pc[t] = "reset"
       /\ panic' = ~bitmap_all(used_map, start, cnt)
       /\ used_map' = bitmap_set_multiple(used_map, start, cnt, FALSE)
       /\ desc_lock' = [d \in desc |-> IF desc_lock[d] = t THEN Null ELSE desc_lock[d]]
       /\ pages' = [pages EXCEPT ![t] = {}]
       /\ old_block' = [old_block EXCEPT ![t] = Null]
       /\ Goto(t, "idle")
       /\ UNCHANGED <<pool_lock, arena, free_list, content, blocks, size>>

Next ==
    \E t \in Thread :
        \/ \E n \in Sizes, old \in blocks[t] \cup {Null} : malloc(t, n, old)
        \/ palloc_get_multiple(t) \/ bitmap_scan_and_flip(t) \/ malloc_arena(t) \/ malloc_pop(t)
        \/ \E b \in blocks[t] : free(t, b)
        \/ free_fill(t) \/ free_push(t) \/ palloc_free_multiple(t) \/ palloc_free_reset(t)

Spec == Init /\ [][Next]_vars
-----------------------------------------------------------------------------
(* A block keeps what its owner wrote in it from malloc() to free(),       *)
(* whatever the others allocate and free meanwhile.                        *)
BlocksIntact ==
    \A t \in Thread : \A b \in blocks[t] :
        content[b] = t \/ pc[t] = "free"

(* No page is lost and none is given back twice: a page is marked used     *)
(* while it is an arena, part of a big block or on its way, and only then; *)
(* an arena counts its free blocks, and is given back with its last block. *)
PagesAccounted ==
    LET Held == UNION {pages[t] : t \in {z \in Thread : pc[z] \in {"arena", "fill", "reset"}}}
        Arenas == {i \in Page : arena[i] # Null /\ arena[i].desc # 0}
        Big == UNION {BlockPages(b) : b \in {z \in UNION Range(blocks) : z[2] = 0}}
        FreeOf(a) == {b \in Range(free_list[arena[a].desc]) : b[1] = a}
        UsedOf(a) == {b \in UNION Range(blocks) \cup {old_block[t] : t \in {z \in Thread : pc[z] = "push"}} :
                         b[1] = a}
    IN /\ ~panic
       /\ {i \in Page : used_map[i]} = Held \cup Arenas \cup Big
       /\ Arenas \cap Big = {}
       /\ \A a \in Arenas \ Held :
             /\ arena[a].free_cnt = Cardinality(FreeOf(a))
             /\ FreeOf(a) \cap UsedOf(a) = {}
             /\ Cardinality(FreeOf(a) \cup UsedOf(a)) = blocks_per_arena(arena[a].desc)
             /\ desc_lock[arena[a].desc] = Null => UsedOf(a) # {}
=============================================================================
