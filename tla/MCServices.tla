----------------------------- MODULE MCServices -----------------------------
(***************************************************************************)
(* The loader, and instances of other services of the kernel, which share  *)
(* no state: a behaviour exercises one of them, and the others stay as     *)
(* they are.  The parts without state are checked on every input of a      *)
(* bounded set.                                                            *)
(***************************************************************************)
EXTENDS Loader, SequencesExt, TLC

CONSTANTS t1, t2, Freed

VARIABLES part,
    used_map, pool_lock, arena, free_list, desc_lock, block, blocks, h_pc, size, old_block, pages,
    panic,
    link, seq,
    buckets, elem_cnt, member,
    scratch, files, extract_sector, append_sector, op, src, archive, extracted,
    input

heapVars == <<used_map, pool_lock, arena, free_list, desc_lock, block, blocks, h_pc, size,
              old_block, pages, panic>>
listVars == <<link, seq>>
hashVars == <<buckets, elem_cnt, member>>
archiveVars == <<scratch, files, extract_sector, append_sector, op, src, archive, extracted>>
serviceVars == <<part, heapVars, vars, listVars, hashVars, archiveVars, input>>

H == INSTANCE Heap WITH Thread <- {t1, t2}, Pages <- 3, PGSIZE <- 6, ArenaSize <- 1, MinBlock <- 2,
        Sizes <- {2, 6}, MaxBlocks <- 3, content <- block, pc <- h_pc

(* Programs that load, one whose pages overlap, one cut short, one whose   *)
(* segment is where the stack will be, and one for every check.            *)
Segment(o, v, f, m, w) ==
    [type |-> "load", offset |-> o, vaddr |-> v, filesz |-> f, memsz |-> m, writable |-> w]
Other(t) == [Segment(0, 0, 0, 0, FALSE) EXCEPT !.type = t]
MCPrograms ==
    {[length |-> 5, phdrs |-> <<Other("ignored"), Segment(1, 3, 3, 4, FALSE), Segment(0, 8, 0, 1, TRUE)>>],
     [length |-> 4, phdrs |-> <<Segment(0, 2, 2, 2, TRUE), Segment(1, 3, 1, 1, FALSE)>>],
     [length |-> 4, phdrs |-> <<Segment(2, 4, 3, 3, TRUE)>>],
     [length |-> 4, phdrs |-> <<Segment(0, 10, 1, 1, TRUE)>>],
     [length |-> 4, phdrs |-> <<Segment(0, 4, 1, 1, TRUE), Other("dynamic")>>]}
    \cup {[length |-> 4, phdrs |-> <<h>>] : h \in
          {Segment(0, 3, 1, 1, TRUE), Segment(0, 4, 2, 1, TRUE), Segment(0, 0, 1, 1, TRUE),
           Segment(0, 10, 1, 2, TRUE)}}

(* Elements 1 and 3, and 2 and 4, are equal to LESS.                       *)
K == INSTANCE Links WITH Elem <- 1 .. 4, key <- <<2, 1, 2, 1>>

(* Elements 1 and 2 are equal; keys 1 and 2, and 3 and 5, share a bucket.  *)
T == INSTANCE Hash WITH Elem <- 1 .. 6, key <- <<1, 1, 2, 3, 4, 5>>, hash <- <<0, 2, 3, 4, 6>>,
        MinBuckets <- 2, BEST_ELEMS_PER_BUCKET <- 1

(* Files "a", that ends within a sector, and "../b", which is empty; an    *)
(* archive with a directory and with names to strip.                       *)
Entry(n, t, d) == [name |-> n, type |-> t, data |-> d]
A == INSTANCE Archive WITH
        Files <- {<<>>, (<<97>> :> <<1, 0, 1>>) @@ (<<46, 46, 47, 98>> :> <<>>)},
        HostArchives <- {<<>>, <<Entry(<<100>>, 53, <<>>), Entry(<<47, 97>>, 48, <<1, 1, 1>>),
                                 Entry(<<46, 47, 101>>, 48, <<>>)>>},
        ScratchSize <- 6, BLOCK_SECTOR_SIZE <- 2, NameSize <- 3, SizeField <- 3, ChksumField <- 5,
        ULONG_MAX <- 1023, INT_MAX <- 63

S == INSTANCE Strings
U == INSTANCE UserMemory
N == INSTANCE Numbers
-----------------------------------------------------------------------------
Texts(n) == UNION {[1 .. k -> {1, 2, 3}] : k \in 0 .. n}
Delimiters == {3}

(* A process with pages of 2 bytes up to address 8, and words of 2 bytes:  *)
(* esp is where the arguments of its system call are, value what it passes *)
(* in them, end where the next string ends.                                *)
UserProcesses ==
    {[pgsize |-> 2, base |-> 8, word |-> 2, esp |-> esp, present |-> P, writable |-> W,
      mem |-> [a \in 0 .. 30 |-> CASE a = esp + 2 -> value[1]
                                   [] a = esp + 4 -> value[2]
                                   [] a = esp + 6 -> value[3]
                                   [] a = end -> 0
                                   [] OTHER -> 1]] :
        P \in SUBSET (1 .. 3), W \in SUBSET (1 .. 3), esp \in 0 .. 8,
        value \in {0, 3, 6, 9} \X (0 .. 9) \X {0, 1, 3, 20}, end \in {5, 8}}
SystemCalls == DOMAIN U!Arguments \cup {"unknown"}

ServicesInit ==
    /\ H!Init /\ Init /\ K!Init /\ T!Init /\ A!Init
    /\ \/ part \in {"heap", "loader", "list", "hash", "archive"} /\ input = <<>>
       \/ part = "field" /\ input \in UNION {[1 .. k -> {0, 32, 48, 55, 56}] : k \in 0 .. 5}
       \/ part = "name" /\ input \in UNION {[1 .. k -> {46, 47, 97}] : k \in 0 .. 6}
       \/ part = "string" /\ input \in Texts(5)
       \/ part = "arguments" /\ input \in Texts(6)
       \/ part = "syscall" /\ input \in {x \in UserProcesses : x.writable \subseteq x.present}
       \/ part = "division" /\ input \in 0 .. 255
       \/ part = "sort" /\ input \in Texts(6)
       \/ part = "delay" /\ input \in {1024 + 37 * i : i \in 0 .. 200}
    /\ part # "archive" => archive = <<>> /\ files = <<>>

ServicesNext ==
    /\ UNCHANGED <<part, input>>
    /\ \/ part = "heap" /\ H!Next /\ UNCHANGED <<vars, listVars, hashVars, archiveVars>>
       \/ part = "loader" /\ Next /\ UNCHANGED <<heapVars, listVars, hashVars, archiveVars>>
       \/ part = "list" /\ K!Next /\ UNCHANGED <<heapVars, vars, hashVars, archiveVars>>
       \/ part = "hash" /\ T!Next /\ UNCHANGED <<heapVars, vars, listVars, archiveVars>>
       \/ part = "archive" /\ A!Next /\ UNCHANGED <<heapVars, vars, listVars, hashVars>>

ServicesSpec == ServicesInit /\ [][ServicesNext]_serviceVars
-----------------------------------------------------------------------------
(* malloc.c, palloc.c: a block keeps what its owner wrote until it is      *)
(* freed, and no page or block is lost or given back twice.                *)
HeapSound == H!BlocksIntact /\ H!PagesAccounted

(* list.c, hash.c: the pointers of a list lead through the promised        *)
(* elements, and a hash table is a set, whenever it is rehashed.           *)
ContainersMatch == K!ListsMatch /\ T!HashIsSet

(* string.c, process.c: the string functions do what they promise, with    *)
(* blocks that overlap and room that runs out; load_arguments() splits a   *)
(* command line into the argv[] its process finds on an aligned stack, and *)
(* the longest one fits in the page there is.                              *)
StringsMatch ==
    /\ part = "string" => S!StringsMatch(input, Texts(2), Delimiters)
    /\ part = "arguments" => U!ArgumentsOnStack(input, 256, Delimiters)
    /\ (part = "arguments" /\ input = <<>>) => U!ArgumentsFit(4096, 4096)

(* syscall.c: the kernel touches only memory the process has, and refuses  *)
(* no call whose memory is there.                                          *)
AccessesChecked ==
    part = "syscall" => \A call \in SystemCalls : U!AccessesChecked(input, input.esp, call)

(* ustar.c, fsutil.c: files appended to the archive are read back from it, *)
(* and extracted from it, whole.                                           *)
ArchiveMatches ==
    /\ A!ArchiveReadable /\ A!ExtractComplete
    /\ part = "field" => A!FieldMatches(input)
    /\ part = "name" => A!NameStripped(input)

(* arithmetic.c, stdlib.c, timer.c: quotients are exact, arrays sorted and *)
(* searched, delays in proportion to the calibrated speed.                 *)
NumbersMatch ==
    /\ part = "division" => N!DivisionExact(input, 4)
    /\ part = "sort" => N!SortsAndFinds(input, 0 .. 4)
    /\ part = "delay" => N!DelaysMatch(input)
=============================================================================
