------------------------------ MODULE Loader ------------------------------
(***************************************************************************)
(* load() of userprog/process.c: processes get their page directory        *)
(* (userprog/pagedir.c), the segments of their program and a stack from    *)
(* the kernel and the user pool of pages, either of which may run out at   *)
(* any step; whatever a process got it gives back when it exits.           *)
(*                                                                         *)
(* An address is a byte number, a program a file with the program headers  *)
(* its ELF header leads to.  The byte of a file at an offset is the offset *)
(* plus one, so that it differs from the zeros.                            *)
(***************************************************************************)
EXTENDS Integers, Sequences, FiniteSets

CONSTANTS Proc,
          Programs,        \* [length, phdrs]: a file and its program headers
          PGSIZE, PHYS_BASE,
          TableSize,       \* pages that one page table maps
          KernelPages,     \* bound: pages left in the kernel pool
          UserPages,       \* pages of the user pool
          Null

ASSUME LoaderAssumption ==
    /\ IsFiniteSet(Proc)
    /\ PGSIZE \in Nat \ {0} /\ PHYS_BASE \in Nat /\ KernelPages \in Nat /\ UserPages \in Nat
    /\ Null \notin 1 .. UserPages
    /\ \A prog \in Programs :
          /\ prog.length \in Nat
          /\ prog.phdrs \in Seq([type : {"load", "ignored", "dynamic"}, offset : Nat, vaddr : Nat,
                                 filesz : Nat, memsz : Nat, writable : BOOLEAN])

Frame == 1 .. UserPages
UPage == {PGSIZE * i : i \in 0 .. (PHYS_BASE \div PGSIZE) - 1}
pg_round_down(a) == (a \div PGSIZE) * PGSIZE
pd_no(upage) == upage \div (PGSIZE * TableSize)

VARIABLES
    user_used,     \* frames in use
    kernel_free,   \* number of free pages of the kernel pool
    content,       \* the bytes of each frame
    program,       \* the program a process loads or has loaded
    pagedir,       \* has the process a page directory
    tables,        \* the page tables in its page directory
    pte,           \* the page table entries that are present
    pc,            \* where load() is
    segment,       \* number of the program header
    cursor,        \* load_segment(): ofs, upage, read_bytes, zero_bytes
    kpage          \* load_segment(), setup_stack(): the frame just taken

vars == <<user_used, kernel_free, content, program, pagedir, tables, pte, pc, segment, cursor, kpage>>
poolVars == <<user_used, kernel_free>>
procVars == <<program, pagedir, tables>>

NoCursor == [ofs |-> 0, upage |-> 0, read_bytes |-> 0, zero_bytes |-> 0]
Zeros == [i \in 1 .. PGSIZE |-> 0]
FreedFrame == [i \in 1 .. PGSIZE |-> -1]      \* the 0xcc of a page that is free
Init ==
    /\ user_used = {} /\ kernel_free = KernelPages
    /\ content = [f \in Frame |-> FreedFrame]
    /\ program = [p \in Proc |-> Null]
    /\ pagedir = [p \in Proc |-> FALSE]
    /\ tables = [p \in Proc |-> {}]
    /\ pte = [p \in Proc |-> <<>>]
    /\ pc = [p \in Proc |-> "none"]
    /\ segment = [p \in Proc |-> 0]
    /\ cursor = [p \in Proc |-> NoCursor]
    /\ kpage = [p \in Proc |-> Null]

(* palloc_get_page(): the first page of the user pool that is free.        *)
palloc_get_page ==
    LET free == Frame \ user_used
        first == {f \in free : \A g \in free : f <= g}
    IN IF first = {} THEN Null ELSE CHOOSE f \in first : TRUE

Goto(p, label) == pc' = [pc EXCEPT ![p] = label]
phdr(p) == program[p].phdrs[segment[p]]
-----------------------------------------------------------------------------
validate_segment(h, length) ==
    /\ h.offset % PGSIZE = h.vaddr % PGSIZE
    /\ h.offset <= length
    /\ h.memsz >= h.filesz /\ h.memsz > 0
    /\ h.vaddr < PHYS_BASE /\ h.vaddr + h.memsz < PHYS_BASE
    /\ h.vaddr >= PGSIZE

round_up(n) == ((n + PGSIZE - 1) \div PGSIZE) * PGSIZE

(* Mutant: the zeros are counted from the start of the page.               *)
SegmentCursor_short(h) ==
    LET read == IF h.filesz > 0 THEN (h.vaddr % PGSIZE) + h.filesz ELSE 0
    IN [ofs |-> pg_round_down(h.offset), upage |-> pg_round_down(h.vaddr),
        read_bytes |-> read, zero_bytes |-> round_up(h.memsz) - read]

(* What load() asks load_segment() to read and to zero.                    *)
SegmentCursor(h) ==
    LET page_offset == h.vaddr % PGSIZE
        read == IF h.filesz > 0 THEN page_offset + h.filesz ELSE 0
    IN [ofs |-> pg_round_down(h.offset), upage |-> pg_round_down(h.vaddr),
        read_bytes |-> read, zero_bytes |-> round_up(page_offset + h.memsz) - read]

(* A page of the kernel pool for the directory, if there is one.           *)
pagedir_create(p) ==
    IF kernel_free = 0 THEN UNCHANGED <<kernel_free, pagedir>>
    ELSE /\ kernel_free' = kernel_free - 1
         /\ pagedir' = [pagedir EXCEPT ![p] = TRUE]

(* load(): pagedir_create(), then the executable is opened and its header  *)
(* read; it may be missing, or no executable.                              *)
load(p, prog) ==
    /\ pc[p] = "none"
    /\ program' = [program EXCEPT ![p] = prog]
    /\ pagedir_create(p)
    /\ segment' = [segment EXCEPT ![p] = 1]
    /\ \/ Goto(p, "failed")
       \/ pagedir'[p] /\ Goto(p, "header")
    /\ UNCHANGED <<user_used, content, tables, pte, cursor, kpage>>

(* The loop over the program headers.                                      *)
read_phdr(p) ==
    /\ pc[p] = "header"
    /\ IF segment[p] > Len(program[p].phdrs)
       THEN Goto(p, "stack") /\ UNCHANGED <<segment, cursor>>
       ELSE IF phdr(p).type = "ignored"
       THEN segment' = [segment EXCEPT ![p] = @ + 1] /\ UNCHANGED <<pc, cursor>>
       ELSE IF phdr(p).type = "dynamic" \/ ~validate_segment(phdr(p), program[p].length)
       THEN Goto(p, "failed") /\ UNCHANGED <<segment, cursor>>
       ELSE /\ cursor' = [cursor EXCEPT ![p] = SegmentCursor(phdr(p))]
            /\ Goto(p, "segment") /\ UNCHANGED segment
    /\ UNCHANGED <<poolVars, content, procVars, pte, kpage>>

(* The page that file_read() and memset() fill from the file.              *)
PageImage(p) ==
    LET c == cursor[p]
        page_read_bytes == IF c.read_bytes < PGSIZE THEN c.read_bytes ELSE PGSIZE
    IN [i \in 1 .. PGSIZE |-> IF i <= page_read_bytes THEN c.ofs + i ELSE 0]

(* load_segment(): a page of the user pool is filled, unless the file ends *)
(* too early.                                                              *)
load_segment(p) ==
    LET c == cursor[p]
        f == palloc_get_page
        page_read_bytes == IF c.read_bytes < PGSIZE THEN c.read_bytes ELSE PGSIZE
    IN /\ pc[p] = "segment"
       /\ IF c.read_bytes = 0 /\ c.zero_bytes = 0
          THEN /\ segment' = [segment EXCEPT ![p] = @ + 1]
               /\ Goto(p, "header") /\ UNCHANGED <<user_used, content, kpage>>
          ELSE IF f = Null \/ c.ofs + page_read_bytes > program[p].length
          THEN Goto(p, "failed") /\ UNCHANGED <<user_used, content, kpage, segment>>
          ELSE /\ user_used' = user_used \cup {f}
               /\ content' = [content EXCEPT ![f] = PageImage(p)]
               /\ kpage' = [kpage EXCEPT ![p] = f]
               /\ Goto(p, "install") /\ UNCHANGED segment
       /\ UNCHANGED <<kernel_free, procVars, pte, cursor>>

(* setup_stack(): a zeroed page for the top of user memory.                *)
setup_stack(p) ==
    LET f == palloc_get_page IN
    /\ pc[p] = "stack"
    /\ IF f = Null
       THEN Goto(p, "failed") /\ UNCHANGED <<user_used, content, kpage, cursor>>
       ELSE /\ user_used' = user_used \cup {f}
            /\ content' = [content EXCEPT ![f] = Zeros]
            /\ kpage' = [kpage EXCEPT ![p] = f]
            /\ cursor' = [cursor EXCEPT ![p] = [NoCursor EXCEPT !.upage = PHYS_BASE - PGSIZE]]
            /\ Goto(p, "install")
    /\ UNCHANGED <<kernel_free, procVars, pte, segment>>

(* Mutant: the pages are not marked free.                                  *)
palloc_free_page_leak(F) ==
    /\ user_used' = user_used
    /\ content' = [f \in Frame |-> IF f \in F THEN FreedFrame ELSE content[f]]

palloc_free_page(F) ==
    /\ user_used' = user_used \ F
    /\ content' = [f \in Frame |-> IF f \in F THEN FreedFrame ELSE content[f]]

(* pagedir.c: is upage mapped; is there a page table for it, or a page of  *)
(* the kernel pool to make one; the entry for upage is set.                *)
pagedir_get_page(p, upage) == upage \in DOMAIN pte[p]
lookup_page(p, upage) == pd_no(upage) \in tables[p] \/ kernel_free > 0
pagedir_set_page(p, upage, f, writable) ==
    /\ kernel_free' = IF pd_no(upage) \in tables[p] THEN kernel_free ELSE kernel_free - 1
    /\ tables' = [tables EXCEPT ![p] = @ \cup {pd_no(upage)}]
    /\ pte' = [pte EXCEPT ![p] = [u \in DOMAIN @ \cup {upage} |->
                  IF u = upage THEN [kpage |-> f, writable |-> writable] ELSE @[u]]]

(* install_page(): pagedir_set_page(), or the page is given back.          *)
(* load_segment() then goes on to the next page; after the stack           *)
(* load_arguments() decides whether the process is loaded.                 *)
install_page(p) ==
    LET c == cursor[p]
        stack == segment[p] > Len(program[p].phdrs)
        read == IF c.read_bytes < PGSIZE THEN c.read_bytes ELSE PGSIZE
    IN /\ pc[p] = "install"
       /\ kpage' = [kpage EXCEPT ![p] = Null]
       /\ IF pagedir_get_page(p, c.upage) \/ ~lookup_page(p, c.upage)
          THEN /\ palloc_free_page({kpage[p]})
               /\ Goto(p, "failed") /\ UNCHANGED <<kernel_free, tables, pte, cursor>>
          ELSE /\ pagedir_set_page(p, c.upage, kpage[p], stack \/ phdr(p).writable)
               /\ cursor' = [cursor EXCEPT ![p] =
                      IF stack THEN NoCursor
                      ELSE [ofs |-> @.ofs + read, upage |-> @.upage + PGSIZE,
                            read_bytes |-> @.read_bytes - read,
                            zero_bytes |-> @.zero_bytes - (PGSIZE - read)]]
               /\ \E done \in {"loaded", "failed"} : Goto(p, IF stack THEN done ELSE "segment")
               /\ UNCHANGED <<user_used, content>>
       /\ UNCHANGED <<program, pagedir, segment>>

(* process_exit(), after a failed load() as well: pagedir_destroy() gives  *)
(* back every page present, the page tables and the directory.             *)
pagedir_destroy(p) ==
    /\ pc[p] \in {"loaded", "failed"}
    /\ palloc_free_page({pte[p][u].kpage : u \in DOMAIN pte[p]})
    /\ kernel_free' = kernel_free + Cardinality(tables[p]) + (IF pagedir[p] THEN 1 ELSE 0)
    /\ program' = [program EXCEPT ![p] = Null]
    /\ pagedir' = [pagedir EXCEPT ![p] = FALSE]
    /\ tables' = [tables EXCEPT ![p] = {}]
    /\ pte' = [pte EXCEPT ![p] = <<>>]
    /\ segment' = [segment EXCEPT ![p] = 0]
    /\ cursor' = [cursor EXCEPT ![p] = NoCursor]
    /\ Goto(p, "none")
    /\ UNCHANGED kpage

Next == \E p \in Proc :
    \/ \E prog \in Programs : load(p, prog)
    \/ read_phdr(p) \/ load_segment(p) \/ setup_stack(p) \/ install_page(p) \/ pagedir_destroy(p)

Spec == Init /\ [][Next]_vars
-----------------------------------------------------------------------------
(* The frames a process maps, and the one it is about to map.              *)
Mapped(p) == {pte[p][u].kpage : u \in DOMAIN pte[p]}
Taken(p) == Mapped(p) \cup ({kpage[p]} \ {Null})

(* Through every failure, a frame is in use exactly while one process maps *)
(* it or is about to, and the pages of the kernel pool are all accounted   *)
(* for.                                                                    *)
FramesOwned ==
    /\ user_used = UNION {Taken(p) : p \in Proc}
    /\ \A p, q \in Proc : p # q => Taken(p) \cap Taken(q) = {}
    /\ \A p \in Proc : /\ Cardinality(Mapped(p)) = Cardinality(DOMAIN pte[p])
                       /\ kpage[p] \notin Mapped(p)
    /\ kernel_free = KernelPages
           - Cardinality({p \in Proc : pagedir[p]})
           - Cardinality(UNION {{p} \X tables[p] : p \in Proc})

(* A loaded process finds in memory what its program headers say: the      *)
(* bytes of the file, zeros up to memsz, and no right to write that the    *)
(* segment does not give.  Its stack is a page of zeros.                   *)
ImageLoaded ==
    \A p \in Proc : pc[p] = "loaded" =>
        LET byte(a) == content[pte[p][pg_round_down(a)].kpage][(a % PGSIZE) + 1]
            stack == PHYS_BASE - PGSIZE
        IN /\ \A i \in 1 .. Len(program[p].phdrs) :
                LET h == program[p].phdrs[i] IN
                h.type = "load" => \A a \in h.vaddr .. h.vaddr + h.memsz - 1 :
                    /\ pg_round_down(a) \in DOMAIN pte[p]
                    /\ byte(a) = IF a < h.vaddr + h.filesz THEN h.offset + (a - h.vaddr) + 1 ELSE 0
                    /\ pte[p][pg_round_down(a)].writable = h.writable
           /\ stack \in DOMAIN pte[p] /\ pte[p][stack].writable
           /\ content[pte[p][stack].kpage] = Zeros
=============================================================================
