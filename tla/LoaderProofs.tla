--------------------------- MODULE LoaderProofs ---------------------------
(***************************************************************************)
(* Proofs about Loader: for any number of processes, any programs and any  *)
(* sizes of the pools, no frame leaks or is shared, and a loaded process   *)
(* finds its program in memory.                                            *)
(***************************************************************************)
EXTENDS Loader, FiniteSetTheorems, TLAPS

Label == {"none", "failed", "header", "segment", "install", "stack", "loaded"}
Entry == [kpage : Frame, writable : BOOLEAN]
Cursor == [ofs : Int, upage : Int, read_bytes : Int, zero_bytes : Int]

(* The types of the variables, and what a process holds where it is in     *)
(* load(): a frame that is not mapped only in install_page(), nothing      *)
(* before load().                                                          *)
PoolType ==
    /\ user_used \subseteq Frame /\ kernel_free \in Int
    /\ content \in [Frame -> [1 .. PGSIZE -> Int]]
    /\ kpage \in [Proc -> Frame \cup {Null}]
ProcType ==
    /\ program \in [Proc -> Programs \cup {Null}]
    /\ pc \in [Proc -> Label]
    /\ segment \in [Proc -> Nat]
    /\ cursor \in [Proc -> Cursor]
PagedirType ==
    /\ pagedir \in [Proc -> BOOLEAN]
    /\ tables \in [Proc -> SUBSET {pd_no(u) : u \in Int}]
    /\ pte = [p \in Proc |-> pte[p]]
    /\ \A p \in Proc : pte[p] \in [DOMAIN pte[p] -> Entry]
    /\ \A p \in Proc : IsFiniteSet(DOMAIN pte[p]) /\ IsFiniteSet(tables[p])
TypeOK == PoolType /\ ProcType /\ PagedirType

Places == \A p \in Proc :
    /\ kpage[p] # Null <=> pc[p] = "install"
    /\ pc[p] = "none" => ~pagedir[p]
    /\ pc[p] # "none" => program[p] \in Programs /\ segment[p] >= 1

(* The frames in use are those the processes have, each frame has one      *)
(* process and one page of it.                                             *)
Frames ==
    /\ \A f : f \in user_used <=> \E p \in Proc : f \in Taken(p)
    /\ \A p, q \in Proc : \A f : f \in Taken(p) /\ f \in Taken(q) => p = q
    /\ \A p \in Proc : \A u, v \in DOMAIN pte[p] : pte[p][u].kpage = pte[p][v].kpage => u = v
    /\ \A p \in Proc : kpage[p] \notin Mapped(p)

(* The page directories and the page tables, each with its process.        *)
Directories == {p \in Proc : pagedir[p]}
Tables == UNION {{p} \X tables[p] : p \in Proc}

KernelPool ==
    /\ IsFiniteSet(Directories) /\ IsFiniteSet(Tables)
    /\ kernel_free = KernelPages - Cardinality(Directories) - Cardinality(Tables)

FramesInv == TypeOK /\ Places /\ Frames /\ KernelPool
-----------------------------------------------------------------------------
(***************************************************************************)
(* The frame palloc_get_page() gives is one that is free.                  *)
(***************************************************************************)
LEMMA FreshFrame == palloc_get_page # Null => palloc_get_page \in Frame \ user_used
BY Zenon DEF palloc_get_page

(***************************************************************************)
(* A process that maps pages has each of their frames in use.              *)
(***************************************************************************)
LEMMA MappedTaken ==
    ASSUME NEW p \in Proc, NEW u \in DOMAIN pte[p]
    PROVE  pte[p][u].kpage \in Mapped(p) /\ pte[p][u].kpage \in Taken(p)
BY Zenon DEF Mapped, Taken
-----------------------------------------------------------------------------
(* Types and places: one lemma per action.                                 *)

(***************************************************************************)
(* Before the first load() the types and the places are right.             *)
(***************************************************************************)
LEMMA InitTypes == Init => TypeOK /\ Places
<1> SUFFICES ASSUME Init PROVE TypeOK /\ Places
  BY Zenon
<1>1. PoolType
  <2>1. FreedFrame \in [1 .. PGSIZE -> Int] BY DEF FreedFrame
  <2> QED BY <2>1, LoaderAssumption DEF Init, PoolType
<1>2. ProcType
  <2>1. NoCursor \in Cursor BY DEF NoCursor, Cursor
  <2> QED BY <2>1, Zenon DEF Init, ProcType, Label
<1>3. PagedirType BY FS_EmptySet DEF Init, PagedirType
<1>4. Places
  BY Zenon DEF Init, Places
<1> QED BY <1>1, <1>2, <1>3, <1>4, Zenon DEF TypeOK

Header == [type : {"load", "ignored", "dynamic"}, offset : Nat, vaddr : Nat, filesz : Nat,
           memsz : Nat, writable : BOOLEAN]

(***************************************************************************)
(* A program header that load() looks at is one of its program.            *)
(***************************************************************************)
LEMMA PhdrType ==
    ASSUME NEW prog \in Programs, NEW i \in 1 .. Len(prog.phdrs)
    PROVE  prog.phdrs[i] \in Header /\ Len(prog.phdrs) \in Nat /\ prog.length \in Nat
<1>1. prog.phdrs \in Seq(Header) /\ prog.length \in Nat
  BY LoaderAssumption, Zenon DEF Header
<1> QED BY <1>1

(***************************************************************************)
(* What load_segment() is asked to do are numbers.                         *)
(***************************************************************************)
LEMMA CursorType == \A h \in Header : SegmentCursor(h) \in Cursor
<1> SUFFICES ASSUME NEW h \in Header PROVE SegmentCursor(h) \in Cursor
  OBVIOUS
<1>1. h.vaddr \in Nat /\ h.offset \in Nat /\ h.filesz \in Nat /\ h.memsz \in Nat BY DEF Header
<1>2. PGSIZE \in Nat \ {0} BY LoaderAssumption
<1>3. \A a \in Nat : a % PGSIZE \in Nat /\ pg_round_down(a) \in Int BY <1>2 DEF pg_round_down
<1>4. \A n \in Nat : round_up(n) \in Int BY <1>2 DEF round_up
<1>5. (h.vaddr % PGSIZE) + h.memsz \in Nat BY <1>1, <1>3
<1>6. round_up((h.vaddr % PGSIZE) + h.memsz) \in Int BY <1>4, <1>5
<1> QED BY <1>1, <1>3, <1>6 DEF SegmentCursor, Cursor

(***************************************************************************)
(* Every step keeps the types and the places.                              *)
(***************************************************************************)
LEMMA NextTypes == TypeOK /\ Places /\ Next => TypeOK' /\ Places'
<1> SUFFICES ASSUME TypeOK, Places, Next PROVE TypeOK' /\ Places'
  BY Zenon
<1>0. PICK p \in Proc : \/ \E prog \in Programs : load(p, prog)
                        \/ read_phdr(p) \/ load_segment(p) \/ setup_stack(p)
                        \/ install_page(p) \/ pagedir_destroy(p)
  BY Zenon DEF Next
<1>1. ASSUME NEW prog \in Programs, load(p, prog) PROVE TypeOK' /\ Places'
  <2>1. PoolType' BY <1>1 DEF TypeOK, PoolType, load, pagedir_create
  <2>2. ProcType' BY <1>1, Zenon DEF TypeOK, ProcType, load, Goto, Label
  <2>3. PagedirType' BY <1>1, Zenon DEF TypeOK, PagedirType, load, pagedir_create
  <2>4. Places' BY <1>1 DEF TypeOK, PoolType, ProcType, PagedirType, Places, load, Goto, pagedir_create, Label
  <2> QED BY <2>1, <2>2, <2>3, <2>4, Zenon DEF TypeOK
<1>2. CASE read_phdr(p)
  <2>1. segment[p] <= Len(program[p].phdrs) => SegmentCursor(phdr(p)) \in Cursor
    <3> SUFFICES ASSUME segment[p] <= Len(program[p].phdrs) PROVE phdr(p) \in Header
      BY CursorType, Zenon
    <3>1. program[p] \in Programs /\ segment[p] >= 1 /\ segment[p] \in Nat
      BY <1>2, Zenon DEF read_phdr, TypeOK, ProcType, Places
    <3>2. Len(program[p].phdrs) \in Nat BY <3>1, LoaderAssumption
    <3> QED BY <3>1, <3>2, PhdrType DEF phdr
  <2>2. program[p] \in Programs /\ Len(program[p].phdrs) \in Nat
    BY <1>2, LoaderAssumption DEF read_phdr, Places
  <2>3. ~(segment[p] > Len(program[p].phdrs)) => segment[p] <= Len(program[p].phdrs)
    BY <2>2 DEF TypeOK, ProcType
  <2>4. PoolType' BY <1>2, Zenon DEF TypeOK, PoolType, read_phdr, poolVars
  <2>5. ProcType'
    <3>1. cursor' \in [Proc -> Cursor] BY <1>2, <2>1, <2>3, Zenon DEF TypeOK, ProcType, read_phdr
    <3> QED BY <1>2, <3>1 DEF TypeOK, ProcType, read_phdr, Goto, Label, procVars
  <2>6. PagedirType' BY <1>2, Zenon DEF TypeOK, PagedirType, read_phdr, procVars
  <2>7. Places' BY <1>2 DEF TypeOK, ProcType, Places, read_phdr, Goto, Label, procVars
  <2> QED BY <2>4, <2>5, <2>6, <2>7, Zenon DEF TypeOK
<1>3. CASE load_segment(p)
  <2>1. PageImage(p) \in [1 .. PGSIZE -> Int]
    BY LoaderAssumption DEF PageImage, TypeOK, ProcType, Cursor
  <2>2. PoolType' BY <1>3, <2>1, FreshFrame, Zenon DEF TypeOK, PoolType, load_segment
  <2>3. ProcType' BY <1>3 DEF TypeOK, ProcType, load_segment, Goto, Label, procVars
  <2>4. PagedirType' BY <1>3, Zenon DEF TypeOK, PagedirType, load_segment, procVars
  <2>5. Places' BY <1>3, FreshFrame, LoaderAssumption
          DEF TypeOK, PoolType, ProcType, Places, load_segment, Goto, Label, procVars, Frame
  <2> QED BY <2>2, <2>3, <2>4, <2>5, Zenon DEF TypeOK
<1>4. CASE setup_stack(p)
  <2>1. Zeros \in [1 .. PGSIZE -> Int] BY DEF Zeros
  <2>2. [NoCursor EXCEPT !.upage = PHYS_BASE - PGSIZE] \in Cursor
    BY LoaderAssumption DEF NoCursor, Cursor
  <2>3. PoolType' BY <1>4, <2>1, FreshFrame, Zenon DEF TypeOK, PoolType, setup_stack
  <2>4. ProcType' BY <1>4, <2>2, Zenon DEF TypeOK, ProcType, setup_stack, Goto, Label, procVars
  <2>5. PagedirType' BY <1>4, Zenon DEF TypeOK, PagedirType, setup_stack, procVars
  <2>6. Places' BY <1>4, FreshFrame, LoaderAssumption, Zenon
          DEF TypeOK, PoolType, ProcType, Places, setup_stack, Goto, Label, procVars, Frame
  <2> QED BY <2>3, <2>4, <2>5, <2>6, Zenon DEF TypeOK
<1>5. CASE install_page(p)
  <2> DEFINE stack == segment[p] > Len(program[p].phdrs)
             done == pagedir_get_page(p, cursor[p].upage) \/ ~lookup_page(p, cursor[p].upage)
  <2>1. kpage[p] \in Frame /\ program[p] \in Programs /\ cursor[p] \in Cursor
    BY <1>5, Zenon DEF install_page, Places, TypeOK, PoolType, ProcType
  <2>2. (stack \/ phdr(p).writable) \in BOOLEAN BY Zenon
  <2>3. FreedFrame \in [1 .. PGSIZE -> Int] BY DEF FreedFrame
  <2>4. PoolType'
    BY <1>5, <2>3 DEF install_page, palloc_free_page, pagedir_set_page, TypeOK, PoolType
  <2>5. ProcType'
    <3> DEFINE read == IF cursor[p].read_bytes < PGSIZE THEN cursor[p].read_bytes ELSE PGSIZE
               next == [ofs |-> cursor[p].ofs + read, upage |-> cursor[p].upage + PGSIZE,
                        read_bytes |-> cursor[p].read_bytes - read,
                        zero_bytes |-> cursor[p].zero_bytes - (PGSIZE - read)]
    <3>a. NoCursor \in Cursor BY DEF NoCursor, Cursor
    <3>b. next \in Cursor BY <2>1, LoaderAssumption DEF Cursor
    <3>c. \/ cursor' = cursor
          \/ cursor' = [cursor EXCEPT ![p] = IF stack THEN NoCursor ELSE next]
      BY <1>5, Zenon DEF install_page, TypeOK, ProcType
    <3> HIDE DEF next, read, stack
    <3>1. cursor' \in [Proc -> Cursor] BY <3>a, <3>b, <3>c, Zenon DEF TypeOK, ProcType
    <3> QED BY <1>5, <3>1, Zenon DEF install_page, TypeOK, ProcType, Goto, Label
  <2>6. PagedirType'
    <3>1. CASE done BY <1>5, <3>1, Zenon DEF install_page, TypeOK, PagedirType
    <3>2. CASE ~done
      <4>1. pagedir_set_page(p, cursor[p].upage, kpage[p], stack \/ phdr(p).writable)
        BY <1>5, <3>2, Zenon DEF install_page
      <4>2. cursor[p].upage \in Int BY <2>1, Zenon DEF Cursor
      <4> HIDE DEF stack
      <4>3. tables' \in [Proc -> SUBSET {pd_no(u) : u \in Int}]
        BY <4>1, <4>2, Zenon DEF pagedir_set_page, TypeOK, PagedirType
      <4>4. pte' = [q \in Proc |-> pte'[q]]
        BY <4>1, Zenon DEF pagedir_set_page, TypeOK, PagedirType
      <4>5. \A q \in Proc : pte'[q] \in [DOMAIN pte'[q] -> Entry]
        BY <4>1, <2>1, <2>2 DEF pagedir_set_page, TypeOK, PagedirType, Entry
      <4>6. pagedir' = pagedir BY <1>5, Zenon DEF install_page
      <4>7. IsFiniteSet(DOMAIN pte[p] \cup {cursor[p].upage})
            /\ IsFiniteSet(tables[p] \cup {pd_no(cursor[p].upage)})
        BY FS_AddElement, Zenon DEF TypeOK, PagedirType
      <4>8. \A q \in Proc : IsFiniteSet(DOMAIN pte'[q]) /\ IsFiniteSet(tables'[q])
        BY <4>1, <4>7, Zenon DEF pagedir_set_page, TypeOK, PagedirType
      <4> QED BY <4>3, <4>4, <4>5, <4>6, <4>8, Zenon DEF TypeOK, PagedirType
    <3> QED BY <3>1, <3>2, Zenon
  <2>7. Places' BY <1>5, Zenon DEF TypeOK, ProcType, PoolType, Places, install_page, Goto, Label
  <2> QED BY <2>4, <2>5, <2>6, <2>7, Zenon DEF TypeOK
<1>6. CASE pagedir_destroy(p)
  <2>1. FreedFrame \in [1 .. PGSIZE -> Int] BY DEF FreedFrame
  <2>2. PoolType'
    <3>1. Cardinality(tables[p]) \in Nat BY FS_CardinalityType, Zenon DEF TypeOK, PagedirType
    <3> QED BY <1>6, <2>1, <3>1 DEF pagedir_destroy, palloc_free_page, TypeOK, PoolType
  <2>3. ProcType'
    <3>1. NoCursor \in Cursor BY DEF NoCursor, Cursor
    <3> QED BY <1>6, <3>1, Zenon DEF pagedir_destroy, TypeOK, ProcType, Goto, Label
  <2>4. PagedirType' BY <1>6, FS_EmptySet DEF pagedir_destroy, TypeOK, PagedirType
  <2>5. Places' BY <1>6, Zenon DEF TypeOK, PoolType, ProcType, PagedirType, Places, pagedir_destroy, Goto, Label
  <2> QED BY <2>2, <2>3, <2>4, <2>5, Zenon DEF TypeOK
<1> QED BY <1>0, <1>1, <1>2, <1>3, <1>4, <1>5, <1>6, Zenon
-----------------------------------------------------------------------------
(* The frames.                                                             *)

(***************************************************************************)
(* A step of load() that takes and gives no frame.                         *)
(***************************************************************************)
LEMMA FramesSame ==
    ASSUME Frames, UNCHANGED <<user_used, pte, kpage>>
    PROVE  Frames'
BY DEF Frames, Taken, Mapped

(***************************************************************************)
(* palloc_get_page(): p takes a frame that is free.                        *)
(***************************************************************************)
LEMMA FramesTake ==
    ASSUME TypeOK, Frames, NEW p \in Proc, NEW f \in Frame \ user_used, kpage[p] = Null,
           user_used' = user_used \cup {f}, kpage' = [kpage EXCEPT ![p] = f], pte' = pte
    PROVE  Frames'
<1>0. f # Null /\ kpage'[p] = f /\ \A q \in Proc : q # p => kpage'[q] = kpage[q]
  BY LoaderAssumption, Zenon DEF TypeOK, PoolType, Frame
<1>1. \A q \in Proc : Mapped(q)' = Mapped(q) BY Zenon DEF Mapped
<1>2. Taken(p)' = Taken(p) \cup {f} BY <1>0, <1>1, Zenon DEF Taken
<1>3. \A q \in Proc : q # p => Taken(q)' = Taken(q) BY <1>0, <1>1, Zenon DEF Taken
<1>4. \A q \in Proc : f \notin Taken(q) BY Zenon DEF Frames
<1>5. \A g : g \in user_used' <=> \E q \in Proc : g \in Taken(q)'
  BY <1>2, <1>3 DEF Frames
<1>6. \A q, r \in Proc : \A g : g \in Taken(q)' /\ g \in Taken(r)' => q = r
  BY <1>2, <1>3, <1>4 DEF Frames
<1>7. \A q \in Proc : kpage'[q] \notin Mapped(q)'
  BY <1>0, <1>1, <1>4 DEF Frames, Taken
<1> QED BY <1>5, <1>6, <1>7, Zenon DEF Frames

(***************************************************************************)
(* install_page(): the page could not be mapped and its frame is given     *)
(* back.                                                                   *)
(***************************************************************************)
LEMMA FramesGiveBack ==
    ASSUME TypeOK, Frames, NEW p \in Proc, kpage[p] # Null,
           user_used' = user_used \ {kpage[p]}, kpage' = [kpage EXCEPT ![p] = Null], pte' = pte
    PROVE  Frames'
<1>0. kpage'[p] = Null /\ \A q \in Proc : q # p => kpage'[q] = kpage[q]
  BY Zenon DEF TypeOK, PoolType
<1>1. \A q \in Proc : Mapped(q)' = Mapped(q) BY Zenon DEF Mapped
<1>2. Taken(p)' = Taken(p) \ {kpage[p]}
  <2>1. Taken(p)' = Mapped(p)' BY <1>0, Zenon DEF Taken
  <2>2. Taken(p) = Mapped(p) \cup {kpage[p]} BY Zenon DEF Taken
  <2>3. kpage[p] \notin Mapped(p) BY Zenon DEF Frames
  <2> QED BY <2>1, <2>2, <2>3, <1>1, Zenon
<1>3. \A q \in Proc : q # p => Taken(q)' = Taken(q) BY <1>0, <1>1, Zenon DEF Taken
<1>4. \A q \in Proc : q # p => kpage[p] \notin Taken(q) BY Zenon DEF Frames, Taken
<1>5. \A g : g \in user_used' <=> \E q \in Proc : g \in Taken(q)'
  BY <1>2, <1>3, <1>4 DEF Frames
<1>6. \A q, r \in Proc : \A g : g \in Taken(q)' /\ g \in Taken(r)' => q = r
  BY <1>2, <1>3 DEF Frames
<1>7. \A q \in Proc : kpage'[q] \notin Mapped(q)'
  <2>1. Null \notin Mapped(p)
    BY LoaderAssumption DEF Mapped, TypeOK, PagedirType, Entry, Frame
  <2> QED BY <2>1, <1>0, <1>1, Zenon DEF Frames
<1> QED BY <1>5, <1>6, <1>7, Zenon DEF Frames

(***************************************************************************)
(* install_page(): the frame of p becomes one that p maps.                 *)
(***************************************************************************)
LEMMA FramesInstall ==
    ASSUME TypeOK, Frames, NEW p \in Proc, NEW upage, NEW writable,
           kpage[p] # Null, upage \notin DOMAIN pte[p],
           pagedir_set_page(p, upage, kpage[p], writable),
           user_used' = user_used, kpage' = [kpage EXCEPT ![p] = Null]
    PROVE  Frames'
<1>0. kpage'[p] = Null /\ \A q \in Proc : q # p => kpage'[q] = kpage[q]
  BY Zenon DEF TypeOK, PoolType
<1>a. /\ DOMAIN pte'[p] = DOMAIN pte[p] \cup {upage}
      /\ pte'[p][upage].kpage = kpage[p]
      /\ \A u \in DOMAIN pte[p] : pte'[p][u] = pte[p][u]
      /\ \A q \in Proc : q # p => pte'[q] = pte[q]
  BY Zenon DEF pagedir_set_page, TypeOK, PagedirType
<1>1. Mapped(p)' = Mapped(p) \cup {kpage[p]} BY <1>a, ZenonT(30) DEF Mapped
<1>2. \A q \in Proc : q # p => Mapped(q)' = Mapped(q) BY <1>a, Zenon DEF Mapped
<1>3. \A q \in Proc : Taken(q)' = Taken(q) BY <1>0, <1>1, <1>2, Zenon DEF Taken
<1>4. \A q \in Proc : \A u, v \in DOMAIN pte'[q] : pte'[q][u].kpage = pte'[q][v].kpage => u = v
  <2> SUFFICES ASSUME NEW q \in Proc, NEW u \in DOMAIN pte'[q], NEW v \in DOMAIN pte'[q],
                      pte'[q][u].kpage = pte'[q][v].kpage
               PROVE  u = v
    BY Zenon
  <2>1. CASE q # p BY <2>1, <1>a, Zenon DEF Frames
  <2>2. CASE q = p
    <3>1. \A w \in DOMAIN pte[p] : pte[p][w].kpage # kpage[p] BY DEF Frames, Mapped
    <3> QED BY <2>2, <3>1, <1>a DEF Frames
  <2> QED BY <2>1, <2>2, Zenon
<1>5. \A q \in Proc : kpage'[q] \notin Mapped(q)'
  <2>1. Null \notin Mapped(p)
    BY LoaderAssumption DEF Mapped, TypeOK, PagedirType, Entry, Frame
  <2> QED BY <2>1, <1>0, <1>1, <1>2, Zenon DEF Frames
<1>6. \A g : g \in user_used' <=> \E q \in Proc : g \in Taken(q)' BY <1>3 DEF Frames
<1>7. \A q, r \in Proc : \A g : g \in Taken(q)' /\ g \in Taken(r)' => q = r BY <1>3 DEF Frames
<1> QED BY <1>4, <1>5, <1>6, <1>7, Zenon DEF Frames

(***************************************************************************)
(* pagedir_destroy(): p gives back all it maps.                            *)
(***************************************************************************)
LEMMA FramesDestroy ==
    ASSUME TypeOK, Frames, NEW p \in Proc, kpage[p] = Null,
           user_used' = user_used \ Mapped(p), kpage' = kpage, pte' = [pte EXCEPT ![p] = <<>>]
    PROVE  Frames'
<1>a. DOMAIN pte'[p] = {} /\ \A q \in Proc : q # p => pte'[q] = pte[q]
  BY DEF TypeOK, PagedirType
<1>1. Mapped(p)' = {} /\ \A q \in Proc : q # p => Mapped(q)' = Mapped(q) BY <1>a, Zenon DEF Mapped
<1>2. Taken(p) = Mapped(p) /\ Taken(p)' = {} BY <1>1, Zenon DEF Taken
<1>3. \A q \in Proc : q # p => Taken(q)' = Taken(q) BY <1>1, Zenon DEF Taken
<1>4. \A g : g \in user_used' <=> \E q \in Proc : g \in Taken(q)' BY <1>2, <1>3 DEF Frames
<1>5. \A q, r \in Proc : \A g : g \in Taken(q)' /\ g \in Taken(r)' => q = r
  BY <1>2, <1>3 DEF Frames
<1>6. \A q \in Proc : \A u, v \in DOMAIN pte'[q] : pte'[q][u].kpage = pte'[q][v].kpage => u = v
  BY <1>a DEF Frames
<1>7. \A q \in Proc : kpage'[q] \notin Mapped(q)' BY <1>1, Zenon DEF Frames
<1> QED BY <1>4, <1>5, <1>6, <1>7, Zenon DEF Frames
-----------------------------------------------------------------------------
(* The pages of the kernel pool.                                           *)

(***************************************************************************)
(* A page table is in Tables with the process that has it.                 *)
(***************************************************************************)
LEMMA TablesMember == \A q, n : <<q, n>> \in Tables <=> q \in Proc /\ n \in tables[q]
BY DEF Tables

(***************************************************************************)
(* A step that takes and gives no page of the kernel pool.                 *)
(***************************************************************************)
LEMMA PoolSame ==
    ASSUME KernelPool, UNCHANGED <<kernel_free, pagedir, tables>>
    PROVE  KernelPool'
BY Zenon DEF KernelPool, Directories, Tables

(***************************************************************************)
(* pagedir_create(): the directory takes a page.                           *)
(***************************************************************************)
LEMMA PoolDirectory ==
    ASSUME TypeOK, KernelPool, NEW p \in Proc, ~pagedir[p],
           kernel_free' = kernel_free - 1, pagedir' = [pagedir EXCEPT ![p] = TRUE], tables' = tables
    PROVE  KernelPool'
<1>1. Directories' = Directories \cup {p} /\ p \notin Directories
  BY Zenon DEF Directories, TypeOK, PagedirType
<1>2. Tables' = Tables BY Zenon DEF Tables
<1>3. IsFiniteSet(Directories') /\ Cardinality(Directories') = Cardinality(Directories) + 1
  BY <1>1, FS_AddElement, Zenon DEF KernelPool
<1>4. Cardinality(Directories) \in Nat /\ Cardinality(Tables) \in Nat
  BY FS_CardinalityType, Zenon DEF KernelPool
<1> QED BY <1>2, <1>3, <1>4, LoaderAssumption DEF KernelPool

(***************************************************************************)
(* lookup_page(): a page table takes a page, when there is none yet.       *)
(***************************************************************************)
LEMMA PoolTable ==
    ASSUME TypeOK, KernelPool, NEW p \in Proc, NEW n, pagedir' = pagedir,
           kernel_free' = IF n \in tables[p] THEN kernel_free ELSE kernel_free - 1,
           tables' = [tables EXCEPT ![p] = @ \cup {n}]
    PROVE  KernelPool'
<1>1. Directories' = Directories BY Zenon DEF Directories
<1>2. tables'[p] = tables[p] \cup {n} /\ \A q \in Proc : q # p => tables'[q] = tables[q]
  BY Zenon DEF TypeOK, PagedirType
<1>3. Tables' = Tables \cup {<<p, n>>} BY <1>2 DEF Tables
<1>4. <<p, n>> \in Tables <=> n \in tables[p] BY TablesMember, Zenon
<1>5. IsFiniteSet(Tables')
      /\ Cardinality(Tables') = IF n \in tables[p] THEN Cardinality(Tables) ELSE Cardinality(Tables) + 1
  BY <1>3, <1>4, FS_AddElement, Zenon DEF KernelPool
<1>6. Cardinality(Directories) \in Nat /\ Cardinality(Tables) \in Nat
  BY FS_CardinalityType, Zenon DEF KernelPool
<1> QED BY <1>1, <1>5, <1>6, LoaderAssumption DEF KernelPool

(***************************************************************************)
(* pagedir_destroy(): all page tables of p and its directory are given     *)
(* back.                                                                   *)
(***************************************************************************)
LEMMA PoolDestroy ==
    ASSUME TypeOK, KernelPool, NEW p \in Proc,
           kernel_free' = kernel_free + Cardinality(tables[p]) + (IF pagedir[p] THEN 1 ELSE 0),
           pagedir' = [pagedir EXCEPT ![p] = FALSE], tables' = [tables EXCEPT ![p] = {}]
    PROVE  KernelPool'
<1> DEFINE own == {p} \X tables[p]
<1>1. Directories' = Directories \ {p} /\ (p \in Directories <=> pagedir[p])
  BY Zenon DEF Directories, TypeOK, PagedirType
<1>2. IsFiniteSet(Directories')
      /\ Cardinality(Directories') = IF pagedir[p] THEN Cardinality(Directories) - 1 ELSE Cardinality(Directories)
  BY <1>1, FS_RemoveElement, Zenon DEF KernelPool
<1>3. tables'[p] = {} /\ \A q \in Proc : q # p => tables'[q] = tables[q]
  BY Zenon DEF TypeOK, PagedirType
<1>4. Tables' = Tables \ own
  <2>1. \A x \in Tables' : x \in Tables /\ x \notin own BY <1>3 DEF Tables
  <2>2. \A x \in Tables : x \notin own => x \in Tables' BY <1>3, Zenon DEF Tables
  <2> QED BY <2>1, <2>2, Zenon
<1>5. own = Tables \cap own BY Zenon DEF Tables
<1>6. Cardinality(own) = Cardinality(tables[p])
  <2> DEFINE f == [n \in tables[p] |-> <<p, n>>]
  <2>a. f \in [tables[p] -> own] BY Zenon
  <2>b. \A a, b \in tables[p] : f[a] = f[b] => a = b BY Zenon
  <2>c. \A x \in own : \E n \in tables[p] : f[n] = x OBVIOUS
  <2>1. f \in Bijection(tables[p], own)
    BY <2>a, <2>b, <2>c, Zenon DEF Bijection, Injection, Surjection, IsInjective
  <2> HIDE DEF f, own
  <2>2. ExistsBijection(tables[p], own) BY <2>1, Zenon DEF ExistsBijection
  <2> QED BY <2>2, FS_Bijection, Zenon DEF TypeOK, PagedirType
<1> HIDE DEF own
<1>7. IsFiniteSet(Tables') /\ Cardinality(Tables') = Cardinality(Tables) - Cardinality(tables[p])
  <2>1. IsFiniteSet(Tables \ own) /\ Cardinality(Tables \ own) = Cardinality(Tables) - Cardinality(Tables \cap own)
    BY FS_Difference, Zenon DEF KernelPool
  <2> QED BY <2>1, <1>4, <1>5, <1>6, Zenon
<1>8. Cardinality(Directories) \in Nat /\ Cardinality(Tables) \in Nat /\ Cardinality(tables[p]) \in Nat
  BY FS_CardinalityType, Zenon DEF KernelPool, TypeOK, PagedirType
<1> QED BY <1>2, <1>7, <1>8, LoaderAssumption DEF KernelPool
-----------------------------------------------------------------------------
(***************************************************************************)
(* Before the first load() no page is taken.                               *)
(***************************************************************************)
LEMMA InitFrames == Init => FramesInv
<1> SUFFICES ASSUME Init PROVE FramesInv
  BY Zenon
<1>1. Frames BY DEF Init, Frames, Taken, Mapped
<1>2. Directories = {} /\ Tables = {} BY DEF Init, Directories, Tables
<1>3. KernelPool BY <1>2, FS_EmptySet, LoaderAssumption DEF Init, KernelPool
<1> QED BY <1>1, <1>3, InitTypes, Zenon DEF FramesInv

(***************************************************************************)
(* Every step keeps the frames and the pages of the kernel pool accounted  *)
(* for.                                                                    *)
(***************************************************************************)
LEMMA NextFrames == FramesInv /\ Next => FramesInv'
<1> SUFFICES ASSUME TypeOK, Places, Frames, KernelPool, Next PROVE Frames' /\ KernelPool'
  BY NextTypes, Zenon DEF FramesInv
<1>0. PICK p \in Proc : \/ \E prog \in Programs : load(p, prog)
                        \/ read_phdr(p) \/ load_segment(p) \/ setup_stack(p)
                        \/ install_page(p) \/ pagedir_destroy(p)
  BY Zenon DEF Next
<1>1. ASSUME NEW prog \in Programs, load(p, prog) PROVE Frames' /\ KernelPool'
  <2>1. Frames' BY <1>1, FramesSame, Zenon DEF load, pagedir_create
  <2>2. ~pagedir[p] /\ tables' = tables BY <1>1, Zenon DEF load, Places
  <2>3. KernelPool' BY <1>1, <2>2, PoolSame, PoolDirectory, Zenon DEF load, pagedir_create
  <2> QED BY <2>1, <2>3, Zenon
<1>2. CASE read_phdr(p)
  <2>1. UNCHANGED <<user_used, pte, kpage, kernel_free, pagedir, tables>>
    BY <1>2, Zenon DEF read_phdr, poolVars, procVars
  <2> QED BY <2>1, FramesSame, PoolSame, Zenon
<1>3. CASE load_segment(p)
  <2>1. kpage[p] = Null BY <1>3, Zenon DEF load_segment, Places
  <2>2. Frames' BY <1>3, <2>1, FramesSame, FramesTake, FreshFrame, Zenon DEF load_segment
  <2>3. KernelPool' BY <1>3, PoolSame, Zenon DEF load_segment, procVars
  <2> QED BY <2>2, <2>3, Zenon
<1>4. CASE setup_stack(p)
  <2>1. kpage[p] = Null BY <1>4, Zenon DEF setup_stack, Places
  <2>2. Frames' BY <1>4, <2>1, FramesSame, FramesTake, FreshFrame, Zenon DEF setup_stack
  <2>3. KernelPool' BY <1>4, PoolSame, Zenon DEF setup_stack, procVars
  <2> QED BY <2>2, <2>3, Zenon
<1>5. CASE install_page(p)
  <2> DEFINE upage == cursor[p].upage
             writable == segment[p] > Len(program[p].phdrs) \/ phdr(p).writable
             refused == pagedir_get_page(p, upage) \/ ~lookup_page(p, upage)
  <2>1. kpage[p] # Null /\ kpage' = [kpage EXCEPT ![p] = Null] /\ pagedir' = pagedir
    BY <1>5, Zenon DEF install_page, Places
  <2>2. CASE refused
    <3>1. /\ user_used' = user_used \ {kpage[p]}
          /\ UNCHANGED <<kernel_free, tables, pte>>
      BY <1>5, <2>2, Zenon DEF install_page, palloc_free_page
    <3> QED BY <2>1, <3>1, FramesGiveBack, PoolSame, Zenon
  <2>3. CASE ~refused
    <3>1. upage \notin DOMAIN pte[p] BY <2>3, Zenon DEF pagedir_get_page
    <3>2. pagedir_set_page(p, upage, kpage[p], writable) /\ user_used' = user_used
      BY <1>5, <2>3, Zenon DEF install_page
    <3> HIDE DEF upage, writable
    <3>3. Frames' BY <2>1, <3>1, <3>2, FramesInstall, Zenon
    <3>4. KernelPool' BY <2>1, <3>2, PoolTable, Zenon DEF pagedir_set_page
    <3> QED BY <3>3, <3>4, Zenon
  <2> QED BY <2>2, <2>3, Zenon
<1>6. CASE pagedir_destroy(p)
  <2>1. kpage[p] = Null BY <1>6, Zenon DEF pagedir_destroy, Places
  <2>2. user_used' = user_used \ Mapped(p) BY <1>6, Zenon DEF pagedir_destroy, palloc_free_page, Mapped
  <2>3. Frames' BY <1>6, <2>1, <2>2, FramesDestroy, Zenon DEF pagedir_destroy
  <2>4. KernelPool' BY <1>6, PoolDestroy, Zenon DEF pagedir_destroy
  <2> QED BY <2>3, <2>4, Zenon
<1> QED BY <1>0, <1>1, <1>2, <1>3, <1>4, <1>5, <1>6, Zenon

(***************************************************************************)
(* FramesInv as an invariant.                                              *)
(***************************************************************************)
LEMMA FramesAlways == Spec => []FramesInv
<1>1. FramesInv /\ UNCHANGED vars => FramesInv'
  <2> SUFFICES ASSUME FramesInv, UNCHANGED vars PROVE FramesInv'
    BY Zenon
  <2>1. TypeOK' BY Zenon DEF FramesInv, TypeOK, PoolType, ProcType, PagedirType, vars
  <2>2. Places' BY Zenon DEF FramesInv, Places, vars
  <2> QED BY <2>1, <2>2, FramesSame, PoolSame, Zenon DEF FramesInv, vars
<1> QED BY <1>1, InitFrames, NextFrames, PTL DEF Spec

(***************************************************************************)
(* load(), install_page() and pagedir_destroy() for any number of          *)
(* processes and any sizes of the pools: whatever fails, a frame is in use *)
(* exactly while one process has it, for one of its pages, and no page of  *)
(* the kernel pool is lost.                                                *)
(***************************************************************************)
THEOREM FramesAlwaysOwned == Spec => []FramesOwned
<1>1. FramesInv => FramesOwned
  <2> SUFFICES ASSUME FramesInv PROVE FramesOwned
    BY Zenon
  <2>1. user_used = UNION {Taken(p) : p \in Proc} BY DEF FramesInv, Frames
  <2>2. \A p, q \in Proc : p # q => Taken(p) \cap Taken(q) = {} BY Zenon DEF FramesInv, Frames
  <2>3. ASSUME NEW p \in Proc PROVE Cardinality(Mapped(p)) = Cardinality(DOMAIN pte[p])
    <3> DEFINE f == [u \in DOMAIN pte[p] |-> pte[p][u].kpage]
    <3>1. f \in Bijection(DOMAIN pte[p], Mapped(p))
      BY Zenon DEF FramesInv, Frames, Mapped, Bijection, Injection, Surjection, IsInjective
    <3> HIDE DEF f
    <3>2. ExistsBijection(DOMAIN pte[p], Mapped(p)) BY <3>1, Zenon DEF ExistsBijection
    <3> QED BY <3>2, FS_Bijection, Zenon DEF FramesInv, TypeOK, PagedirType
  <2>4. \A p \in Proc : kpage[p] \notin Mapped(p) BY Zenon DEF FramesInv, Frames
  <2> QED BY <2>1, <2>2, <2>3, <2>4, Zenon DEF FramesOwned, FramesInv, KernelPool, Directories, Tables
<1> QED BY <1>1, FramesAlways, PTL
-----------------------------------------------------------------------------
(* Arithmetic of pages.                                                    *)

Multiple(x) == \E m \in Int : x = m * PGSIZE

(***************************************************************************)
(* vaddr.h: an address is the page it is on and an offset in that page.    *)
(***************************************************************************)
LEMMA RoundDown ==
    ASSUME NEW a \in Int
    PROVE  /\ pg_round_down(a) \in Int /\ Multiple(pg_round_down(a))
           /\ a % PGSIZE \in 0 .. PGSIZE - 1
           /\ a = pg_round_down(a) + (a % PGSIZE)
<1>1. a \div PGSIZE \in Int /\ a % PGSIZE \in 0 .. PGSIZE - 1 BY LoaderAssumption
<1>2. a = PGSIZE * (a \div PGSIZE) + (a % PGSIZE) BY LoaderAssumption
<1>3. pg_round_down(a) = (a \div PGSIZE) * PGSIZE BY Zenon DEF pg_round_down
<1>4. PGSIZE * (a \div PGSIZE) = (a \div PGSIZE) * PGSIZE /\ (a \div PGSIZE) * PGSIZE \in Int
  BY <1>1, LoaderAssumption
<1>5. Multiple(pg_round_down(a)) BY <1>1, <1>3, Zenon DEF Multiple
<1> QED BY <1>1, <1>2, <1>3, <1>4, <1>5, Zenon

(***************************************************************************)
(* round.h: a size rounded up is a number of whole pages that it fits in.  *)
(***************************************************************************)
LEMMA RoundUp ==
    ASSUME NEW n \in Int
    PROVE  round_up(n) \in Int /\ Multiple(round_up(n)) /\ n <= round_up(n)
<1> DEFINE a == n + PGSIZE - 1
<1>0. a \in Int BY LoaderAssumption
<1>1. round_up(n) = pg_round_down(a) BY Zenon DEF round_up, pg_round_down
<1>2. /\ pg_round_down(a) \in Int /\ Multiple(pg_round_down(a))
      /\ a % PGSIZE \in 0 .. PGSIZE - 1 /\ a = pg_round_down(a) + (a % PGSIZE)
  BY <1>0, RoundDown, Zenon
<1> QED BY <1>1, <1>2, LoaderAssumption

(***************************************************************************)
(* Two different pages are at least a page apart.                          *)
(***************************************************************************)
LEMMA PagesApart ==
    ASSUME NEW x \in Int, NEW y \in Int, Multiple(x), Multiple(y), x < y
    PROVE  x + PGSIZE <= y
<1>1. PICK m \in Int : x = m * PGSIZE BY Zenon DEF Multiple
<1>2. PICK n \in Int : y = n * PGSIZE BY Zenon DEF Multiple
<1>3. \A d \in Nat : d * PGSIZE \in Nat BY LoaderAssumption
<1>4. m < n
  <2> SUFFICES ASSUME ~(m < n) PROVE FALSE
    BY Zenon
  <2>1. (m - n) \in Nat /\ (m - n) * PGSIZE = m * PGSIZE - n * PGSIZE BY LoaderAssumption
  <2> QED BY <2>1, <1>1, <1>2, <1>3
<1>5. (n - m - 1) \in Nat /\ (n - m - 1) * PGSIZE = n * PGSIZE - m * PGSIZE - PGSIZE
  BY <1>4, LoaderAssumption
<1> QED BY <1>1, <1>2, <1>3, <1>5, LoaderAssumption

(***************************************************************************)
(* The next page, and a number of pages further on, is a page.             *)
(***************************************************************************)
LEMMA PagesAdd ==
    ASSUME NEW x \in Int, NEW y \in Int, Multiple(x), Multiple(y)
    PROVE  Multiple(x + y) /\ Multiple(x + PGSIZE)
<1>1. PICK m \in Int : x = m * PGSIZE BY Zenon DEF Multiple
<1>2. PICK n \in Int : y = n * PGSIZE BY Zenon DEF Multiple
<1>3. x + y = (m + n) * PGSIZE /\ x + PGSIZE = (m + 1) * PGSIZE BY <1>1, <1>2, LoaderAssumption
<1> QED BY <1>3 DEF Multiple
-----------------------------------------------------------------------------
(* The image of a program.                                                 *)

SegmentEnd(h) ==
    SegmentCursor(h).upage + SegmentCursor(h).read_bytes + SegmentCursor(h).zero_bytes

(* Page u of p has what segment h says: bytes of the file, then zeros.     *)
PageLoaded(p, h, u) ==
    LET s == SegmentCursor(h) IN
    /\ u \in DOMAIN pte[p] /\ pte[p][u].writable = h.writable
    /\ \A i \in 1 .. PGSIZE :
          content[pte[p][u].kpage][i] =
             IF (u - s.upage) + i <= s.read_bytes THEN s.ofs + (u - s.upage) + i ELSE 0

(* The pages of segment h up to address end are loaded.                    *)
LoadedTo(p, h, end) ==
    \A u \in Int : Multiple(u) /\ SegmentCursor(h).upage <= u /\ u < end => PageLoaded(p, h, u)

SegmentLoaded(p, h) ==
    h.type = "load" => validate_segment(h, program[p].length) /\ LoadedTo(p, h, SegmentEnd(h))

(* Of s, what load_segment() was asked to do, c is left after k bytes.     *)
LeftAfter(s, k, c) ==
    /\ c.read_bytes = IF k <= s.read_bytes THEN s.read_bytes - k ELSE 0
    /\ c.zero_bytes = s.read_bytes + s.zero_bytes - k - c.read_bytes
    /\ c.ofs = s.ofs + (IF k <= s.read_bytes THEN k ELSE s.read_bytes)

CursorOK(p) ==
    LET c == cursor[p]
        h == phdr(p)
        s == SegmentCursor(h)
    IN /\ h.type = "load" /\ validate_segment(h, program[p].length)
       /\ Multiple(c.upage) /\ s.upage <= c.upage /\ c.upage <= SegmentEnd(h)
       /\ LeftAfter(s, c.upage - s.upage, c)
       /\ LoadedTo(p, h, c.upage)

(* install_page() has mapped a page of the segment.                        *)
NextCursor(c) ==
    LET read == IF c.read_bytes < PGSIZE THEN c.read_bytes ELSE PGSIZE
    IN [ofs |-> c.ofs + read, upage |-> c.upage + PGSIZE, read_bytes |-> c.read_bytes - read,
        zero_bytes |-> c.zero_bytes - (PGSIZE - read)]

AtStack(p) == segment[p] > Len(program[p].phdrs)

StackLoaded(p) ==
    LET stack == PHYS_BASE - PGSIZE
    IN /\ stack \in DOMAIN pte[p] /\ pte[p][stack].writable
       /\ content[pte[p][stack].kpage] = Zeros

(* Where p is in load(), the segments before the one it is at are loaded.  *)
ImageOK(p) ==
    /\ \A i \in 1 .. Len(program[p].phdrs) :
          i < segment[p] => SegmentLoaded(p, program[p].phdrs[i])
    /\ pc[p] \in {"stack", "loaded"} => AtStack(p)
    /\ pc[p] = "segment" => ~AtStack(p) /\ CursorOK(p)
    /\ pc[p] = "install" /\ ~AtStack(p) =>
          /\ CursorOK(p) /\ content[kpage[p]] = PageImage(p)
          /\ ~(cursor[p].read_bytes = 0 /\ cursor[p].zero_bytes = 0)
    /\ pc[p] = "install" /\ AtStack(p) =>
          cursor[p].upage = PHYS_BASE - PGSIZE /\ content[kpage[p]] = Zeros
    /\ pc[p] = "loaded" => StackLoaded(p)

ImageInv == \A p \in Proc : pc[p] \notin {"none", "failed"} => ImageOK(p)

(***************************************************************************)
(* validate_segment() and load(): a segment that is accepted covers whole  *)
(* pages from the page of its first byte on, and file bytes and zeros are  *)
(* counted from the start of that page.                                    *)
(***************************************************************************)
LEMMA SegmentFacts ==
    ASSUME NEW h \in Header, NEW length, validate_segment(h, length)
    PROVE  LET s == SegmentCursor(h)
               start == h.vaddr - s.upage
           IN /\ s \in Cursor /\ SegmentEnd(h) \in Int
              /\ Multiple(s.upage) /\ Multiple(SegmentEnd(h))
              /\ start \in 0 .. PGSIZE - 1 /\ h.offset = s.ofs + start
              /\ s.read_bytes = IF h.filesz > 0 THEN start + h.filesz ELSE 0
              /\ s.upage + s.read_bytes <= SegmentEnd(h)
              /\ h.vaddr + h.memsz <= SegmentEnd(h) /\ s.upage < SegmentEnd(h)
<1> DEFINE s == SegmentCursor(h)
           po == h.vaddr % PGSIZE
           total == round_up(po + h.memsz)
           read == IF h.filesz > 0 THEN po + h.filesz ELSE 0
<1>1. h.vaddr \in Nat /\ h.offset \in Nat /\ h.filesz \in Nat /\ h.memsz \in Nat BY Zenon DEF Header
<1>2. h.offset % PGSIZE = po /\ h.memsz >= h.filesz /\ h.memsz > 0 BY Zenon DEF validate_segment
<1>3. /\ pg_round_down(h.vaddr) \in Int /\ Multiple(pg_round_down(h.vaddr))
      /\ po \in 0 .. PGSIZE - 1 /\ h.vaddr = pg_round_down(h.vaddr) + po
  BY <1>1, RoundDown
<1>4. pg_round_down(h.offset) \in Int /\ h.offset = pg_round_down(h.offset) + po
  BY <1>1, <1>2, RoundDown
<1>5. total \in Int /\ Multiple(total) /\ po + h.memsz <= total
  <2>1. po + h.memsz \in Int BY <1>1, <1>3, LoaderAssumption
  <2> QED BY <2>1, RoundUp, Zenon
<1>6. /\ s.upage = pg_round_down(h.vaddr) /\ s.ofs = pg_round_down(h.offset)
      /\ s.read_bytes = read /\ s.zero_bytes = total - read
  BY Zenon DEF SegmentCursor
<1>7. SegmentEnd(h) = pg_round_down(h.vaddr) + read + (total - read) BY <1>6, Zenon DEF SegmentEnd
<1>8. s \in Cursor BY CursorType, Zenon
<1> HIDE DEF s, po, total
<1>9. read \in Int BY <1>1, <1>3, LoaderAssumption
<1>10. SegmentEnd(h) = pg_round_down(h.vaddr) + total BY <1>3, <1>5, <1>7, <1>9
<1>11. Multiple(SegmentEnd(h)) BY <1>3, <1>5, <1>10, PagesAdd, Zenon
<1>12. read <= total /\ 0 < total BY <1>1, <1>2, <1>3, <1>5, LoaderAssumption
<1> HIDE DEF read
<1>13. s.upage + s.read_bytes <= SegmentEnd(h) BY <1>3, <1>5, <1>6, <1>9, <1>10, <1>12
<1>14. h.vaddr + h.memsz <= SegmentEnd(h) /\ s.upage < SegmentEnd(h)
  BY <1>1, <1>3, <1>5, <1>6, <1>10, <1>12, LoaderAssumption
<1>15. h.vaddr - s.upage = po /\ h.offset = s.ofs + po BY <1>1, <1>3, <1>4, <1>6, LoaderAssumption
<1> QED BY <1>3, <1>5, <1>6, <1>8, <1>10, <1>11, <1>13, <1>14, <1>15 DEF s, read, po

(***************************************************************************)
(* A segment whose pages are loaded has every byte that ImageLoaded asks   *)
(* for.                                                                    *)
(***************************************************************************)
LEMMA SegmentBytes ==
    ASSUME NEW p \in Proc, NEW h \in Header, h.type = "load", SegmentLoaded(p, h),
           NEW a \in h.vaddr .. h.vaddr + h.memsz - 1
    PROVE  LET u == pg_round_down(a)
           IN /\ u \in DOMAIN pte[p]
              /\ content[pte[p][u].kpage][(a % PGSIZE) + 1]
                   = IF a < h.vaddr + h.filesz THEN h.offset + (a - h.vaddr) + 1 ELSE 0
              /\ pte[p][u].writable = h.writable
<1> DEFINE s == SegmentCursor(h)
           u == pg_round_down(a)
           i == (a % PGSIZE) + 1
<1>1. h.vaddr \in Nat /\ h.offset \in Nat /\ h.filesz \in Nat /\ h.memsz \in Nat BY Zenon DEF Header
<1>2. a \in Int /\ h.vaddr <= a /\ a < h.vaddr + h.memsz BY <1>1
<1>3. u \in Int /\ Multiple(u) /\ i \in 1 .. PGSIZE /\ a = u + i - 1
  BY <1>2, RoundDown, LoaderAssumption
<1>4. /\ s \in Cursor /\ Multiple(s.upage) /\ SegmentEnd(h) \in Int
      /\ h.vaddr - s.upage \in 0 .. PGSIZE - 1 /\ h.offset = s.ofs + (h.vaddr - s.upage)
      /\ s.read_bytes = IF h.filesz > 0 THEN (h.vaddr - s.upage) + h.filesz ELSE 0
      /\ h.vaddr + h.memsz <= SegmentEnd(h)
  BY SegmentFacts, Zenon DEF SegmentLoaded
<1>a. s.upage \in Int /\ s.ofs \in Int /\ s.read_bytes \in Int BY <1>4, Zenon DEF Cursor
<1> HIDE DEF s, u, i
<1>5. s.upage <= u
  <2> SUFFICES ASSUME u < s.upage PROVE FALSE
    BY <1>3, <1>a
  <2>1. u + PGSIZE <= s.upage BY <1>3, <1>4, <1>a, PagesApart, Zenon
  <2>2. PGSIZE \in Nat BY LoaderAssumption
  <2>3. a < u + PGSIZE BY <1>2, <1>3, <2>2
  <2> QED BY <2>1, <2>2, <2>3, <1>1, <1>2, <1>3, <1>4, <1>a
<1>6. u < SegmentEnd(h) BY <1>1, <1>2, <1>3, <1>4
<1>7. PageLoaded(p, h, u) BY <1>3, <1>5, <1>6, Zenon DEF SegmentLoaded, LoadedTo, s
<1>8. /\ u \in DOMAIN pte[p] /\ pte[p][u].writable = h.writable
      /\ content[pte[p][u].kpage][i]
           = IF (u - s.upage) + i <= s.read_bytes THEN s.ofs + (u - s.upage) + i ELSE 0
  BY <1>3, <1>7, Zenon DEF PageLoaded, s
<1>b. i \in Int /\ u \in Int /\ a = u + i - 1 /\ h.vaddr - s.upage >= 0
  BY <1>3, <1>4, <1>a, <1>1, LoaderAssumption
<1>9. (u - s.upage) + i <= s.read_bytes <=> a < h.vaddr + h.filesz
  <2>1. CASE h.filesz > 0
    <3>1. s.read_bytes = (h.vaddr - s.upage) + h.filesz BY <2>1, <1>4, Zenon
    <3> QED BY <3>1, <1>1, <1>2, <1>a, <1>b
  <2>2. CASE h.filesz = 0
    <3>1. s.read_bytes = 0 BY <2>2, <1>4
    <3> QED BY <2>2, <3>1, <1>1, <1>2, <1>a, <1>b
  <2> QED BY <2>1, <2>2, <1>1
<1>c. h.offset = s.ofs + (h.vaddr - s.upage) BY <1>4, Zenon
<1>10. s.ofs + (u - s.upage) + i = h.offset + (a - h.vaddr) + 1
  BY <1>1, <1>2, <1>a, <1>b, <1>c
<1> QED BY <1>8, <1>9, <1>10, Zenon DEF u, i

(* The pages q maps stay mapped, and their bytes stay what they are.       *)
Kept(q) ==
    /\ program'[q] = program[q]
    /\ \A u \in DOMAIN pte[q] :
          /\ u \in DOMAIN pte'[q] /\ pte'[q][u] = pte[q][u]
          /\ content'[pte[q][u].kpage] = content[pte[q][u].kpage]

(***************************************************************************)
(* What is loaded stays loaded while its pages are kept.                   *)
(***************************************************************************)
LEMMA LoadedKept ==
    ASSUME NEW q \in Proc, Kept(q)
    PROVE  /\ \A h, u : PageLoaded(q, h, u) => PageLoaded(q, h, u)'
           /\ \A h, end : LoadedTo(q, h, end) => LoadedTo(q, h, end)'
           /\ \A h : SegmentLoaded(q, h) => SegmentLoaded(q, h)'
           /\ StackLoaded(q) => StackLoaded(q)'
<1>1. \A h, u : PageLoaded(q, h, u) => PageLoaded(q, h, u)' BY Zenon DEF PageLoaded, Kept
<1>2. \A h, end : LoadedTo(q, h, end) => LoadedTo(q, h, end)' BY <1>1, Zenon DEF LoadedTo
<1>3. \A h : SegmentLoaded(q, h) => SegmentLoaded(q, h)'
  BY <1>2, Zenon DEF SegmentLoaded, Kept
<1>4. StackLoaded(q) => StackLoaded(q)' BY Zenon DEF StackLoaded, Kept
<1> QED BY <1>1, <1>2, <1>3, <1>4, Zenon

(***************************************************************************)
(* A step of another process, which changes no frame that q has.           *)
(***************************************************************************)
LEMMA OtherProcess ==
    ASSUME TypeOK, Places, NEW q \in Proc, pc[q] \notin {"none", "failed"} => ImageOK(q),
           program'[q] = program[q], pte'[q] = pte[q], pc'[q] = pc[q], segment'[q] = segment[q],
           cursor'[q] = cursor[q], kpage'[q] = kpage[q],
           \A f \in Taken(q) : content'[f] = content[f]
    PROVE  pc'[q] \notin {"none", "failed"} => ImageOK(q)'
<1> SUFFICES ASSUME pc[q] \notin {"none", "failed"}, ImageOK(q) PROVE ImageOK(q)'
  BY Zenon
<1>1. Kept(q) BY MappedTaken, Zenon DEF Kept
<1>2. (CursorOK(q) => CursorOK(q)') /\ PageImage(q)' = PageImage(q) /\ AtStack(q)' = AtStack(q)
  <2>1. CursorOK(q) => CursorOK(q)' BY <1>1, LoadedKept, Zenon DEF CursorOK, phdr
  <2>2. PageImage(q)' = PageImage(q) BY Zenon DEF PageImage
  <2>3. AtStack(q)' = AtStack(q) BY Zenon DEF AtStack
  <2> QED BY <2>1, <2>2, <2>3, Zenon
<1>3. pc[q] = "install" => content'[kpage'[q]] = content[kpage[q]] BY Zenon DEF Places, Taken
<1>4. \A i \in 1 .. Len(program'[q].phdrs) :
         i < segment'[q] => SegmentLoaded(q, program[q].phdrs[i])'
  BY <1>1, LoadedKept, Zenon DEF ImageOK
<1>5. StackLoaded(q) => StackLoaded(q)' BY <1>1, LoadedKept, Zenon
<1> QED BY <1>2, <1>3, <1>4, <1>5, Zenon DEF ImageOK

(***************************************************************************)
(* Where p is in load() it looks at a header of its program.               *)
(***************************************************************************)
LEMMA CurrentHeader ==
    ASSUME TypeOK, Places, NEW p \in Proc, pc[p] # "none"
    PROVE  /\ program[p] \in Programs /\ segment[p] \in Nat \ {0}
           /\ Len(program[p].phdrs) \in Nat /\ cursor[p] \in Cursor
           /\ ~AtStack(p) => phdr(p) \in Header /\ segment[p] \in 1 .. Len(program[p].phdrs)
<1>1. program[p] \in Programs /\ segment[p] \in Nat \ {0} /\ cursor[p] \in Cursor
  BY DEF TypeOK, ProcType, Places
<1>2. Len(program[p].phdrs) \in Nat BY <1>1, LoaderAssumption
<1>3. ~AtStack(p) => segment[p] \in 1 .. Len(program[p].phdrs) BY <1>1, <1>2 DEF AtStack
<1> QED BY <1>1, <1>2, <1>3, PhdrType, Zenon DEF phdr

(***************************************************************************)
(* When a header is done with, the next one is looked at.                  *)
(***************************************************************************)
LEMMA NextHeader ==
    ASSUME TypeOK, Places, NEW p \in Proc, ImageOK(p), Kept(p), pc[p] # "none",
           ~AtStack(p), SegmentLoaded(p, phdr(p)),
           segment' = [segment EXCEPT ![p] = @ + 1], pc'[p] = "header"
    PROVE  ImageOK(p)'
<1>1. program'[p] = program[p] /\ segment'[p] = segment[p] + 1
  BY Zenon DEF Kept, TypeOK, ProcType
<1>2. segment[p] \in Nat BY Zenon DEF TypeOK, ProcType
<1>3. ASSUME NEW j \in 1 .. Len(program[p].phdrs), j < segment[p] + 1
      PROVE  SegmentLoaded(p, program[p].phdrs[j])
  <2>1. CASE j = segment[p] BY <2>1, Zenon DEF phdr
  <2>2. CASE j < segment[p] BY <2>2, Zenon DEF ImageOK
  <2> QED BY <2>1, <2>2, <1>2, <1>3
<1>4. \A j \in 1 .. Len(program'[p].phdrs) :
         j < segment'[p] => SegmentLoaded(p, program[p].phdrs[j])'
  BY <1>1, <1>3, LoadedKept, Zenon
<1> QED BY <1>1, <1>4, Zenon DEF ImageOK

(***************************************************************************)
(* While p stays at the same header what is before it stays loaded.        *)
(***************************************************************************)
LEMMA SameHeader ==
    ASSUME NEW p \in Proc, ImageOK(p), Kept(p), segment'[p] = segment[p]
    PROVE  /\ \A j \in 1 .. Len(program'[p].phdrs) :
                 j < segment'[p] => SegmentLoaded(p, program[p].phdrs[j])'
           /\ AtStack(p)' = AtStack(p)
           /\ phdr(p)' = phdr(p)
<1>1. program'[p] = program[p] BY Zenon DEF Kept
<1>2. \A j \in 1 .. Len(program'[p].phdrs) :
         j < segment'[p] => SegmentLoaded(p, program[p].phdrs[j])'
  BY <1>1, LoadedKept, Zenon DEF ImageOK
<1> QED BY <1>1, <1>2, Zenon DEF AtStack, phdr

(***************************************************************************)
(* read_phdr(): the cursor is set for a segment that has passed the        *)
(* checks.                                                                 *)
(***************************************************************************)
LEMMA ReadPhdrImage ==
    ASSUME TypeOK, Places, NEW p \in Proc, ImageOK(p), read_phdr(p)
    PROVE  pc'[p] \notin {"none", "failed"} => ImageOK(p)'
<1>0. /\ pc[p] = "header" /\ program' = program /\ pte' = pte /\ content' = content
  BY Zenon DEF read_phdr, procVars
<1>1. Kept(p) BY <1>0, Zenon DEF Kept
<1>2. /\ program[p] \in Programs /\ segment[p] \in Nat \ {0}
      /\ Len(program[p].phdrs) \in Nat
      /\ ~AtStack(p) => phdr(p) \in Header /\ segment[p] \in 1 .. Len(program[p].phdrs)
  BY <1>0, CurrentHeader, Zenon
<1>3. CASE AtStack(p)
  <2>1. segment' = segment /\ pc'[p] = "stack"
    BY <1>0, <1>3, Zenon DEF read_phdr, AtStack, Goto, TypeOK, ProcType
  <2> QED BY <1>1, <1>3, <2>1, SameHeader, Zenon DEF ImageOK
<1>4. CASE ~AtStack(p) /\ phdr(p).type = "ignored"
  <2>1. segment' = [segment EXCEPT ![p] = @ + 1] /\ pc'[p] = "header"
    BY <1>0, <1>4, Zenon DEF read_phdr, AtStack
  <2>2. SegmentLoaded(p, phdr(p)) BY <1>4, Zenon DEF SegmentLoaded
  <2> QED BY <1>0, <1>1, <1>4, <2>1, <2>2, NextHeader, Zenon
<1>5. CASE /\ ~AtStack(p) /\ phdr(p).type # "ignored"
           /\ phdr(p).type = "dynamic" \/ ~validate_segment(phdr(p), program[p].length)
  <2>1. pc'[p] = "failed" BY <1>0, <1>5, Zenon DEF read_phdr, AtStack, Goto, TypeOK, ProcType
  <2> QED BY <2>1, Zenon
<1>6. CASE /\ ~AtStack(p) /\ phdr(p).type # "ignored"
           /\ ~(phdr(p).type = "dynamic" \/ ~validate_segment(phdr(p), program[p].length))
  <2> DEFINE h == phdr(p)
             c == SegmentCursor(h)
  <2>1. segment' = segment /\ pc'[p] = "segment" /\ cursor'[p] = c
    BY <1>0, <1>6, Zenon DEF read_phdr, AtStack, Goto, TypeOK, ProcType
  <2>2. h \in Header /\ h.type = "load" /\ validate_segment(h, program[p].length)
    BY <1>2, <1>6, Zenon DEF Header
  <2>3. /\ c \in Cursor /\ SegmentEnd(h) \in Int /\ Multiple(c.upage)
        /\ c.upage < SegmentEnd(h) /\ c.read_bytes >= 0
    <3>1. /\ c \in Cursor /\ SegmentEnd(h) \in Int /\ Multiple(c.upage)
          /\ c.upage < SegmentEnd(h)
          /\ h.vaddr - c.upage \in 0 .. PGSIZE - 1
          /\ c.read_bytes = IF h.filesz > 0 THEN (h.vaddr - c.upage) + h.filesz ELSE 0
      BY <2>2, SegmentFacts, Zenon
    <3>2. h.filesz \in Nat BY <2>2, Zenon DEF Header
    <3> HIDE DEF c, h
    <3> QED BY <3>1, <3>2, LoaderAssumption
  <2>4. /\ AtStack(p)' = AtStack(p) /\ phdr(p)' = h
        /\ \A j \in 1 .. Len(program'[p].phdrs) :
              j < segment'[p] => SegmentLoaded(p, program[p].phdrs[j])'
    BY <1>1, <2>1, SameHeader, Zenon
  <2>5. CursorOK(p)'
    <3>a. c.upage \in Int /\ c.ofs \in Int /\ c.read_bytes \in Int /\ c.zero_bytes \in Int
      BY <2>3, Zenon DEF Cursor
    <3>1. LoadedTo(p, h, c.upage)'
      BY <2>1, <2>3, <2>4, <3>a DEF LoadedTo
    <3> HIDE DEF c
    <3>2. c.upage <= c.upage /\ c.upage <= SegmentEnd(h) BY <2>3, <3>a
    <3>b. LeftAfter(c, c.upage - c.upage, c) BY <2>3, <3>a DEF LeftAfter
    <3>3. cursor'[p] = c /\ SegmentCursor(phdr(p))' = c /\ SegmentEnd(phdr(p))' = SegmentEnd(h)
      BY <2>1, <2>4, Zenon DEF c, SegmentEnd
    <3>4. LoadedTo(p, phdr(p), cursor[p].upage)' BY <3>1, <3>3, Zenon DEF c
    <3>5. phdr(p)'.type = "load" /\ validate_segment(phdr(p), program[p].length)'
      BY <1>0, <2>2, <2>4, Zenon DEF validate_segment
    <3> HIDE DEF h
    <3> QED BY <2>3, <3>2, <3>b, <3>3, <3>4, <3>5, Zenon DEF CursorOK
  <2> QED BY <1>6, <2>1, <2>4, <2>5, Zenon DEF ImageOK
<1> QED BY <1>3, <1>4, <1>5, <1>6, Zenon

(***************************************************************************)
(* load_segment(): the segment is done with, or the frame just taken has   *)
(* the bytes of its next page.                                             *)
(***************************************************************************)
LEMMA LoadSegmentImage ==
    ASSUME TypeOK, Places, Frames, NEW p \in Proc, ImageOK(p), load_segment(p)
    PROVE  pc'[p] \notin {"none", "failed"} => ImageOK(p)'
<1> DEFINE h == phdr(p)
           s == SegmentCursor(h)
           c == cursor[p]
           f == palloc_get_page
           read == IF c.read_bytes < PGSIZE THEN c.read_bytes ELSE PGSIZE
           done == c.read_bytes = 0 /\ c.zero_bytes = 0
           short == f = Null \/ c.ofs + read > program[p].length
<1>0. pc[p] = "segment" /\ program' = program /\ pte' = pte /\ cursor' = cursor
  BY Zenon DEF load_segment, procVars
<1>1. ~AtStack(p) /\ CursorOK(p) BY <1>0, Zenon DEF ImageOK
<1>2. h \in Header /\ c \in Cursor BY <1>0, <1>1, CurrentHeader, Zenon
<1>3. CASE done
  <2>1. segment' = [segment EXCEPT ![p] = @ + 1] /\ pc'[p] = "header" /\ content' = content
    BY <1>0, <1>3, Zenon DEF load_segment, Goto, TypeOK, ProcType
  <2>2. c.upage = SegmentEnd(h)
    <3>1. s \in Cursor BY <1>2, CursorType, Zenon
    <3>2. c.zero_bytes = s.read_bytes + s.zero_bytes - (c.upage - s.upage) - c.read_bytes
      BY <1>1, Zenon DEF CursorOK, LeftAfter
    <3> HIDE DEF s, c, h
    <3> QED BY <1>2, <1>3, <3>1, <3>2 DEF SegmentEnd, Cursor, s
  <2>3. SegmentLoaded(p, h) BY <1>1, <2>2, Zenon DEF CursorOK, SegmentLoaded
  <2>4. Kept(p) BY <1>0, <2>1, Zenon DEF Kept
  <2> QED BY <1>0, <1>1, <2>1, <2>3, <2>4, NextHeader, Zenon
<1>4. CASE ~done /\ short
  <2>1. pc'[p] = "failed" BY <1>0, <1>4, Zenon DEF load_segment, Goto, TypeOK, ProcType
  <2> QED BY <2>1, Zenon
<1>5. CASE ~done /\ ~short
  <2>1. /\ segment' = segment /\ pc'[p] = "install" /\ kpage'[p] = f
        /\ content' = [content EXCEPT ![f] = PageImage(p)]
    BY <1>0, <1>5, Zenon DEF load_segment, Goto, TypeOK, ProcType, PoolType
  <2>2. f \in Frame \ user_used BY <1>5, FreshFrame, Zenon
  <2>3. content'[kpage'[p]] = PageImage(p) BY <2>1, <2>2, Zenon DEF TypeOK, PoolType
  <2>4. Kept(p)
    <3>1. \A u \in DOMAIN pte[p] : pte[p][u].kpage \in user_used BY MappedTaken, Zenon DEF Frames
    <3> HIDE DEF f
    <3> QED BY <1>0, <2>1, <2>2, <3>1, Zenon DEF Kept, TypeOK, PoolType
  <2>5. /\ AtStack(p)' = AtStack(p) /\ phdr(p)' = h
        /\ \A j \in 1 .. Len(program'[p].phdrs) :
              j < segment'[p] => SegmentLoaded(p, program[p].phdrs[j])'
    BY <2>1, <2>4, SameHeader, Zenon
  <2>6. CursorOK(p)' BY <1>0, <1>1, <2>4, <2>5, LoadedKept, Zenon DEF CursorOK
  <2>7. PageImage(p)' = PageImage(p) BY <1>0, Zenon DEF PageImage
  <2> QED BY <1>0, <1>1, <1>5, <2>1, <2>3, <2>5, <2>6, <2>7, Zenon DEF ImageOK
<1> QED BY <1>3, <1>4, <1>5, Zenon

(***************************************************************************)
(* setup_stack(): the frame just taken is zeroed.                          *)
(***************************************************************************)
LEMMA SetupStackImage ==
    ASSUME TypeOK, Places, Frames, NEW p \in Proc, ImageOK(p), setup_stack(p)
    PROVE  pc'[p] \notin {"none", "failed"} => ImageOK(p)'
<1> DEFINE f == palloc_get_page
<1>0. pc[p] = "stack" /\ program' = program /\ pte' = pte /\ segment' = segment
  BY Zenon DEF setup_stack, procVars
<1>1. AtStack(p) BY <1>0, Zenon DEF ImageOK
<1>2. CASE f = Null
  <2>1. pc'[p] = "failed" BY <1>2, Zenon DEF setup_stack, Goto, TypeOK, ProcType
  <2> QED BY <2>1, Zenon
<1>3. CASE f # Null
  <2>1. /\ pc'[p] = "install" /\ kpage'[p] = f /\ cursor'[p].upage = PHYS_BASE - PGSIZE
        /\ content' = [content EXCEPT ![f] = Zeros]
    BY <1>3 DEF setup_stack, Goto, TypeOK, ProcType, PoolType, NoCursor
  <2>2. f \in Frame \ user_used BY <1>3, FreshFrame, Zenon
  <2>3. content'[kpage'[p]] = Zeros BY <2>1, <2>2, Zenon DEF TypeOK, PoolType
  <2>4. Kept(p)
    <3>1. \A u \in DOMAIN pte[p] : pte[p][u].kpage \in user_used BY MappedTaken, Zenon DEF Frames
    <3> HIDE DEF f
    <3> QED BY <1>0, <2>1, <2>2, <3>1, Zenon DEF Kept, TypeOK, PoolType
  <2>5. /\ AtStack(p)' = AtStack(p)
        /\ \A j \in 1 .. Len(program'[p].phdrs) :
              j < segment'[p] => SegmentLoaded(p, program[p].phdrs[j])'
    BY <1>0, <2>4, SameHeader, Zenon
  <2> QED BY <1>0, <1>1, <2>1, <2>3, <2>5, Zenon DEF ImageOK
<1> QED BY <1>2, <1>3, Zenon

(***************************************************************************)
(* load_segment(): one page further the cursor is right again, and the     *)
(* page in between has the bytes of the file that it should have.          *)
(***************************************************************************)
LEMMA CursorNext ==
    ASSUME NEW s \in Cursor, NEW c \in Cursor, NEW k \in Nat, s.read_bytes >= 0,
           s.zero_bytes >= 0, k <= s.read_bytes + s.zero_bytes, LeftAfter(s, k, c)
    PROVE  /\ LeftAfter(s, k + PGSIZE, NextCursor(c))
           /\ c.read_bytes = 0 /\ c.zero_bytes = 0 <=> k = s.read_bytes + s.zero_bytes
           /\ \A i \in 1 .. PGSIZE :
                 (IF i <= (IF c.read_bytes < PGSIZE THEN c.read_bytes ELSE PGSIZE) THEN c.ofs + i ELSE 0)
                 = IF k + i <= s.read_bytes THEN s.ofs + k + i ELSE 0
<1> DEFINE read == IF c.read_bytes < PGSIZE THEN c.read_bytes ELSE PGSIZE
<1>0. PGSIZE \in Nat \ {0} BY LoaderAssumption
<1>1. /\ s.read_bytes \in Int /\ s.zero_bytes \in Int /\ s.ofs \in Int
      /\ c.read_bytes \in Int /\ c.zero_bytes \in Int /\ c.ofs \in Int
  BY DEF Cursor
<1>2. /\ NextCursor(c).read_bytes = c.read_bytes - read
      /\ NextCursor(c).zero_bytes = c.zero_bytes - (PGSIZE - read)
      /\ NextCursor(c).ofs = c.ofs + read
  BY DEF NextCursor
<1>3. CASE k <= s.read_bytes
  <2>1. /\ c.read_bytes = s.read_bytes - k /\ c.ofs = s.ofs + k
        /\ c.zero_bytes = s.read_bytes + s.zero_bytes - k - c.read_bytes
    BY <1>3 DEF LeftAfter
  <2>2. LeftAfter(s, k + PGSIZE, NextCursor(c))
    <3>1. CASE k + PGSIZE <= s.read_bytes
      <4>1. read = PGSIZE BY <1>0, <1>1, <2>1, <3>1
      <4> HIDE DEF read
      <4>2. /\ NextCursor(c).read_bytes = s.read_bytes - (k + PGSIZE)
            /\ NextCursor(c).ofs = s.ofs + (k + PGSIZE) /\ NextCursor(c).zero_bytes = s.zero_bytes
        BY <1>0, <1>1, <1>2, <2>1, <4>1
      <4> QED BY <1>0, <1>1, <3>1, <4>2 DEF LeftAfter
    <3>2. CASE ~(k + PGSIZE <= s.read_bytes)
      <4>1. read = c.read_bytes BY <1>0, <1>1, <2>1, <3>2
      <4> HIDE DEF read
      <4>2. /\ NextCursor(c).read_bytes = 0 /\ NextCursor(c).ofs = s.ofs + s.read_bytes
            /\ NextCursor(c).zero_bytes = s.read_bytes + s.zero_bytes - (k + PGSIZE)
        BY <1>0, <1>1, <1>2, <2>1, <4>1
      <4> QED BY <1>0, <1>1, <3>2, <4>2 DEF LeftAfter
    <3> QED BY <3>1, <3>2, Zenon
  <2>3. c.read_bytes = 0 /\ c.zero_bytes = 0 <=> k = s.read_bytes + s.zero_bytes
    <3>1. c.zero_bytes = s.zero_bytes BY <1>1, <2>1
    <3>2. c.read_bytes = s.read_bytes - k BY <2>1
    <3> QED BY <1>1, <1>3, <3>1, <3>2
  <2>4. \A i \in 1 .. PGSIZE :
           (IF i <= read THEN c.ofs + i ELSE 0) = IF k + i <= s.read_bytes THEN s.ofs + k + i ELSE 0
    BY <1>0, <1>1, <1>3, <2>1
  <2> QED BY <2>2, <2>3, <2>4, Zenon
<1>4. CASE ~(k <= s.read_bytes)
  <2>1. /\ c.read_bytes = 0 /\ c.ofs = s.ofs + s.read_bytes
        /\ c.zero_bytes = s.read_bytes + s.zero_bytes - k - c.read_bytes
    BY <1>4 DEF LeftAfter
  <2>2. LeftAfter(s, k + PGSIZE, NextCursor(c)) BY <1>0, <1>1, <1>2, <1>4, <2>1 DEF LeftAfter
  <2>3. c.read_bytes = 0 /\ c.zero_bytes = 0 <=> k = s.read_bytes + s.zero_bytes
    BY <1>1, <1>4, <2>1
  <2>4. \A i \in 1 .. PGSIZE :
           (IF i <= read THEN c.ofs + i ELSE 0) = IF k + i <= s.read_bytes THEN s.ofs + k + i ELSE 0
    BY <1>0, <1>1, <1>4, <2>1
  <2> QED BY <2>2, <2>3, <2>4, Zenon
<1> QED BY <1>3, <1>4

(***************************************************************************)
(* install_page() for a page of a segment: the page is loaded, and the     *)
(* cursor goes on to the next.                                             *)
(***************************************************************************)
LEMMA InstallSegmentImage ==
    ASSUME TypeOK, Places, Frames, NEW p \in Proc, ImageOK(p), pc[p] = "install", ~AtStack(p),
           cursor[p].upage \notin DOMAIN pte[p],
           pagedir_set_page(p, cursor[p].upage, kpage[p], phdr(p).writable),
           cursor'[p] = NextCursor(cursor[p]),
           UNCHANGED <<program, segment, content>>, pc'[p] = "segment"
    PROVE  ImageOK(p)'
<1> DEFINE h == phdr(p)
           s == SegmentCursor(h)
           c == cursor[p]
           k == c.upage - s.upage
           T == s.read_bytes + s.zero_bytes
           read == IF c.read_bytes < PGSIZE THEN c.read_bytes ELSE PGSIZE
<1>1. CursorOK(p) /\ content[kpage[p]] = PageImage(p) /\ ~(c.read_bytes = 0 /\ c.zero_bytes = 0)
  BY Zenon DEF ImageOK
<1>2. h \in Header /\ c \in Cursor BY CurrentHeader, Zenon
<1>a. validate_segment(h, program[p].length) /\ h.type = "load" BY <1>1, Zenon DEF CursorOK
<1>3. /\ s \in Cursor /\ SegmentEnd(h) \in Int /\ Multiple(SegmentEnd(h))
      /\ s.upage + s.read_bytes <= SegmentEnd(h) /\ s.read_bytes >= 0
  <2>1. /\ s \in Cursor /\ SegmentEnd(h) \in Int /\ Multiple(SegmentEnd(h))
        /\ s.upage + s.read_bytes <= SegmentEnd(h)
        /\ h.vaddr - s.upage \in 0 .. PGSIZE - 1
        /\ s.read_bytes = IF h.filesz > 0 THEN (h.vaddr - s.upage) + h.filesz ELSE 0
    BY <1>2, <1>a, SegmentFacts, Zenon
  <2>2. h.filesz \in Nat BY <1>2, Zenon DEF Header
  <2> HIDE DEF s, h
  <2> QED BY <2>1, <2>2, LoaderAssumption
<1>4. /\ s.upage \in Int /\ s.read_bytes \in Nat /\ s.zero_bytes \in Int /\ s.ofs \in Int
      /\ c.upage \in Int /\ c.read_bytes \in Int /\ c.zero_bytes \in Int /\ c.ofs \in Int
  BY <1>2, <1>3 DEF Cursor
<1>5. /\ Multiple(c.upage) /\ s.upage <= c.upage /\ c.upage <= SegmentEnd(h)
      /\ LeftAfter(s, k, c) /\ LoadedTo(p, h, c.upage)
  BY <1>1, Zenon DEF CursorOK
<1>6. SegmentEnd(h) = s.upage + T BY <1>4 DEF SegmentEnd
<1> HIDE DEF h, s, c
<1>7. k \in Nat /\ k <= s.read_bytes + s.zero_bytes /\ s.zero_bytes >= 0 BY <1>3, <1>4, <1>5, <1>6
<1>8. /\ LeftAfter(s, k + PGSIZE, NextCursor(c))
      /\ c.read_bytes = 0 /\ c.zero_bytes = 0 <=> k = s.read_bytes + s.zero_bytes
      /\ \A i \in 1 .. PGSIZE :
            (IF i <= read THEN c.ofs + i ELSE 0) = IF k + i <= s.read_bytes THEN s.ofs + k + i ELSE 0
  <2> HIDE DEF k
  <2> QED BY <1>2, <1>3, <1>5, <1>7, CursorNext, ZenonT(30)
<1>9. c.upage < SegmentEnd(h) BY <1>1, <1>3, <1>4, <1>5, <1>6, <1>7, <1>8
<1>10. c.upage + PGSIZE <= SegmentEnd(h) BY <1>3, <1>4, <1>5, <1>9, PagesApart, Zenon
<1>11. Multiple(c.upage + PGSIZE) BY <1>4, <1>5, PagesAdd, Zenon
<1>12. Kept(p)
  BY Zenon DEF Kept, pagedir_set_page, TypeOK, PagedirType
<1>13. /\ AtStack(p)' = AtStack(p) /\ phdr(p)' = h
       /\ \A j \in 1 .. Len(program'[p].phdrs) :
             j < segment'[p] => SegmentLoaded(p, program[p].phdrs[j])'
  BY <1>12, SameHeader, Zenon DEF h
<1>r. PICK g, w : g = h /\ w = c.upage BY Zenon
<1>14. PageLoaded(p, g, w)'
  <2>1. /\ w \in DOMAIN pte'[p]
        /\ pte'[p][w] = [kpage |-> kpage[p], writable |-> g.writable]
    BY <1>r, Zenon DEF pagedir_set_page, TypeOK, PagedirType, c, h
  <2>2. pte'[p][w].kpage = kpage[p] /\ pte'[p][w].writable = g.writable BY <2>1
  <2>3. content'[kpage[p]] = PageImage(p) BY <1>1, Zenon
  <2>4. PageImage(p) = [i \in 1 .. PGSIZE |-> IF i <= read THEN c.ofs + i ELSE 0]
    BY Zenon DEF PageImage, c
  <2>5. \A i \in 1 .. PGSIZE :
           content'[pte'[p][w].kpage][i] = IF k + i <= s.read_bytes THEN s.ofs + k + i ELSE 0
    <3> HIDE DEF read, k
    <3> QED BY <2>2, <2>3, <2>4, <1>8, Zenon
  <2>6. SegmentCursor(g) = s /\ w - SegmentCursor(g).upage = k BY <1>r, Zenon DEF s
  <2> QED BY <2>1, <2>2, <2>5, <2>6, Zenon DEF PageLoaded
<1>15. LoadedTo(p, g, w + PGSIZE)'
  <2> SUFFICES ASSUME NEW u \in Int, Multiple(u), SegmentCursor(g).upage <= u, u < w + PGSIZE
               PROVE  PageLoaded(p, g, u)'
    BY Zenon DEF LoadedTo
  <2>1. CASE u < w
    <3>1. PageLoaded(p, g, u) BY <1>5, <1>r, <2>1, Zenon DEF LoadedTo
    <3> QED BY <3>1, <1>12, LoadedKept, Zenon
  <2>2. CASE u = w BY <2>2, <1>14, Zenon
  <2>3. CASE w < u
    <3>1. w + PGSIZE <= u BY <2>3, <1>r, <1>4, <1>5, PagesApart, Zenon
    <3> QED BY <3>1, <1>r, <1>4, LoaderAssumption
  <2> QED BY <2>1, <2>2, <2>3, <1>r, <1>4
<1>16. CursorOK(p)'
  <2>1. cursor'[p] = NextCursor(c) /\ cursor'[p].upage = c.upage + PGSIZE
    BY DEF c, NextCursor
  <2>2. SegmentCursor(phdr(p))' = s /\ SegmentEnd(phdr(p))' = SegmentEnd(h)
    BY <1>13, Zenon DEF s, SegmentEnd
  <2>3. LoadedTo(p, phdr(p), cursor[p].upage)'
    BY <1>13, <1>15, <1>r, <2>1, Zenon
  <2>4. phdr(p)'.type = "load" /\ validate_segment(phdr(p), program[p].length)'
    BY <1>13, <1>a, Zenon DEF validate_segment
  <2>5. cursor'[p].upage - s.upage = k + PGSIZE /\ s.upage <= cursor'[p].upage
    <3>1. PGSIZE \in Nat BY LoaderAssumption
    <3> HIDE DEF read
    <3> QED BY <2>1, <3>1, <1>4, <1>5
  <2>6. LeftAfter(s, k + PGSIZE, cursor'[p]) BY <1>8, <2>1, Zenon
  <2>7. Multiple(cursor'[p].upage) /\ cursor'[p].upage <= SegmentEnd(h)
    BY <1>10, <1>11, <2>1, Zenon
  <2> HIDE DEF k, read
  <2> QED BY <2>2, <2>3, <2>4, <2>5, <2>6, <2>7, Zenon DEF CursorOK
<1> QED BY <1>13, <1>16, Zenon DEF ImageOK

(***************************************************************************)
(* install_page() for the stack: it is the last page load() maps.          *)
(***************************************************************************)
LEMMA InstallStackImage ==
    ASSUME TypeOK, Places, Frames, NEW p \in Proc, ImageOK(p), pc[p] = "install", AtStack(p),
           cursor[p].upage \notin DOMAIN pte[p],
           pagedir_set_page(p, cursor[p].upage, kpage[p], TRUE),
           UNCHANGED <<program, segment, content>>, pc'[p] = "loaded"
    PROVE  ImageOK(p)'
<1>1. cursor[p].upage = PHYS_BASE - PGSIZE /\ content[kpage[p]] = Zeros BY Zenon DEF ImageOK
<1>2. /\ PHYS_BASE - PGSIZE \in DOMAIN pte'[p]
      /\ pte'[p][PHYS_BASE - PGSIZE] = [kpage |-> kpage[p], writable |-> TRUE]
  BY <1>1, Zenon DEF pagedir_set_page, TypeOK, PagedirType
<1>3. StackLoaded(p)' BY <1>1, <1>2 DEF StackLoaded
<1>4. Kept(p) BY Zenon DEF Kept, pagedir_set_page, TypeOK, PagedirType
<1>5. /\ AtStack(p)' = AtStack(p)
      /\ \A j \in 1 .. Len(program'[p].phdrs) :
            j < segment'[p] => SegmentLoaded(p, program[p].phdrs[j])'
  BY <1>4, SameHeader, Zenon
<1> QED BY <1>3, <1>5, Zenon DEF ImageOK

(***************************************************************************)
(* A step of p changes no frame that another process has.                  *)
(***************************************************************************)
LEMMA ForeignFrames ==
    ASSUME FramesInv, NEW p \in Proc, NEW q \in Proc, p # q, NEW f \in Taken(q),
           \/ \E prog \in Programs : load(p, prog)
           \/ read_phdr(p) \/ load_segment(p) \/ setup_stack(p)
           \/ install_page(p) \/ pagedir_destroy(p)
    PROVE  content'[f] = content[f]
<1>1. f \in user_used /\ f \notin Taken(p) BY Zenon DEF FramesInv, Frames
<1>2. f \in Frame BY <1>1, Zenon DEF FramesInv, TypeOK, PoolType
<1>3. CASE \E prog \in Programs : load(p, prog) BY <1>3, Zenon DEF load
<1>4. CASE read_phdr(p) BY <1>4, Zenon DEF read_phdr
<1>5. CASE load_segment(p)
  BY <1>1, <1>2, <1>5, FreshFrame, Zenon DEF load_segment, FramesInv, TypeOK, PoolType
<1>6. CASE setup_stack(p)
  BY <1>1, <1>2, <1>6, FreshFrame, Zenon DEF setup_stack, FramesInv, TypeOK, PoolType
<1>7. CASE install_page(p)
  <2>1. f # kpage[p]
    <3>1. kpage[p] # Null BY <1>7, Zenon DEF install_page, FramesInv, Places
    <3> QED BY <1>1, <3>1, Zenon DEF Taken
  <2>2. \/ content' = content
        \/ content' = [g \in Frame |-> IF g \in {kpage[p]} THEN FreedFrame ELSE content[g]]
    BY <1>7, Zenon DEF install_page, palloc_free_page
  <2> QED BY <1>2, <2>1, <2>2, Zenon
<1>8. CASE pagedir_destroy(p)
  <2>1. f \notin Mapped(p) BY <1>1, Zenon DEF Taken
  <2> QED BY <1>2, <1>8, <2>1, Zenon DEF pagedir_destroy, palloc_free_page, Mapped
<1> QED BY <1>3, <1>4, <1>5, <1>6, <1>7, <1>8, Zenon

(***************************************************************************)
(* Every step keeps what is loaded.                                        *)
(***************************************************************************)
LEMMA NextImage == FramesInv /\ ImageInv /\ Next => ImageInv'
<1> SUFFICES ASSUME FramesInv, ImageInv, Next, NEW q \in Proc, pc'[q] \notin {"none", "failed"}
             PROVE  ImageOK(q)'
  BY Zenon DEF ImageInv
<1>a. TypeOK /\ Places /\ Frames BY Zenon DEF FramesInv
<1>0. PICK p \in Proc : \/ \E prog \in Programs : load(p, prog)
                        \/ read_phdr(p) \/ load_segment(p) \/ setup_stack(p)
                        \/ install_page(p) \/ pagedir_destroy(p)
  BY Zenon DEF Next
<1>1. CASE q # p
  <2>1. \A f \in Taken(q) : content'[f] = content[f] BY <1>0, <1>1, ForeignFrames, Zenon
  <2>2. program'[q] = program[q] /\ segment'[q] = segment[q] /\ cursor'[q] = cursor[q]
    BY <1>0, <1>1, <1>a, Zenon DEF TypeOK, ProcType, load, read_phdr, load_segment, setup_stack,
       install_page, pagedir_destroy, procVars
  <2>3. pc'[q] = pc[q]
    BY <1>0, <1>1, <1>a, Zenon DEF TypeOK, ProcType, load, read_phdr, load_segment, setup_stack,
       install_page, pagedir_destroy, Goto
  <2>4. pte'[q] = pte[q] /\ kpage'[q] = kpage[q]
    BY <1>0, <1>1, <1>a, Zenon DEF TypeOK, PoolType, PagedirType, load, read_phdr, load_segment,
       setup_stack, install_page, pagedir_destroy, pagedir_set_page
  <2>5. pc[q] \notin {"none", "failed"} => ImageOK(q) BY Zenon DEF ImageInv
  <2> QED BY <1>a, <2>1, <2>2, <2>3, <2>4, <2>5, OtherProcess, Zenon
<1>2. CASE q = p
  <2>1. ASSUME NEW prog \in Programs, load(p, prog) PROVE ImageOK(p)'
    <3>1. pc'[p] = "header" /\ segment'[p] = 1
      BY <1>2, <1>a, <2>1, Zenon DEF load, Goto, TypeOK, ProcType
    <3> QED BY <3>1 DEF ImageOK
  <2>2. CASE read_phdr(p)
    <3>1. ImageOK(p) BY <2>2, <1>a, Zenon DEF read_phdr, ImageInv
    <3> QED BY <1>2, <1>a, <2>2, <3>1, ReadPhdrImage, Zenon
  <2>3. CASE load_segment(p)
    <3>1. ImageOK(p) BY <2>3, <1>a, Zenon DEF load_segment, ImageInv
    <3> QED BY <1>2, <1>a, <2>3, <3>1, LoadSegmentImage, Zenon
  <2>4. CASE setup_stack(p)
    <3>1. ImageOK(p) BY <2>4, <1>a, Zenon DEF setup_stack, ImageInv
    <3> QED BY <1>2, <1>a, <2>4, <3>1, SetupStackImage, Zenon
  <2>5. CASE install_page(p)
    <3> DEFINE upage == cursor[p].upage
               refused == pagedir_get_page(p, upage) \/ ~lookup_page(p, upage)
    <3>1. ImageOK(p) /\ pc[p] = "install" BY <2>5, <1>a, Zenon DEF install_page, ImageInv
    <3>2. ~refused
      <4> SUFFICES ASSUME refused PROVE FALSE
        BY Zenon
      <4>1. Goto(p, "failed") BY <2>5, Zenon DEF install_page
      <4> QED BY <4>1, <1>2, <1>a, Zenon DEF Goto, TypeOK, ProcType
    <3>3. upage \notin DOMAIN pte[p] BY <3>2, Zenon DEF pagedir_get_page
    <3>4. /\ pagedir_set_page(p, upage, kpage[p], AtStack(p) \/ phdr(p).writable)
          /\ UNCHANGED <<program, segment, content>>
      BY <2>5, <3>2, Zenon DEF install_page, AtStack
    <3>5. CASE AtStack(p)
      <4>1. pc'[p] = "loaded"
        BY <2>5, <3>2, <3>5, <1>2, <1>a, Zenon DEF install_page, AtStack, Goto, TypeOK, ProcType
      <4>2. pagedir_set_page(p, upage, kpage[p], TRUE) BY <3>4, <3>5, Zenon
      <4> QED BY <1>2, <1>a, <3>1, <3>3, <3>4, <3>5, <4>1, <4>2, InstallStackImage, Zenon
    <3>6. CASE ~AtStack(p)
      <4>1. Goto(p, "segment") BY <2>5, <3>2, <3>6, Zenon DEF install_page, AtStack
      <4>2. pc'[p] = "segment" BY <4>1, <1>a, Zenon DEF Goto, TypeOK, ProcType
      <4>3. cursor'[p] = NextCursor(cursor[p])
        BY <2>5, <3>2, <3>6, <1>a, Zenon DEF install_page, AtStack, NextCursor, TypeOK, ProcType
      <4>4. phdr(p).writable \in BOOLEAN BY <1>a, <3>1, <3>6, CurrentHeader, Zenon DEF Header
      <4>5. pagedir_set_page(p, upage, kpage[p], phdr(p).writable)
        <5>1. (AtStack(p) \/ phdr(p).writable) = phdr(p).writable BY <3>6, <4>4, Zenon
        <5> QED BY <3>4, <5>1, Zenon
      <4> QED BY <1>2, <1>a, <3>1, <3>3, <3>4, <3>6, <4>2, <4>3, <4>5, InstallSegmentImage, Zenon
    <3> QED BY <3>5, <3>6, Zenon
  <2>6. CASE pagedir_destroy(p)
    BY <1>2, <1>a, <2>6, Zenon DEF pagedir_destroy, Goto, TypeOK, ProcType
  <2> QED BY <1>0, <1>2, <2>1, <2>2, <2>3, <2>4, <2>5, <2>6, Zenon
<1> QED BY <1>1, <1>2, Zenon

(***************************************************************************)
(* load(): for any number of processes, any programs and any sizes of the  *)
(* pools, a process that load() has reported as loaded finds in memory     *)
(* the bytes of every segment, the zeros that follow them and an empty     *)
(* stack, with the right to write that the segment gives.                  *)
(***************************************************************************)
THEOREM ImageAlwaysLoaded == Spec => []ImageLoaded
<1>1. Init => ImageInv BY Zenon DEF Init, ImageInv
<1>2. FramesInv /\ ImageInv /\ UNCHANGED vars => ImageInv'
  <2> SUFFICES ASSUME FramesInv, ImageInv, UNCHANGED vars, NEW q \in Proc
               PROVE  pc'[q] \notin {"none", "failed"} => ImageOK(q)'
    BY Zenon DEF ImageInv
  <2>1. TypeOK /\ Places BY Zenon DEF FramesInv
  <2>2. pc[q] \notin {"none", "failed"} => ImageOK(q) BY Zenon DEF ImageInv
  <2> QED BY <2>1, <2>2, OtherProcess, Zenon DEF vars
<1>3. FramesInv /\ ImageInv => ImageLoaded
  <2> SUFFICES ASSUME FramesInv, ImageInv, NEW p \in Proc, pc[p] = "loaded"
               PROVE  /\ \A i \in 1 .. Len(program[p].phdrs) :
                            LET h == program[p].phdrs[i] IN
                            h.type = "load" => \A a \in h.vaddr .. h.vaddr + h.memsz - 1 :
                              /\ pg_round_down(a) \in DOMAIN pte[p]
                              /\ content[pte[p][pg_round_down(a)].kpage][(a % PGSIZE) + 1]
                                   = IF a < h.vaddr + h.filesz THEN h.offset + (a - h.vaddr) + 1 ELSE 0
                              /\ pte[p][pg_round_down(a)].writable = h.writable
                      /\ StackLoaded(p)
    BY Zenon DEF ImageLoaded, StackLoaded
  <2>1. ImageOK(p) /\ AtStack(p) BY Zenon DEF ImageInv, ImageOK
  <2>2. program[p] \in Programs /\ segment[p] \in Nat /\ Len(program[p].phdrs) \in Nat
    BY CurrentHeader, Zenon DEF FramesInv
  <2>3. ASSUME NEW i \in 1 .. Len(program[p].phdrs)
        PROVE  SegmentLoaded(p, program[p].phdrs[i]) /\ program[p].phdrs[i] \in Header
    <3>1. i < segment[p] BY <2>1, <2>2 DEF AtStack
    <3> QED BY <2>1, <2>2, <3>1, PhdrType, Zenon DEF ImageOK
  <2> QED BY <2>1, <2>3, SegmentBytes, Zenon DEF ImageOK
<1> QED BY <1>1, <1>2, <1>3, NextImage, FramesAlways, PTL DEF Spec

=============================================================================
