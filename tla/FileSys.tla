------------------------------ MODULE FileSys ------------------------------
(***************************************************************************)
(* The file system (filesys/) and the descriptors processes reach it by    *)
(* (userprog/descriptor.c).  Every operation of a process runs under       *)
(* filesys_lock and is one step, except the three in which something can   *)
(* come between: fd_create() and fd_remove(), which write the disk more    *)
(* than once, and fd_read() from the keyboard, which waits with the lock   *)
(* held.                                                                   *)
(*                                                                         *)
(* A call that fails before it changes anything is no step.                *)
(*                                                                         *)
(* The disk is written through, so all that survives a crash is free_map,  *)
(* inode_disk, data and dir.  The files that hold the free map and the     *)
(* root directory themselves are left out: they are made when the disk is  *)
(* formatted, and each call closes the directory it opened.                *)
(***************************************************************************)
EXTENDS Integers, Sequences, FiniteSets, FiniteSetsExt

CONSTANTS Proc,               \* processes
          Name, BadName,      \* file names; BadName is empty or too long
          Program,            \* the file that is on the disk at boot
          SectorCount,        \* sectors of the file system device
          BLOCK_SECTOR_SIZE,
          DirSlots,           \* entries of the root directory
          MaxFiles,           \* bound: struct files the heap has room for
          CAPACITY,           \* descriptors that fit on a page
          Sizes,              \* bound: the sizes files are created with
          Buffers,            \* bound: what programs write
          ReadSizes,          \* bound: how many bytes programs read
          Positions,          \* bound: where programs seek to
          Null

Sector == 0 .. SectorCount - 1
FREE_MAP_SECTOR == 0
ROOT_DIR_SECTOR == 1
FileId == 1 .. MaxFiles

(* struct inode_disk, struct inode, struct file, and the locals of         *)
(* filesys_create().                                                       *)
InodeDisk == [start : Int, length : Int]
Inode == [open_cnt : Int, removed : BOOLEAN, deny_write_cnt : Int]
File == [sector : Sector, pos : Int, deny_write : BOOLEAN]
Creation == [name : Name \cup {BadName}, size : Sizes, sector : Sector, inode : BOOLEAN]

ASSUME FileSysAssumption ==
    /\ SectorCount \in Nat /\ SectorCount >= 4
    /\ BLOCK_SECTOR_SIZE \in Nat \ {0}
    /\ DirSlots \in Nat \ {0} /\ MaxFiles \in Nat /\ CAPACITY \in Nat
    /\ Sizes \subseteq Int /\ ReadSizes \subseteq Int /\ Positions \subseteq Int
    /\ Buffers \subseteq Seq(Int) /\ Program \in Name

ASSUME NullAssumption ==
    /\ Null \notin Proc /\ Null \notin Sector /\ Null \notin FileId
    /\ Null \notin InodeDisk /\ Null \notin Inode /\ Null \notin File /\ Null \notin Creation
    /\ Null \notin Seq(Int)

VARIABLES
    free_map,      \* the sectors marked used
    inode_disk,    \* struct inode_disk in each sector that holds one
    data,          \* the bytes of each sector
    dir,           \* the entries of the root directory
    open_inodes,   \* struct inode of each sector that is open
    files,         \* struct file
    descriptors,   \* the descriptor page of each process
    executable,    \* process_executable
    exiting,       \* the processes in process_exit(), their descriptors closed
    filesys_lock,  \* the process that holds it over several steps
    creating,      \* fd_create(): what it has allocated so far
    removing,      \* fd_remove(): the inode it has marked removed
    panic,
    lost           \* history: sectors marked used that nothing refers to

diskVars == <<free_map, inode_disk, data, dir>>
memVars == <<open_inodes, files, descriptors, executable, exiting>>
vars == <<diskVars, memVars, filesys_lock, creating, removing, panic, lost>>

NoEntry == [in_use |-> FALSE, name |-> Null, sector |-> 0]
NoDescriptor == [in_use |-> FALSE, fd |-> 0, file |-> Null]
ZeroSector == [i \in 1 .. BLOCK_SECTOR_SIZE |-> 0]

(* The file system has been formatted and one program put on it.           *)
Init ==
    /\ free_map = {FREE_MAP_SECTOR, ROOT_DIR_SECTOR, 2, 3}
    /\ inode_disk = [s \in Sector |-> IF s = 2 THEN [start |-> 3, length |-> BLOCK_SECTOR_SIZE]
                                       ELSE Null]
    /\ data = [s \in Sector |-> ZeroSector]
    /\ dir = [i \in 1 .. DirSlots |-> IF i = 1 THEN [in_use |-> TRUE, name |-> Program, sector |-> 2]
                                       ELSE NoEntry]
    /\ open_inodes = [s \in Sector |-> Null]
    /\ files = [f \in FileId |-> Null]
    /\ descriptors = [p \in Proc |-> [i \in 0 .. CAPACITY |-> NoDescriptor]]
    /\ executable = [p \in Proc |-> Null]
    /\ exiting = {}
    /\ filesys_lock = Null
    /\ creating = Null
    /\ removing = Null
    /\ panic = FALSE
    /\ lost = {}

Panic == panic' = TRUE /\ UNCHANGED <<diskVars, memVars, filesys_lock, creating, removing, lost>>
Running(p) == executable[p] # Null /\ p \notin exiting

(* A process makes a system call and takes filesys_lock.                   *)
Enter(p) == ~panic /\ filesys_lock = Null /\ Running(p)
-----------------------------------------------------------------------------
(* free-map.c and inode.c                                                  *)

bytes_to_sectors(size) == (size + BLOCK_SECTOR_SIZE - 1) \div BLOCK_SECTOR_SIZE
Extent(start, cnt) == start .. start + cnt - 1

(* The first run of cnt clear bits, or SectorCount for BITMAP_ERROR.       *)
free_map_allocate(used, cnt) ==
    Min({s \in Sector : s + cnt <= SectorCount /\ Extent(s, cnt) \cap used = {}}
        \cup {SectorCount})

(* The sectors inode_close() gives back with a removed inode.              *)
InodeExtent(s) == Extent(inode_disk[s].start, bytes_to_sectors(inode_disk[s].length))

inode_reopen(inode) == [inode EXCEPT !.open_cnt = @ + 1]
inode_open(opened, s) ==
    [opened EXCEPT ![s] = IF @ = Null THEN [open_cnt |-> 1, removed |-> FALSE,
                                            deny_write_cnt |-> 0]
                          ELSE inode_reopen(@)]
inode_remove(opened, s) == [opened EXCEPT ![s].removed = TRUE]
inode_deny_write(opened, s) == [opened EXCEPT ![s].deny_write_cnt = @ + 1]

(* The chunks in which inode_read_at() and inode_write_at() go through the *)
(* bytes from offset: each ends at the end of its sector, of the file or   *)
(* of the request.                                                         *)
Smaller(a, b) == IF a < b THEN a ELSE b
chunk_size(s, size, offset) ==
    Smaller(size, Smaller(inode_disk[s].length - offset,
                          BLOCK_SECTOR_SIZE - (offset % BLOCK_SECTOR_SIZE)))
byte_to_sector(s, pos) == inode_disk[s].start + (pos \div BLOCK_SECTOR_SIZE)

inode_read_at(s, size, offset) ==
    LET read[done \in 0 .. size] ==
            LET chunk == chunk_size(s, size - done, offset + done)
                ofs == (offset + done) % BLOCK_SECTOR_SIZE
            IN IF chunk <= 0 THEN <<>>
               ELSE SubSeq(data[byte_to_sector(s, offset + done)], ofs + 1, ofs + chunk)
                    \o read[done + chunk]
    IN read[0]

(* Mutant: a partial sector is written over zeros.                         *)
WriteChunk_zeros(sector, ofs, bytes) ==
    [i \in 1 .. BLOCK_SECTOR_SIZE |->
        IF i \in ofs + 1 .. ofs + Len(bytes) THEN bytes[i - ofs] ELSE 0]

(* One turn of the loop: the whole sector, or the sector read into the     *)
(* bounce buffer with the chunk copied over it.                            *)
WriteChunk(sector, ofs, bytes) ==
    [i \in 1 .. BLOCK_SECTOR_SIZE |->
        IF i \in ofs + 1 .. ofs + Len(bytes) THEN bytes[i - ofs] ELSE sector[i]]

inode_write_at(s, bytes, offset) ==
    LET write[done \in 0 .. Len(bytes)] ==
            LET chunk == chunk_size(s, Len(bytes) - done, offset + done)
                ofs == (offset + done) % BLOCK_SECTOR_SIZE
            IN IF chunk <= 0 THEN data
               ELSE [write[done + chunk] EXCEPT ![byte_to_sector(s, offset + done)] =
                        WriteChunk(@, ofs, SubSeq(bytes, done + 1, done + chunk))]
    IN write[0]

(* Bytes inode_read_at() and inode_write_at() report as transferred.       *)
bytes_transferred(s, size, offset) ==
    IF size > 0 /\ offset < inode_disk[s].length
    THEN Smaller(size, inode_disk[s].length - offset) ELSE 0
-----------------------------------------------------------------------------
(* directory.c: the slot that holds name, the slot a new entry goes to;    *)
(* zero when there is none.                                                *)
FirstSlot(S) == IF S = {} THEN 0 ELSE Min(S)
lookup(name) == FirstSlot({i \in 1 .. DirSlots : dir[i].in_use /\ dir[i].name = name})
dir_lookup(name) == dir[lookup(name)].sector
FreeSlot == FirstSlot({i \in 1 .. DirSlots : ~dir[i].in_use})

(* dir_add() refuses a bad name, a name in use and a full directory.       *)
DirAdds(name) == name # BadName /\ lookup(name) = 0 /\ FreeSlot # 0

(* file.c                                                                  *)
FreeFiles == {f \in FileId : files[f] = Null}
file_open(s) == [sector |-> s, pos |-> 0, deny_write |-> FALSE]
file_deny_write(file) == [file EXCEPT !.deny_write = TRUE]

(* file_read() and file_write() move the position by the bytes transferred.*)
file_read(file, size) ==
    [file EXCEPT !.pos = @ + bytes_transferred(file.sector, size, @)]
file_write(file, bytes) ==
    [file EXCEPT !.pos = @ + bytes_transferred(file.sector, Len(bytes), @)]
file_seek(file, position) == [file EXCEPT !.pos = position]
-----------------------------------------------------------------------------
(* fd_create(): filesys_create() with each of its writes to the disk a     *)
(* step, so that a crash can fall between them.  free_map_allocate(1) ...  *)
filesys_create(p, name, size) ==
    LET s == free_map_allocate(free_map, 1) IN
    /\ s # SectorCount
    /\ free_map' = free_map \cup {s}
    /\ creating' = [name |-> name, size |-> size, sector |-> s, inode |-> FALSE]
    /\ filesys_lock' = p
    /\ lost' = lost \cup {s}
    /\ UNCHANGED <<inode_disk, data, dir, memVars, removing, panic>>

fd_create(p, name, size) == Enter(p) /\ filesys_create(p, name, size)

(* ... inode_create(): the data sectors are allocated, the inode and the   *)
(* zeros written.  If that fails the inode's sector is given back ...      *)
inode_create(p) ==
    LET cnt == bytes_to_sectors(creating.size)
        start == free_map_allocate(free_map, cnt)
    IN /\ ~panic /\ filesys_lock = p /\ creating # Null /\ ~creating.inode
       /\ \/ creating.size < 0 /\ Panic
          \/ /\ creating.size >= 0 /\ start = SectorCount
             /\ free_map' = free_map \ {creating.sector}
             /\ lost' = lost \ {creating.sector}
             /\ creating' = Null /\ filesys_lock' = Null
             /\ UNCHANGED <<inode_disk, data, dir, memVars, removing, panic>>
          \/ /\ creating.size >= 0 /\ start # SectorCount
             /\ free_map' = free_map \cup Extent(start, cnt)
             /\ lost' = lost \cup Extent(start, cnt)
             /\ inode_disk' = [inode_disk EXCEPT ![creating.sector] =
                                  [start |-> start, length |-> creating.size]]
             /\ data' = [s \in Sector |-> IF s \in Extent(start, cnt) THEN ZeroSector
                                          ELSE data[s]]
             /\ creating' = [creating EXCEPT !.inode = TRUE]
             /\ UNCHANGED <<dir, memVars, filesys_lock, removing, panic>>

(* ... and dir_add().  If that fails only the inode's sector is given back.*)
dir_add(p) ==
    LET s == creating.sector IN
    /\ ~panic /\ filesys_lock = p /\ creating # Null /\ creating.inode
    /\ IF DirAdds(creating.name)
       THEN /\ dir' = [dir EXCEPT ![FreeSlot] = [in_use |-> TRUE, name |-> creating.name,
                                                 sector |-> s]]
            /\ lost' = lost \ ({s} \cup InodeExtent(s))
            /\ UNCHANGED free_map
       ELSE /\ free_map' = free_map \ {s}
            /\ lost' = lost \ {s}
            /\ UNCHANGED dir
    /\ creating' = Null /\ filesys_lock' = Null
    /\ UNCHANGED <<inode_disk, data, memVars, removing, panic>>

(* fd_remove(): dir_remove() opens the inode, erases the entry and marks   *)
(* the inode removed ...                                                   *)
dir_remove(name) ==
    LET s == dir_lookup(name) IN
    /\ lookup(name) # 0
    /\ dir' = [dir EXCEPT ![lookup(name)].in_use = FALSE]
    /\ open_inodes' = inode_remove(inode_open(open_inodes, s), s)
    /\ removing' = s

fd_remove(p, name) ==
    /\ Enter(p) /\ dir_remove(name)
    /\ filesys_lock' = p
    /\ UNCHANGED <<free_map, inode_disk, data, files, descriptors, executable, exiting, creating,
                   panic, lost>>

(* An inode with one opener less; it is freed with the last one.           *)
OneCloser(inode) ==
    IF inode.open_cnt = 1 THEN Null ELSE [inode EXCEPT !.open_cnt = @ - 1]

(* Mutant: the sectors are freed although others have the inode open.      *)
inode_close_now(p) ==
    LET s == removing IN
    /\ ~panic /\ filesys_lock = p /\ removing # Null
    /\ open_inodes' = [open_inodes EXCEPT ![s] = OneCloser(@)]
    /\ free_map' = free_map \ ({s} \cup InodeExtent(s))
    /\ removing' = Null /\ filesys_lock' = Null
    /\ UNCHANGED <<inode_disk, data, dir, files, descriptors, executable, exiting, creating,
                   panic, lost>>

(* ... and closes it, which frees its sectors unless others have it open.  *)
inode_close(p) ==
    LET s == removing IN
    /\ ~panic /\ filesys_lock = p /\ removing # Null
    /\ open_inodes' = [open_inodes EXCEPT ![s] = OneCloser(@)]
    /\ free_map' = IF open_inodes[s].open_cnt = 1 THEN free_map \ ({s} \cup InodeExtent(s))
                   ELSE free_map
    /\ removing' = Null /\ filesys_lock' = Null
    /\ UNCHANGED <<inode_disk, data, dir, files, descriptors, executable, exiting, creating,
                   panic, lost>>

(* filesys_open() with a struct file f from the heap.                      *)
filesys_open(name, f) ==
    /\ lookup(name) # 0
    /\ open_inodes' = inode_open(open_inodes, dir_lookup(name))
    /\ files' = [files EXCEPT ![f] = file_open(dir_lookup(name))]

(* get_new_file_descriptor(): the first index not in use, the one past the *)
(* last that fits included; CAPACITY + 1 for a null pointer.               *)
get_new_file_descriptor(p) ==
    Min({i \in 0 .. CAPACITY : ~descriptors[p][i].in_use} \cup {CAPACITY + 1})

(* get_file_descriptor(): the first descriptor in use, whatever fd is;     *)
(* CAPACITY + 1 for a null pointer.                                        *)
get_file_descriptor(p, fd) ==
    IF fd <= 1 THEN CAPACITY + 1
    ELSE Min({i \in 0 .. CAPACITY : descriptors[p][i].in_use /\ descriptors[p][i].fd = 2 + i}
             \cup {CAPACITY + 1})

(* fd_open(); the descriptor is given back when the file cannot be opened. *)
fd_open(p, name) ==
    LET i == get_new_file_descriptor(p) IN
    /\ Enter(p) /\ i <= CAPACITY /\ FreeFiles # {}
    /\ filesys_open(name, Min(FreeFiles))
    /\ descriptors' = [descriptors EXCEPT ![p][i] =
                          [in_use |-> TRUE, fd |-> 2 + i, file |-> Min(FreeFiles)]]
    /\ UNCHANGED <<diskVars, executable, exiting, filesys_lock, creating, removing, panic, lost>>

Of(F, s) == {f \in F : files[f].sector = s}
Denying(F) == {f \in F : files[f].deny_write}

(* Mutant: closing forgets to allow writes again.                          *)
InodesAfterClose_denied(F) ==
    [s \in Sector |-> IF Of(F, s) = {} THEN open_inodes[s]
                      ELSE IF open_inodes[s].open_cnt = Cardinality(Of(F, s)) THEN Null
                      ELSE [open_inodes[s] EXCEPT !.open_cnt = @ - Cardinality(Of(F, s))]]

(* file_close() of the files F, one after the other: file_allow_write(),   *)
(* then inode_close(), which frees the sectors of a removed inode with its *)
(* last opener.                                                            *)
InodesAfterClose(F) ==
    [s \in Sector |-> IF Of(F, s) = {} THEN open_inodes[s]
                      ELSE IF open_inodes[s].open_cnt = Cardinality(Of(F, s)) THEN Null
                      ELSE [open_inodes[s] EXCEPT
                               !.open_cnt = @ - Cardinality(Of(F, s)),
                               !.deny_write_cnt = @ - Cardinality(Denying(Of(F, s)))]]
file_close(F) ==
    /\ open_inodes' = InodesAfterClose(F)
    /\ free_map' = free_map \ UNION {{s} \cup InodeExtent(s) :
                        s \in {z \in Sector : /\ open_inodes[z] # Null /\ open_inodes[z].removed
                                             /\ InodesAfterClose(F)[z] = Null}}
    /\ files' = [f \in FileId |-> IF f \in F THEN Null ELSE files[f]]

fd_close(p, fd) ==
    LET i == get_file_descriptor(p, fd) IN
    /\ Enter(p) /\ i <= CAPACITY
    /\ file_close({descriptors[p][i].file})
    /\ descriptors' = [descriptors EXCEPT ![p][i] = NoDescriptor]
    /\ UNCHANGED <<inode_disk, data, dir, executable, exiting, filesys_lock, creating, removing, panic, lost>>

(* fd_read() from a file: only the position moves.                         *)
fd_read(p, fd, size) ==
    LET i == get_file_descriptor(p, fd)
        f == descriptors[p][i].file
    IN /\ Enter(p) /\ i <= CAPACITY
       /\ files' = [files EXCEPT ![f] = file_read(@, size)]
       /\ UNCHANGED <<diskVars, open_inodes, descriptors, executable, exiting, filesys_lock, creating,
                      removing, panic, lost>>

(* fd_read() from the keyboard holds filesys_lock until the line is in.    *)
fd_read_stdin(p) ==
    /\ Enter(p) /\ filesys_lock' = p
    /\ UNCHANGED <<diskVars, memVars, creating, removing, panic, lost>>

fd_read_stdin_return(p) ==
    /\ ~panic /\ filesys_lock = p /\ creating = Null /\ removing = Null
    /\ filesys_lock' = Null
    /\ UNCHANGED <<diskVars, memVars, creating, removing, panic, lost>>

(* Mutant: the count of denials is not looked at.                          *)
fd_write_denied(p, fd, bytes) ==
    LET i == get_file_descriptor(p, fd)
        f == files[descriptors[p][i].file]
    IN /\ Enter(p) /\ i <= CAPACITY
       /\ data' = inode_write_at(f.sector, bytes, f.pos)
       /\ UNCHANGED <<free_map, inode_disk, dir, memVars, filesys_lock, creating, removing, panic, lost>>

(* fd_write() to a file; nothing is written while writes are denied.       *)
fd_write(p, fd, bytes) ==
    LET i == get_file_descriptor(p, fd)
        f == files[descriptors[p][i].file]
    IN /\ Enter(p) /\ i <= CAPACITY /\ open_inodes[f.sector].deny_write_cnt = 0
       /\ data' = inode_write_at(f.sector, bytes, f.pos)
       /\ files' = [files EXCEPT ![descriptors[p][i].file] = file_write(@, bytes)]
       /\ UNCHANGED <<free_map, inode_disk, dir, open_inodes, descriptors, executable,
                      exiting, filesys_lock, creating, removing, panic, lost>>

(* fd_seek(); file_seek() asserts that the position is not negative.       *)
fd_seek(p, fd, position) ==
    LET i == get_file_descriptor(p, fd) IN
    /\ Enter(p) /\ i <= CAPACITY
    /\ IF position < 0 THEN Panic
       ELSE /\ files' = [files EXCEPT ![descriptors[p][i].file] = file_seek(@, position)]
            /\ UNCHANGED <<diskVars, open_inodes, descriptors, executable, exiting, filesys_lock,
                           creating, removing, panic, lost>>
-----------------------------------------------------------------------------
(* The executable: load() opens it and denies writes, process_exit()       *)
(* closes it.                                                              *)
open_process_executable(p, name) ==
    LET f == Min(FreeFiles)
        s == dir_lookup(name)
    IN /\ ~panic /\ filesys_lock = Null /\ executable[p] = Null
       /\ FreeFiles # {} /\ lookup(name) # 0
       /\ open_inodes' = inode_deny_write(inode_open(open_inodes, s), s)
       /\ files' = [files EXCEPT ![f] = file_deny_write(file_open(s))]
       /\ executable' = [executable EXCEPT ![p] = f]
       /\ UNCHANGED <<diskVars, descriptors, exiting, filesys_lock, creating, removing, panic, lost>>

(* process_exit(): close_all_file_descriptors(), then, with the lock taken *)
(* anew, close_process_executable().                                       *)
close_all_file_descriptors(p) ==
    /\ Enter(p)
    /\ file_close({descriptors[p][i].file : i \in {j \in 0 .. CAPACITY : descriptors[p][j].in_use}})
    /\ descriptors' = [descriptors EXCEPT ![p] = [i \in 0 .. CAPACITY |-> NoDescriptor]]
    /\ exiting' = exiting \cup {p}
    /\ UNCHANGED <<inode_disk, data, dir, executable, filesys_lock, creating, removing, panic, lost>>

close_process_executable(p) ==
    /\ ~panic /\ filesys_lock = Null /\ p \in exiting
    /\ file_close({executable[p]})
    /\ executable' = [executable EXCEPT ![p] = Null]
    /\ exiting' = exiting \ {p}
    /\ UNCHANGED <<inode_disk, data, dir, descriptors, filesys_lock, creating, removing, panic, lost>>

(* The machine stops at any moment and boots again: memory is gone, the    *)
(* free map is read from the disk.                                         *)
filesys_init ==
    /\ lost' = lost \cup UNION {{s} \cup InodeExtent(s) :
                    s \in {z \in Sector : open_inodes[z] # Null /\ open_inodes[z].removed}}
    /\ open_inodes' = [s \in Sector |-> Null]
    /\ files' = [f \in FileId |-> Null]
    /\ descriptors' = [p \in Proc |-> [i \in 0 .. CAPACITY |-> NoDescriptor]]
    /\ executable' = [p \in Proc |-> Null]
    /\ exiting' = {}
    /\ filesys_lock' = Null /\ creating' = Null /\ removing' = Null
    /\ panic' = FALSE
    /\ UNCHANGED diskVars

Next ==
    \/ \E p \in Proc :
        \/ \E name \in Name \cup {BadName}, size \in Sizes : fd_create(p, name, size)
        \/ inode_create(p) \/ dir_add(p) \/ inode_close(p)
        \/ \E name \in Name : fd_remove(p, name) \/ fd_open(p, name)
                              \/ open_process_executable(p, name)
        \/ \E fd \in 2 .. CAPACITY + 2 :
              \/ fd_close(p, fd)
              \/ \E size \in ReadSizes : fd_read(p, fd, size)
              \/ \E bytes \in Buffers : fd_write(p, fd, bytes)
              \/ \E position \in Positions : fd_seek(p, fd, position)
        \/ fd_read_stdin(p) \/ fd_read_stdin_return(p)
        \/ close_all_file_descriptors(p) \/ close_process_executable(p)
    \/ filesys_init

Spec == Init /\ [][Next]_vars
-----------------------------------------------------------------------------
Linked == {dir[i].sector : i \in {j \in 1 .. DirSlots : dir[j].in_use}}
Live == Linked \cup {s \in Sector : open_inodes[s] # Null}

(* The sectors of the file whose inode is in sector s, and of all files.   *)
Owned(s) == {s} \cup InodeExtent(s)
FileSectors == UNION {Owned(s) : s \in Live}

(* Every sector of a file that is in the directory or open is marked used  *)
(* and belongs to that file alone; what else is marked used is lost, and   *)
(* only a create that fails or a crash loses sectors.  It holds between    *)
(* any two writes to the disk, so after a crash as well.                   *)
SectorsOwned ==
    /\ \A s \in Live : inode_disk[s] # Null
    /\ \A s, z \in Live : s # z => Owned(s) \cap Owned(z) = {}
    /\ free_map = {FREE_MAP_SECTOR, ROOT_DIR_SECTOR} \cup FileSectors \cup lost
    /\ lost \cap FileSectors = {}

OpenFiles == {f \in FileId : files[f] # Null}

(* The descriptors that lead to f, and the processes that execute it.      *)
Handles(f) ==
    {h \in Proc \X (0 .. CAPACITY) : /\ descriptors[h[1]][h[2]].in_use
                                     /\ descriptors[h[1]][h[2]].file = f}
    \cup {q \in Proc : executable[q] = f} \X {CAPACITY + 1}

(* An inode counts its openers and those of them that deny writes, over    *)
(* every order of open, exec, remove, close and exit; every struct file    *)
(* has one descriptor or executable that will close it.                    *)
CountsMatch ==
    /\ \A s \in Sector :
         IF open_inodes[s] = Null THEN Of(OpenFiles, s) = {}
         ELSE /\ open_inodes[s].open_cnt = Cardinality(Of(OpenFiles, s))
                                          + (IF removing = s THEN 1 ELSE 0)
              /\ open_inodes[s].deny_write_cnt = Cardinality(Denying(Of(OpenFiles, s)))
    /\ \A f \in FileId : Cardinality(Handles(f)) = IF files[f] = Null THEN 0 ELSE 1

(* A file some process executes is not changed by any write.               *)
ExecutablesUnchanged ==
    [][\A p \in Proc : executable[p] # Null /\ executable'[p] = executable[p] =>
          LET s == files[executable[p]].sector
          IN /\ inode_disk'[s] = inode_disk[s]
             /\ \A z \in InodeExtent(s) : data'[z] = data[z]]_vars

(* The bytes of a file, read through its sectors.                          *)
Content(s) == inode_read_at(s, inode_disk[s].length, 0)

(* The files implement FlatFiles: names lead to byte sequences, which      *)
(* change only where they are written and last until closed.               *)
Flat == INSTANCE FlatFiles
            WITH names <- [n \in Name |-> IF lookup(n) = 0 THEN Null ELSE dir[lookup(n)].sector],
                 content <- [s \in Sector |-> IF s \in Live THEN Content(s) ELSE Null],
                 Object <- Sector
ImplementsFlatFiles == Flat!Spec

(* An operation on fd works on the descriptor fd was returned for.         *)
LookupFindsDescriptor ==
    \A p \in Proc, i \in 0 .. CAPACITY :
        get_file_descriptor(p, 2 + i) = IF descriptors[p][i].in_use THEN i ELSE CAPACITY + 1
=============================================================================
