---------------------------- MODULE FileContents ----------------------------
(***************************************************************************)
(* Proofs about the contents of the files of module FileSys: that the      *)
(* bytes of an executable do not change while a process runs it, and that  *)
(* inodes, sectors and directory entries implement the flat files of       *)
(* module FlatFiles.                                                       *)
(***************************************************************************)
EXTENDS FileSysProofs

(* What the contents of files rest on, beside FileSysOK: names are in the  *)
(* directory once; the inodes of files have their extent on the disk, and  *)
(* so has the one a create has written, whose data is zeros; positions are *)
(* not negative; the executables of processes deny writes.                 *)
NamesOK ==
    \A i, j \in 1 .. DirSlots :
        dir[i].in_use /\ dir[j].in_use /\ dir[i].name = dir[j].name => i = j
InodesOK == \A s \in Live : Sound(inode_disk[s])
CreatedOK ==
    creating # Null /\ creating.inode =>
        /\ Sound(inode_disk[creating.sector])
        /\ inode_disk[creating.sector].length = creating.size
        /\ \A z \in InodeExtent(creating.sector) : data[z] = ZeroSector
DiskOK == NamesOK /\ data \in [Sector -> Block] /\ InodesOK /\ CreatedOK

FilesOK ==
    /\ \A f \in FileId : files[f] # Null => files[f].pos \in Nat
    /\ \A p \in Proc : executable[p] # Null => files[executable[p]].deny_write

ContentsOK == FileSysOK /\ DiskOK /\ FilesOK
-----------------------------------------------------------------------------
(* The kinds of steps, as far as the contents of files go: none of them    *)
(* changes, the file being created gets its inode and its zeros or its     *)
(* name, a file loses its name, or is written.                             *)
Inodes(z, start, size) ==
    /\ inode_disk' = [inode_disk EXCEPT ![z] = [start |-> start, length |-> size]]
    /\ data' = [s \in Sector |-> IF s \in Extent(start, bytes_to_sectors(size)) THEN ZeroSector
                                 ELSE data[s]]
    /\ creating' = [creating EXCEPT !.inode = TRUE]
    /\ UNCHANGED <<dir, open_inodes>>

CreatesInode ==
    /\ creating # Null /\ ~creating.inode /\ creating.size >= 0
    /\ free_map_allocate(free_map, bytes_to_sectors(creating.size)) # SectorCount
    /\ Inodes(creating.sector, free_map_allocate(free_map, bytes_to_sectors(creating.size)),
              creating.size)
    /\ UNCHANGED memVars

LinksFile ==
    /\ creating # Null /\ creating.inode /\ DirAdds(creating.name)
    /\ dir' = [dir EXCEPT ![FreeSlot] = [in_use |-> TRUE, name |-> creating.name,
                                         sector |-> creating.sector]]
    /\ creating' = Null
    /\ UNCHANGED <<inode_disk, data, memVars>>

UnlinksFile(name) ==
    /\ lookup(name) # 0 /\ creating = Null
    /\ dir' = [dir EXCEPT ![lookup(name)].in_use = FALSE]
    /\ open_inodes' = inode_remove(inode_open(open_inodes, dir_lookup(name)), dir_lookup(name))
    /\ UNCHANGED <<inode_disk, data, creating, files, executable>>

WritesFile(f, bytes) ==
    /\ creating = Null /\ open_inodes[files[f].sector].deny_write_cnt = 0
    /\ data' = inode_write_at(files[f].sector, bytes, files[f].pos)
    /\ UNCHANGED <<inode_disk, dir, open_inodes, creating>>

LeavesContents ==
    /\ UNCHANGED <<inode_disk, data, dir>> /\ Live' \subseteq Live
    /\ creating' = creating \/ creating' = Null \/ ~creating'.inode

ContentStep ==
    \/ LeavesContents \/ CreatesInode \/ LinksFile
    \/ \E name \in Name : UnlinksFile(name)
    \/ \E f \in OpenFiles, bytes \in Buffers : WritesFile(f, bytes)

(* A step that leaves the directory and the open inodes alone leaves the   *)
(* set of files alone.                                                     *)
LEMMA LiveSame ==
    ASSUME UNCHANGED <<dir, open_inodes>> PROVE Live' = Live
  BY Zenon DEF Live, Linked

(* Opening a file in the directory adds none.                              *)
LEMMA OpenLive ==
    ASSUME FileSysOK, NEW s \in Linked, UNCHANGED dir,
           \/ open_inodes' = inode_open(open_inodes, s)
           \/ open_inodes' = inode_deny_write(inode_open(open_inodes, s), s)
    PROVE  Live' \subseteq Live
<1>1. open_inodes \in [Sector -> Inode \cup {Null}] /\ Linked' = Linked
  BY Zenon DEF FileSysOK, TypeOK, Linked
<1>2. ASSUME NEW z \in Sector, z # s PROVE open_inodes'[z] = open_inodes[z]
  BY <1>1, <1>2, Zenon DEF inode_open, inode_deny_write
<1> QED
  BY <1>1, <1>2, Zenon DEF Live

(* Every step is of one of the kinds.                                      *)
LEMMA StepKinds ==
    ASSUME FileSysOK, [Next]_vars PROVE ContentStep
<1>1. CASE UNCHANGED vars
  <2>1. Live' = Live
    BY <1>1, LiveSame, Zenon DEF vars, diskVars, memVars
  <2> QED
    BY <1>1, <2>1, Zenon DEF ContentStep, LeavesContents, vars, diskVars
<1>2. CASE filesys_init
  <2>1. UNCHANGED <<inode_disk, data, dir>> /\ creating' = Null
        /\ open_inodes' = [s \in Sector |-> Null]
    BY <1>2, Zenon DEF filesys_init, diskVars
  <2>2. Live' \subseteq Live
    BY <2>1, Zenon DEF Live, Linked
  <2> QED
    BY <2>1, <2>2, Zenon DEF ContentStep, LeavesContents
<1>3. ASSUME NEW p \in Proc, NEW name \in Name \cup {BadName}, NEW size \in Sizes,
             fd_create(p, name, size)
      PROVE  ContentStep
  <2> DEFINE t == free_map_allocate(free_map, 1)
  <2>1. /\ UNCHANGED <<inode_disk, data, dir, memVars>>
        /\ creating' = [name |-> name, size |-> size, sector |-> t, inode |-> FALSE]
    BY <1>3, Zenon DEF fd_create, filesys_create
  <2> HIDE DEF t
  <2>2. ~creating'.inode
    BY <2>1
  <2>3. Live' = Live
    BY <2>1, LiveSame, Zenon DEF memVars
  <2> QED
    BY <2>1, <2>2, <2>3, Zenon DEF ContentStep, LeavesContents
<1>4. ASSUME NEW p \in Proc, inode_create(p) PROVE ContentStep
  <2> DEFINE cnt == bytes_to_sectors(creating.size)
             start == free_map_allocate(free_map, cnt)
  <2>1. CASE UNCHANGED <<diskVars, memVars, creating>>
    <3>1. Live' = Live
      BY <2>1, LiveSame, Zenon DEF diskVars, memVars
    <3> QED
      BY <2>1, <3>1, Zenon DEF ContentStep, LeavesContents, diskVars
  <2>2. CASE creating' = Null /\ UNCHANGED <<inode_disk, data, dir, memVars>>
    <3>1. Live' = Live
      BY <2>2, LiveSame, Zenon DEF memVars
    <3> QED
      BY <2>2, <3>1, Zenon DEF ContentStep, LeavesContents
  <2>3. CASE /\ creating # Null /\ ~creating.inode /\ creating.size >= 0 /\ start # SectorCount
             /\ inode_disk' = [inode_disk EXCEPT ![creating.sector] =
                                  [start |-> start, length |-> creating.size]]
             /\ data' = [s \in Sector |-> IF s \in Extent(start, cnt) THEN ZeroSector
                                          ELSE data[s]]
             /\ creating' = [creating EXCEPT !.inode = TRUE]
             /\ UNCHANGED <<dir, memVars>>
    BY <2>3, Zenon DEF ContentStep, CreatesInode, Inodes, memVars
  <2> QED
    BY <1>4, <2>1, <2>2, <2>3, Zenon DEF inode_create, Panic
<1>5. ASSUME NEW p \in Proc, dir_add(p) PROVE ContentStep
  <2>1. CASE DirAdds(creating.name)
    BY <1>5, <2>1, Zenon DEF dir_add, ContentStep, LinksFile
  <2>2. CASE ~DirAdds(creating.name)
    <3>1. creating' = Null /\ UNCHANGED <<inode_disk, data, dir, memVars>>
      BY <1>5, <2>2, Zenon DEF dir_add
    <3>2. Live' = Live
      BY <3>1, LiveSame, Zenon DEF memVars
    <3> QED
      BY <3>1, <3>2, Zenon DEF ContentStep, LeavesContents
  <2> QED
    BY <2>1, <2>2, Zenon
<1>6. ASSUME NEW p \in Proc, inode_close(p) PROVE ContentStep
  <2>1. /\ UNCHANGED <<inode_disk, data, dir, creating>> /\ removing # Null
        /\ open_inodes' = [open_inodes EXCEPT ![removing] = OneCloser(open_inodes[removing])]
    BY <1>6, Zenon DEF inode_close
  <2>2. open_inodes \in [Sector -> Inode \cup {Null}] /\ open_inodes[removing] # Null
    BY <2>1, Zenon DEF FileSysOK, TypeOK, LinksOK
  <2>3. \A z \in Sector : open_inodes'[z] # Null => open_inodes[z] # Null
    BY <2>1, <2>2, Zenon
  <2>4. Live' \subseteq Live
    BY <2>1, <2>3, Zenon DEF Live, Linked
  <2> QED
    BY <2>1, <2>4, Zenon DEF ContentStep, LeavesContents
<1>7. ASSUME NEW p \in Proc, NEW name \in Name, fd_remove(p, name) PROVE ContentStep
  <2>1. creating = Null
    BY <1>7, LockFree, Zenon DEF fd_remove, Enter
  <2>2. UnlinksFile(name)
    BY <1>7, <2>1, Zenon DEF fd_remove, dir_remove, UnlinksFile
  <2> QED
    BY <2>2, Zenon DEF ContentStep
<1>8. ASSUME NEW p \in Proc, NEW name \in Name,
             fd_open(p, name) \/ open_process_executable(p, name)
      PROVE  ContentStep
  <2> DEFINE s == dir_lookup(name)
  <2>1. /\ UNCHANGED <<inode_disk, data, dir, creating>> /\ lookup(name) # 0
        /\ \/ open_inodes' = inode_open(open_inodes, s)
           \/ open_inodes' = inode_deny_write(inode_open(open_inodes, s), s)
    BY <1>8, Zenon DEF fd_open, filesys_open, open_process_executable, diskVars
  <2>2. s \in Linked
    BY <2>1, LookupFinds, Zenon DEF FileSysOK
  <2> HIDE DEF s
  <2>3. Live' \subseteq Live
    BY <2>1, <2>2, OpenLive, Zenon
  <2> QED
    BY <2>1, <2>3, Zenon DEF ContentStep, LeavesContents
<1>9. ASSUME NEW p \in Proc, NEW fd, fd_close(p, fd) PROVE ContentStep
  BY <1>9, CloseStep, Zenon DEF fd_close, ContentStep, LeavesContents
<1>10. ASSUME NEW p \in Proc, close_all_file_descriptors(p) PROVE ContentStep
  BY <1>10, CloseAllStep, Zenon DEF close_all_file_descriptors, ContentStep, LeavesContents
<1>11. ASSUME NEW p \in Proc, close_process_executable(p) PROVE ContentStep
  BY <1>11, CloseExecutableStep, Zenon DEF close_process_executable, ContentStep, LeavesContents
<1>12. ASSUME UNCHANGED <<diskVars, open_inodes, creating>> PROVE ContentStep
  <2>1. Live' = Live
    BY <1>12, LiveSame, Zenon DEF diskVars
  <2> QED
    BY <1>12, <2>1, Zenon DEF ContentStep, LeavesContents, diskVars
<1>13. ASSUME NEW p \in Proc, NEW fd, NEW size, fd_read(p, fd, size) PROVE ContentStep
  BY <1>12, <1>13, Zenon DEF fd_read
<1>14. ASSUME NEW p \in Proc, NEW fd, NEW position, fd_seek(p, fd, position) PROVE ContentStep
  BY <1>12, <1>14, Zenon DEF fd_seek, Panic, memVars
<1>15. ASSUME NEW p \in Proc, fd_read_stdin(p) \/ fd_read_stdin_return(p) PROVE ContentStep
  BY <1>12, <1>15, Zenon DEF fd_read_stdin, fd_read_stdin_return, memVars
<1>16. ASSUME NEW p \in Proc, NEW fd, NEW bytes \in Buffers, fd_write(p, fd, bytes)
       PROVE  ContentStep
  <2> DEFINE k == get_file_descriptor(p, fd)
             f == descriptors[p][k].file
  <2>1. /\ filesys_lock = Null /\ k <= CAPACITY
        /\ open_inodes[files[f].sector].deny_write_cnt = 0
        /\ data' = inode_write_at(files[f].sector, bytes, files[f].pos)
        /\ UNCHANGED <<inode_disk, dir, open_inodes, creating>>
    BY <1>16, Zenon DEF fd_write, Enter
  <2>2. f \in OpenFiles
    BY <2>1, DescriptorInUse, DescriptorFile, Zenon
  <2>3. creating = Null
    BY <2>1, LockFree, Zenon
  <2> HIDE DEF f
  <2>4. WritesFile(f, bytes)
    BY <2>1, <2>3, Zenon DEF WritesFile
  <2> QED
    BY <2>2, <2>4, Zenon DEF ContentStep
<1> QED
  BY <1>1, <1>2, <1>3, <1>4, <1>5, <1>6, <1>7, <1>8, <1>9, <1>10, <1>11, <1>13, <1>14, <1>15, <1>16,
     Zenon DEF Next
-----------------------------------------------------------------------------
(* The sectors of a file are marked used and no other file has them.       *)
LEMMA ExtentOwned ==
    ASSUME FileSysOK, NEW s \in Live
    PROVE  /\ s \in Sector /\ s \in free_map /\ \A x \in InodeExtent(s) : x \in free_map
           /\ \A z \in Live : z # s => \A x \in InodeExtent(s) : x \notin InodeExtent(z)
<1>1. Live \subseteq Sector
  BY LiveSectors, Zenon DEF FileSysOK
<1>2. \A z \in Live : z \in Own[z] /\ \A x \in InodeExtent(z) : x \in Own[z]
  BY <1>1, Zenon DEF Own, Owned
<1>3. /\ \A z \in Live : \A x \in Own[z] : x \in free_map
      /\ \A y, z \in Live : \A x \in Own[y] : x \in Own[z] => y = z
  BY Zenon DEF FileSysOK, SectorsOK, Partition
<1> QED
  BY <1>1, <1>2, <1>3, Zenon

(* No entry in use has a name that lookup() does not find.                 *)
LEMMA LookupMisses ==
    ASSUME NEW name, lookup(name) = 0
    PROVE  \A i \in 1 .. DirSlots : ~(dir[i].in_use /\ dir[i].name = name)
<1> DEFINE S == {i \in 1 .. DirSlots : dir[i].in_use /\ dir[i].name = name}
<1>1. S \in SUBSET Nat /\ 0 \notin S
  BY FileSysAssumption
<1>2. S = {} \/ Min(S) \in S
  BY <1>1, MinIn, Zenon
<1>3. lookup(name) = FirstSlot(S)
  BY Zenon DEF lookup
<1>4. S = {}
  BY <1>1, <1>2, <1>3, Zenon DEF FirstSlot
<1> QED
  BY <1>4, Zenon

(* What inode_create() writes.                                             *)
LEMMA CreatedInode ==
    ASSUME FileSysOK, CreatesInode
    PROVE  LET s == creating.sector
               n == bytes_to_sectors(creating.size)
               start == free_map_allocate(free_map, n)
           IN /\ s \in Sector /\ s \notin Live /\ Live' = Live
              /\ Extent(start, n) \cap free_map = {} /\ Extent(start, n) \subseteq Sector
              /\ inode_disk'[s].start = start /\ inode_disk'[s].length = creating.size
              /\ Sound(inode_disk'[s])
              /\ \A z \in Sector : z # s => inode_disk'[z] = inode_disk[z]
              /\ creating'.sector = s /\ creating'.size = creating.size /\ creating.size \in Sizes
<1> DEFINE s == creating.sector
           n == bytes_to_sectors(creating.size)
           start == free_map_allocate(free_map, n)
<1>0. /\ creating # Null /\ creating.size >= 0 /\ start # SectorCount
      /\ inode_disk' = [inode_disk EXCEPT ![s] = [start |-> start, length |-> creating.size]]
      /\ creating' = [creating EXCEPT !.inode = TRUE] /\ UNCHANGED <<dir, open_inodes>>
  BY Zenon DEF CreatesInode, Inodes
<1>1. s \in Sector /\ s \notin Live /\ Live' = Live /\ creating \in Creation
  BY <1>0, CreatingNotLive, LiveSame, Zenon
<1>2. creating.size \in Sizes /\ creating'.sector = s /\ creating'.size = creating.size
  BY <1>0, <1>1 DEF Creation
<1>3. start \in Sector /\ Extent(start, n) \cap free_map = {} /\ start + n <= SectorCount
  BY <1>0, AllocatedFree, Zenon
<1>4. creating.size \in Nat
  BY <1>0, <1>2, FileSysAssumption
<1>5. n \in Nat
  BY <1>4, InExtent, Zenon
<1> DEFINE size == creating.size
           d == [start |-> start, length |-> size]
<1> HIDE DEF start, n, s, size
<1>6. start \in Nat /\ Extent(start, n) \subseteq Sector
  BY <1>3, <1>5, FileSysAssumption DEF Extent, Sector
<1>7. d.start = start /\ d.length = size
  OBVIOUS
<1>8. inode_disk' = [inode_disk EXCEPT ![s] = d]
  BY <1>0, Zenon DEF size
<1> HIDE DEF d
<1>9. inode_disk'[s] = d /\ \A z \in Sector : z # s => inode_disk'[z] = inode_disk[z]
  <2>1. inode_disk \in [Sector -> InodeDisk \cup {Null}]
    BY Zenon DEF FileSysOK, TypeOK
  <2> QED
    BY <1>1, <1>8, <2>1, Zenon
<1>10. Sound(d)
  BY <1>3, <1>4, <1>6, <1>7, Zenon DEF Sound, n, size
<1> QED
  BY <1>1, <1>2, <1>3, <1>6, <1>7, <1>9, <1>10, Zenon DEF start, n, s, size

(* The file dir_add() enters.                                              *)
LEMMA FileLinked ==
    ASSUME FileSysOK, LinksFile
    PROVE  LET s == creating.sector
           IN /\ s \in Sector /\ s \notin Live /\ Live' = Live \cup {s}
              /\ creating.name \in Name /\ creating.size \in Sizes
              /\ FreeSlot \in 1 .. DirSlots /\ ~dir[FreeSlot].in_use
              /\ dir'[FreeSlot].in_use /\ dir'[FreeSlot].name = creating.name
              /\ dir'[FreeSlot].sector = s
              /\ \A i \in 1 .. DirSlots : i # FreeSlot => dir'[i] = dir[i]
<1> DEFINE s == creating.sector
           k == FreeSlot
           e == [in_use |-> TRUE, name |-> creating.name, sector |-> s]
<1>0. /\ creating # Null /\ DirAdds(creating.name) /\ dir' = [dir EXCEPT ![k] = e]
      /\ UNCHANGED open_inodes
  BY Zenon DEF LinksFile, memVars
<1>1. s \in Sector /\ s \notin Live /\ creating \in Creation
  BY <1>0, CreatingNotLive, Zenon
<1>2. creating.name \in Name \cup {BadName} /\ creating.size \in Sizes
  BY <1>1 DEF Creation
<1>3. creating.name \in Name
  BY <1>0, <1>2, Zenon DEF DirAdds
<1>4. k \in 1 .. DirSlots /\ ~dir[k].in_use
  BY <1>0, FreeSlotFree, Zenon DEF FileSysOK, DirAdds
<1>5. e.in_use /\ e.name = creating.name /\ e.sector = s
  OBVIOUS
<1> HIDE DEF e, k, s
<1>6. dir'[k] = e /\ \A i \in 1 .. DirSlots : i # k => dir'[i] = dir[i]
  <2>1. dir \in [1 .. DirSlots -> Entry]
    BY Zenon DEF FileSysOK, TypeOK
  <2> QED
    BY <1>0, <1>4, <2>1, Zenon
<1>7. \A z : z \in Linked' <=> z \in Linked \/ z = s
  <2>1. \A z : z \in Linked <=> \E i \in 1 .. DirSlots : dir[i].in_use /\ z = dir[i].sector
    BY Zenon DEF Linked
  <2>2. \A z : z \in Linked' <=> \E i \in 1 .. DirSlots : dir'[i].in_use /\ z = dir'[i].sector
    BY Zenon DEF Linked
  <2>3. ASSUME NEW z \in Linked' PROVE z \in Linked \/ z = s
    <3>1. PICK i \in 1 .. DirSlots : dir'[i].in_use /\ z = dir'[i].sector
      BY <2>2, Zenon
    <3> QED
      BY <1>5, <1>6, <2>1, <3>1, Zenon
  <2>4. ASSUME NEW z \in Linked PROVE z \in Linked'
    <3>1. PICK i \in 1 .. DirSlots : dir[i].in_use /\ z = dir[i].sector
      BY <2>1, Zenon
    <3>2. i # k
      BY <1>4, <3>1, Zenon
    <3> QED
      BY <1>6, <2>2, <3>1, <3>2, Zenon
  <2>5. s \in Linked'
    BY <1>4, <1>5, <1>6, <2>2, Zenon
  <2> QED
    BY <2>3, <2>4, <2>5, Zenon
<1>8. Live' = Live \cup {s}
  BY <1>0, <1>7, Zenon DEF Live
<1> QED
  BY <1>1, <1>2, <1>3, <1>4, <1>5, <1>6, <1>8, Zenon DEF s, k

(* The file dir_remove() takes the name of stays a file.                   *)
LEMMA FileUnlinked ==
    ASSUME FileSysOK, NEW name, UnlinksFile(name)
    PROVE  /\ lookup(name) \in 1 .. DirSlots /\ dir[lookup(name)].in_use
           /\ ~dir'[lookup(name)].in_use
           /\ \A i \in 1 .. DirSlots : i # lookup(name) => dir'[i] = dir[i]
           /\ Live' = Live
<1> DEFINE k == lookup(name)
           s == dir_lookup(name)
           e == [dir[k] EXCEPT !.in_use = FALSE]
<1>0. /\ k # 0 /\ dir' = [dir EXCEPT ![k] = e]
      /\ open_inodes' = inode_remove(inode_open(open_inodes, s), s)
  BY Zenon DEF UnlinksFile
<1>1. k \in 1 .. DirSlots /\ dir[k].in_use /\ s \in Linked /\ s \in Sector /\ dir[k].sector = s
  BY <1>0, LookupFinds, Zenon DEF FileSysOK, dir_lookup
<1>2. dir \in [1 .. DirSlots -> Entry] /\ dir[k] \in Entry
  BY <1>1, Zenon DEF FileSysOK, TypeOK
<1>3. ~e.in_use
  BY <1>2, Zenon DEF Entry
<1> HIDE DEF e, k, s
<1>4. dir'[k] = e /\ \A i \in 1 .. DirSlots : i # k => dir'[i] = dir[i]
  BY <1>0, <1>1, <1>2, Zenon
<1>5. PICK r \in Inode : inode_open(open_inodes, s) = [open_inodes EXCEPT ![s] = r]
  BY <1>1, InodeOpened, Zenon
<1>6. open_inodes'[s] # Null /\ \A z \in Sector : z # s => open_inodes'[z] = open_inodes[z]
  <2> DEFINE t == [r EXCEPT !.removed = TRUE]
  <2>1. open_inodes \in [Sector -> Inode \cup {Null}]
    BY Zenon DEF FileSysOK, TypeOK
  <2>2. inode_remove([open_inodes EXCEPT ![s] = r], s) = [open_inodes EXCEPT ![s] = t]
    BY <1>1, <2>1, Zenon DEF inode_remove
  <2>3. t \in Inode
    BY Zenon DEF Inode
  <2>4. t # Null
    BY <2>3, NullAssumption, Zenon
  <2> HIDE DEF t
  <2>5. open_inodes' = [open_inodes EXCEPT ![s] = t]
    BY <1>0, <1>5, <2>2, Zenon
  <2> QED
    BY <1>1, <2>1, <2>4, <2>5, Zenon
<1>7. \A z : z # s => (z \in Linked' <=> z \in Linked)
  <2>1. \A z : z \in Linked <=> \E i \in 1 .. DirSlots : dir[i].in_use /\ z = dir[i].sector
    BY Zenon DEF Linked
  <2>2. \A z : z \in Linked' <=> \E i \in 1 .. DirSlots : dir'[i].in_use /\ z = dir'[i].sector
    BY Zenon DEF Linked
  <2>3. ASSUME NEW z \in Linked' PROVE z \in Linked
    <3>1. PICK i \in 1 .. DirSlots : dir'[i].in_use /\ z = dir'[i].sector
      BY <2>2, Zenon
    <3> QED
      BY <1>3, <1>4, <2>1, <3>1, Zenon
  <2>4. ASSUME NEW z \in Linked, z # s PROVE z \in Linked'
    <3>1. PICK i \in 1 .. DirSlots : dir[i].in_use /\ z = dir[i].sector
      BY <2>1, Zenon
    <3>2. i # k
      BY <1>1, <2>4, <3>1, Zenon
    <3> QED
      BY <1>4, <2>2, <3>1, <3>2, Zenon
  <2> QED
    BY <2>3, <2>4, Zenon
<1>8. \A z : z \in Live' <=> z \in Live
  <2>1. \A z : z \in Live <=> z \in Linked \/ (z \in Sector /\ open_inodes[z] # Null)
    BY Zenon DEF Live
  <2>2. \A z : z \in Live' <=> z \in Linked' \/ (z \in Sector /\ open_inodes'[z] # Null)
    BY Zenon DEF Live
  <2> QED
    BY <1>1, <1>6, <1>7, <2>1, <2>2, Zenon
<1> QED
  BY <1>1, <1>3, <1>4, <1>8, Zenon DEF k

(* What fd_write() makes of the disk.                                      *)
LEMMA FileWritten ==
    ASSUME FileSysOK, DiskOK, FilesOK, NEW f \in OpenFiles, NEW bytes \in Buffers,
           WritesFile(f, bytes)
    PROVE  LET s == files[f].sector
           IN /\ s \in Live /\ s \in Sector /\ Sound(inode_disk[s]) /\ files[f].pos \in Nat
              /\ bytes \in Seq(Int) /\ Live' = Live
              /\ data' = WrittenFrom(data, inode_disk[s], bytes, files[f].pos, 0)
              /\ data' \in [Sector -> Block]
<1> DEFINE s == files[f].sector
<1>1. s \in Live /\ f \in FileId /\ files[f] # Null
  BY OpenFileInode, Zenon DEF OpenFiles
<1>2. s \in Sector /\ Sound(inode_disk[s]) /\ files[f].pos \in Nat /\ data \in [Sector -> Block]
  BY <1>1, LiveSectors, Zenon DEF FileSysOK, DiskOK, InodesOK, FilesOK
<1>3. bytes \in Seq(Int)
  BY FileSysAssumption, Zenon
<1>4. data' = inode_write_at(s, bytes, files[f].pos) /\ UNCHANGED <<dir, open_inodes>>
  BY Zenon DEF WritesFile
<1> HIDE DEF s
<1>5. data' = WrittenFrom(data, inode_disk[s], bytes, files[f].pos, 0)
  BY <1>2, <1>3, <1>4, WriteAt, Zenon
<1>6. data' \in [Sector -> Block]
  BY <1>2, <1>3, <1>5, WrittenType, Zenon
<1> QED
  BY <1>1, <1>2, <1>3, <1>4, <1>5, <1>6, LiveSame, Zenon DEF s

(* Every step keeps what the contents rest on, on the disk ...             *)
LEMMA DiskStep ==
    ASSUME FileSysOK, DiskOK, FilesOK, ContentStep PROVE DiskOK'
<1>0. NamesOK /\ data \in [Sector -> Block] /\ InodesOK /\ CreatedOK
  BY Zenon DEF DiskOK
<1>1. ASSUME LeavesContents PROVE DiskOK'
  <2>1. /\ UNCHANGED <<inode_disk, data, dir>> /\ Live' \subseteq Live
        /\ creating' = creating \/ creating' = Null \/ ~creating'.inode
    BY <1>1, Zenon DEF LeavesContents
  <2>2. NamesOK'
    BY <1>0, <2>1, Zenon DEF NamesOK
  <2>3. InodesOK'
    BY <1>0, <2>1, Zenon DEF InodesOK, Sound
  <2>4. CreatedOK'
    BY <1>0, <2>1, Zenon DEF CreatedOK, InodeExtent, Sound
  <2> QED
    BY <1>0, <2>1, <2>2, <2>3, <2>4, Zenon DEF DiskOK
<1>2. ASSUME CreatesInode PROVE DiskOK'
  <2> DEFINE s == creating.sector
             n == bytes_to_sectors(creating.size)
             start == free_map_allocate(free_map, n)
  <2>1. /\ s \in Sector /\ s \notin Live /\ Live' = Live
        /\ Extent(start, n) \cap free_map = {} /\ Extent(start, n) \subseteq Sector
        /\ inode_disk'[s].start = start /\ inode_disk'[s].length = creating.size
        /\ Sound(inode_disk'[s])
        /\ \A z \in Sector : z # s => inode_disk'[z] = inode_disk[z]
        /\ creating'.sector = s /\ creating'.size = creating.size
    BY <1>2, CreatedInode, Zenon
  <2>2. data' = [z \in Sector |-> IF z \in Extent(start, n) THEN ZeroSector ELSE data[z]]
        /\ dir' = dir
    BY <1>2, Zenon DEF CreatesInode, Inodes
  <2>3. ZeroSector \in Block
    BY DEF ZeroSector, Block
  <2>4. Live \subseteq Sector
    BY LiveSectors, Zenon DEF FileSysOK
  <2>5. inode_disk'[s].length = creating'.size
    BY <2>1, Zenon
  <2>6. n = bytes_to_sectors(inode_disk'[s].length)
    BY <2>1, Zenon
  <2> HIDE DEF s, start, n
  <2>7. NamesOK'
    BY <1>0, <2>2, Zenon DEF NamesOK
  <2>8. data' \in [Sector -> Block]
    BY <1>0, <2>2, <2>3, Zenon
  <2>9. InodesOK'
    BY <1>0, <2>1, <2>4, Zenon DEF InodesOK, Sound
  <2>10. CreatedOK'
    <3>1. \A z \in Extent(start, n) : data'[z] = ZeroSector
      BY <2>1, <2>2, Zenon
    <3>2. \A z \in Extent(inode_disk'[s].start, bytes_to_sectors(inode_disk'[s].length)) :
             data'[z] = ZeroSector
      BY <2>1, <2>6, <3>1, Zenon
    <3> QED
      BY <2>1, <2>5, <3>2, Zenon DEF CreatedOK, InodeExtent, Sound
  <2> QED
    BY <2>7, <2>8, <2>9, <2>10, Zenon DEF DiskOK
<1>3. ASSUME LinksFile PROVE DiskOK'
  <2> DEFINE s == creating.sector
             k == FreeSlot
  <2>1. /\ Live' = Live \cup {s} /\ k \in 1 .. DirSlots /\ ~dir[k].in_use
        /\ dir'[k].name = creating.name
        /\ \A i \in 1 .. DirSlots : i # k => dir'[i] = dir[i]
    BY <1>3, FileLinked, Zenon
  <2>2. /\ UNCHANGED <<inode_disk, data>> /\ creating' = Null /\ creating # Null /\ creating.inode
        /\ lookup(creating.name) = 0
    BY <1>3, Zenon DEF LinksFile, DirAdds
  <2>3. Sound(inode_disk[s])
    BY <1>0, <2>2, Zenon DEF CreatedOK
  <2>4. \A i \in 1 .. DirSlots : ~(dir[i].in_use /\ dir[i].name = creating.name)
    BY <2>2, LookupMisses, Zenon
  <2> HIDE DEF s, k
  <2>5. NamesOK'
    <3> SUFFICES ASSUME NEW i \in 1 .. DirSlots, NEW j \in 1 .. DirSlots,
                        dir'[i].in_use, dir'[j].in_use, dir'[i].name = dir'[j].name
                 PROVE  i = j
      BY Zenon DEF NamesOK
    <3>1. CASE i # k /\ j # k
      BY <1>0, <2>1, <3>1, Zenon DEF NamesOK
    <3>2. CASE i = k /\ j # k
      BY <2>1, <2>4, <3>2, Zenon
    <3>3. CASE i # k /\ j = k
      BY <2>1, <2>4, <3>3, Zenon
    <3> QED
      BY <3>1, <3>2, <3>3, Zenon
  <2>6. InodesOK'
    BY <1>0, <2>1, <2>2, <2>3, Zenon DEF InodesOK, Sound
  <2>7. CreatedOK'
    BY <2>2, Zenon DEF CreatedOK
  <2> QED
    BY <1>0, <2>2, <2>5, <2>6, <2>7, Zenon DEF DiskOK
<1>4. ASSUME NEW name \in Name, UnlinksFile(name) PROVE DiskOK'
  <2> DEFINE k == lookup(name)
  <2>1. /\ ~dir'[k].in_use /\ \A i \in 1 .. DirSlots : i # k => dir'[i] = dir[i]
        /\ Live' = Live
    BY <1>4, FileUnlinked, Zenon
  <2>2. UNCHANGED <<inode_disk, data>> /\ creating' = Null
    BY <1>4, Zenon DEF UnlinksFile
  <2> HIDE DEF k
  <2>3. NamesOK'
    BY <1>0, <2>1, Zenon DEF NamesOK
  <2>4. InodesOK'
    BY <1>0, <2>1, <2>2, Zenon DEF InodesOK, Sound
  <2>5. CreatedOK'
    BY <2>2, Zenon DEF CreatedOK
  <2> QED
    BY <1>0, <2>2, <2>3, <2>4, <2>5, Zenon DEF DiskOK
<1>5. ASSUME NEW f \in OpenFiles, NEW bytes \in Buffers, WritesFile(f, bytes) PROVE DiskOK'
  <2>1. data' \in [Sector -> Block] /\ Live' = Live
    BY <1>5, FileWritten, Zenon
  <2>2. UNCHANGED <<inode_disk, dir>> /\ creating' = Null
    BY <1>5, Zenon DEF WritesFile
  <2>3. NamesOK' /\ CreatedOK'
    BY <1>0, <2>2, Zenon DEF NamesOK, CreatedOK
  <2>4. InodesOK'
    BY <1>0, <2>1, <2>2, Zenon DEF InodesOK, Sound
  <2> QED
    BY <2>1, <2>3, <2>4, Zenon DEF DiskOK
<1> QED
  BY <1>1, <1>2, <1>3, <1>4, <1>5, Zenon DEF ContentStep

(* The executable of a process is open.                                    *)
ExecutablesOpen ==
    \A p \in Proc : executable[p] # Null => executable[p] \in FileId /\ files[executable[p]] # Null

(* A process that runs has its file open.                                  *)
LEMMA ExecutableOpen == FileSysOK => ExecutablesOpen
<1> SUFFICES ASSUME FileSysOK, NEW p \in Proc, executable[p] # Null
             PROVE  executable[p] \in OpenFiles
  BY Zenon DEF ExecutablesOpen, OpenFiles
<1> DEFINE k == CAPACITY + 1
<1>1. k \in 0 .. CAPACITY + 1 /\ Target[p][k] = executable[p]
  BY TargetMeans, HandleCases, Zenon
<1> QED
  BY <1>1, HandleUnique, Zenon

(* ... and in memory: files keep their sort, positions move forward or to  *)
(* where they are set, and new executables deny writes.                    *)
FilesMove ==
    /\ \A f \in FileId : files'[f] # Null =>
          /\ files'[f].pos \in Nat
          /\ files[f] # Null => files'[f].deny_write = files[f].deny_write
    /\ \A p \in Proc : executable'[p] # Null =>
          executable'[p] = executable[p] \/ files'[executable'[p]].deny_write

(* Such steps keep positions natural and executables denying writes.       *)
LEMMA FilesNext ==
    ASSUME FileSysOK, FileSysOK', FilesOK, FilesMove PROVE FilesOK'
<1>1. ExecutablesOpen
  BY ExecutableOpen, Zenon
<1>2. FileSysOK' => ExecutablesOpen'
  BY ExecutableOpen, PTL
<1>3. \A p \in Proc : executable'[p] # Null =>
                         executable'[p] \in FileId /\ files'[executable'[p]] # Null
  BY <1>2, Zenon DEF ExecutablesOpen
<1>4. ASSUME NEW p \in Proc, executable'[p] # Null PROVE files'[executable'[p]].deny_write
  <2>1. CASE executable'[p] = executable[p]
    <3>1. files[executable[p]].deny_write /\ files[executable[p]] # Null
      BY <1>1, <1>4, <2>1, Zenon DEF FilesOK, ExecutablesOpen
    <3>2. files'[executable[p]].deny_write = files[executable[p]].deny_write
      BY <1>3, <1>4, <2>1, <3>1, Zenon DEF FilesMove
    <3> QED
      BY <2>1, <3>1, <3>2, Zenon
  <2>2. CASE executable'[p] # executable[p]
    BY <1>4, <2>2, Zenon DEF FilesMove
  <2> QED
    BY <2>1, <2>2, Zenon
<1> QED
  BY <1>4, Zenon DEF FilesOK, FilesMove

(* A step that leaves files and executables, or closes some.               *)
LEMMA FilesLess ==
    ASSUME FilesOK, \A f \in FileId : files'[f] = files[f] \/ files'[f] = Null,
           \A p \in Proc : executable'[p] = executable[p] \/ executable'[p] = Null
    PROVE  FilesMove
  BY Zenon DEF FilesOK, FilesMove

(* A step that opens file f.                                               *)
LEMMA FilesMore ==
    ASSUME FileSysOK, FilesOK, NEW f \in FileId, files[f] = Null, NEW s, NEW deny,
           files' = [files EXCEPT ![f] = [sector |-> s, pos |-> 0, deny_write |-> deny]],
           \A p \in Proc : executable'[p] = executable[p] \/ (executable'[p] = f /\ deny)
    PROVE  FilesMove
<1> DEFINE file == [sector |-> s, pos |-> 0, deny_write |-> deny]
<1>1. file.pos \in Nat /\ file.deny_write = deny
  OBVIOUS
<1>2. files' = [files EXCEPT ![f] = file] /\ files \in [FileId -> File \cup {Null}]
  BY Zenon DEF FileSysOK, TypeOK
<1> HIDE DEF file
<1>3. files'[f] = file /\ \A g \in FileId : g # f => files'[g] = files[g]
  BY <1>2, Zenon
<1>4. ASSUME NEW g \in FileId, files'[g] # Null
      PROVE  /\ files'[g].pos \in Nat
             /\ files[g] # Null => files'[g].deny_write = files[g].deny_write
  <2>1. CASE g = f
    BY <1>1, <1>3, <2>1, Zenon
  <2>2. CASE g # f
    BY <1>3, <1>4, <2>2, Zenon DEF FilesOK
  <2> QED
    BY <2>1, <2>2, Zenon
<1>5. ASSUME NEW p \in Proc, executable'[p] # Null
      PROVE  executable'[p] = executable[p] \/ files'[executable'[p]].deny_write
  BY <1>1, <1>3, Zenon
<1> QED
  BY <1>4, <1>5, Zenon DEF FilesMove

(* A step that moves the position of file f.                               *)
LEMMA FilesMoved ==
    ASSUME FileSysOK, FilesOK, NEW f \in OpenFiles, NEW n \in Nat,
           files' = [files EXCEPT ![f] = [files[f] EXCEPT !.pos = n]], UNCHANGED executable
    PROVE  FilesMove
<1> DEFINE file == [files[f] EXCEPT !.pos = n]
<1>1. files[f] \in File /\ f \in FileId
  BY OpenFileInode, Zenon DEF OpenFiles
<1>2. file.pos = n /\ file.deny_write = files[f].deny_write
  BY <1>1 DEF File
<1>3. files' = [files EXCEPT ![f] = file] /\ files \in [FileId -> File \cup {Null}]
  BY Zenon DEF FileSysOK, TypeOK
<1> HIDE DEF file
<1>4. files'[f] = file /\ \A g \in FileId : g # f => files'[g] = files[g]
  BY <1>1, <1>3, Zenon
<1>5. ASSUME NEW g \in FileId, files'[g] # Null
      PROVE  /\ files'[g].pos \in Nat
             /\ files[g] # Null => files'[g].deny_write = files[g].deny_write
  <2>1. CASE g = f
    BY <1>2, <1>4, <2>1, Zenon
  <2>2. CASE g # f
    BY <1>4, <1>5, <2>2, Zenon DEF FilesOK
  <2> QED
    BY <2>1, <2>2, Zenon
<1> QED
  BY <1>5, Zenon DEF FilesMove

(* A position moves forward by the bytes transferred.                      *)
LEMMA Forward ==
    ASSUME FileSysOK, FilesOK, NEW f \in OpenFiles, NEW size \in Int
    PROVE  files[f].pos + bytes_transferred(files[f].sector, size, files[f].pos) \in Nat
<1> DEFINE pos == files[f].pos
           len == inode_disk[files[f].sector].length
<1>1. inode_disk[files[f].sector] \in InodeDisk /\ pos \in Nat
  BY OpenFileInode, Zenon DEF OpenFiles, FilesOK
<1>2. len \in Int
  BY <1>1 DEF InodeDisk
<1>3. bytes_transferred(files[f].sector, size, pos)
      = IF size > 0 /\ pos < len THEN Smaller(size, len - pos) ELSE 0
  BY Zenon DEF bytes_transferred
<1> HIDE DEF pos, len
<1>4. (IF size > 0 /\ pos < len THEN Smaller(size, len - pos) ELSE 0) \in Nat
  BY <1>1, <1>2 DEF Smaller
<1>5. pos + (IF size > 0 /\ pos < len THEN Smaller(size, len - pos) ELSE 0) \in Nat
  BY <1>1, <1>4
<1> QED
  BY <1>3, <1>5, Zenon DEF pos

(* Every step moves the files in this way.                                 *)
LEMMA FilesStep ==
    ASSUME FileSysOK, FilesOK, [Next]_vars PROVE FilesMove
<1>1. ASSUME UNCHANGED <<files, executable>> PROVE FilesMove
  BY <1>1, FilesLess, Zenon
<1>2. ASSUME NEW F, file_close(F), \A p \in Proc : executable'[p] = executable[p] \/ executable'[p] = Null
      PROVE  FilesMove
  <2>1. \A f \in FileId : files'[f] = files[f] \/ files'[f] = Null
    BY <1>2, Zenon DEF file_close
  <2> QED
    BY <1>2, <2>1, FilesLess, Zenon
<1>3. CASE filesys_init
  <2>1. /\ \A f \in FileId : files'[f] = Null
        /\ \A p \in Proc : executable'[p] = Null
    BY <1>3, Zenon DEF filesys_init
  <2> QED
    BY <2>1, FilesLess, Zenon
<1>4. CASE UNCHANGED vars
  BY <1>1, <1>4, Zenon DEF vars, memVars
<1>5. ASSUME NEW p \in Proc, NEW name, NEW size, fd_create(p, name, size) PROVE FilesMove
  BY <1>1, <1>5, Zenon DEF fd_create, filesys_create, memVars
<1>6. ASSUME NEW p \in Proc, inode_create(p) \/ dir_add(p) \/ inode_close(p) PROVE FilesMove
  BY <1>1, <1>6, Zenon DEF inode_create, dir_add, inode_close, Panic, memVars
<1>7. ASSUME NEW p \in Proc, NEW name, fd_remove(p, name) PROVE FilesMove
  BY <1>1, <1>7, Zenon DEF fd_remove
<1>8. ASSUME NEW p \in Proc, NEW name, fd_open(p, name) PROVE FilesMove
  <2> DEFINE f == Min(FreeFiles)
             s == dir_lookup(name)
  <2>1. /\ FreeFiles # {} /\ UNCHANGED executable
        /\ files' = [files EXCEPT ![f] = [sector |-> s, pos |-> 0, deny_write |-> FALSE]]
    BY <1>8, Zenon DEF fd_open, filesys_open, file_open
  <2>2. f \in FileId /\ files[f] = Null
    BY <2>1, FreeFileFree, Zenon
  <2> HIDE DEF f, s
  <2> QED
    BY <2>1, <2>2, FilesMore, Zenon
<1>9. ASSUME NEW p \in Proc, NEW name, open_process_executable(p, name) PROVE FilesMove
  <2> DEFINE f == Min(FreeFiles)
             s == dir_lookup(name)
  <2>1. /\ FreeFiles # {} /\ executable' = [executable EXCEPT ![p] = f]
        /\ files' = [files EXCEPT ![f] = [sector |-> s, pos |-> 0, deny_write |-> TRUE]]
    BY <1>9, ExecutableFile, Zenon DEF open_process_executable
  <2>2. f \in FileId /\ files[f] = Null
    BY <2>1, FreeFileFree, Zenon
  <2> HIDE DEF f, s
  <2>3. \A q \in Proc : executable'[q] = executable[q] \/ (executable'[q] = f /\ TRUE)
    BY <2>1, Zenon DEF FileSysOK, TypeOK
  <2> QED
    BY <2>1, <2>2, <2>3, FilesMore, Zenon
<1>10. ASSUME NEW p \in Proc, NEW fd, fd_close(p, fd) PROVE FilesMove
  BY <1>2, <1>10, Zenon DEF fd_close
<1>11. ASSUME NEW p \in Proc, close_all_file_descriptors(p) PROVE FilesMove
  BY <1>2, <1>11, Zenon DEF close_all_file_descriptors
<1>12. ASSUME NEW p \in Proc, close_process_executable(p) PROVE FilesMove
  <2>1. \A q \in Proc : executable'[q] = executable[q] \/ executable'[q] = Null
    BY <1>12, Zenon DEF close_process_executable, FileSysOK, TypeOK
  <2> QED
    BY <1>2, <1>12, <2>1, Zenon DEF close_process_executable
<1>13. ASSUME NEW p \in Proc, fd_read_stdin(p) \/ fd_read_stdin_return(p) PROVE FilesMove
  BY <1>1, <1>13, Zenon DEF fd_read_stdin, fd_read_stdin_return, memVars
<1>14. ASSUME NEW p \in Proc, NEW fd, NEW size \in ReadSizes, fd_read(p, fd, size) PROVE FilesMove
  <2> DEFINE k == get_file_descriptor(p, fd)
             f == descriptors[p][k].file
             n == files[f].pos + bytes_transferred(files[f].sector, size, files[f].pos)
  <2>1. /\ k <= CAPACITY /\ UNCHANGED executable
        /\ files' = [files EXCEPT ![f] = [files[f] EXCEPT !.pos = n]]
    BY <1>14, Zenon DEF fd_read, file_read
  <2>2. f \in OpenFiles
    BY <2>1, DescriptorInUse, DescriptorFile, Zenon
  <2>3. size \in Int
    BY FileSysAssumption
  <2>4. n \in Nat
    BY <2>2, <2>3, Forward, Zenon
  <2> HIDE DEF f, n
  <2> QED
    BY <2>1, <2>2, <2>4, FilesMoved, Zenon
<1>15. ASSUME NEW p \in Proc, NEW fd, NEW bytes \in Buffers, fd_write(p, fd, bytes) PROVE FilesMove
  <2> DEFINE k == get_file_descriptor(p, fd)
             f == descriptors[p][k].file
             n == files[f].pos + bytes_transferred(files[f].sector, Len(bytes), files[f].pos)
  <2>1. /\ k <= CAPACITY /\ UNCHANGED executable
        /\ files' = [files EXCEPT ![f] = [files[f] EXCEPT !.pos = n]]
    BY <1>15, Zenon DEF fd_write, file_write
  <2>2. f \in OpenFiles
    BY <2>1, DescriptorInUse, DescriptorFile, Zenon
  <2>3. Len(bytes) \in Int
    BY FileSysAssumption
  <2>4. n \in Nat
    BY <2>2, <2>3, Forward, Zenon
  <2> HIDE DEF f, n
  <2> QED
    BY <2>1, <2>2, <2>4, FilesMoved, Zenon
<1>16. ASSUME NEW p \in Proc, NEW fd, NEW position \in Positions, fd_seek(p, fd, position)
       PROVE  FilesMove
  <2> DEFINE k == get_file_descriptor(p, fd)
             f == descriptors[p][k].file
  <2>1. CASE Panic
    BY <1>1, <2>1, Zenon DEF Panic, memVars
  <2>2. CASE ~Panic
    <3>1. /\ k <= CAPACITY /\ UNCHANGED executable /\ ~(position < 0)
          /\ files' = [files EXCEPT ![f] = [files[f] EXCEPT !.pos = position]]
      BY <1>16, <2>2, Zenon DEF fd_seek, file_seek
    <3>2. f \in OpenFiles
      BY <3>1, DescriptorInUse, DescriptorFile, Zenon
    <3>3. position \in Nat
      BY <3>1, FileSysAssumption
    <3> HIDE DEF f
    <3> QED
      BY <3>1, <3>2, <3>3, FilesMoved, Zenon
  <2> QED
    BY <2>1, <2>2, Zenon
<1> QED
  BY <1>3, <1>4, <1>5, <1>6, <1>7, <1>8, <1>9, <1>10, <1>11, <1>12, <1>13, <1>14, <1>15, <1>16,
     Zenon DEF Next

(* The formatted file system.                                              *)
LEMMA ContentsInit == Init => ContentsOK
<1> SUFFICES ASSUME Init PROVE ContentsOK
  OBVIOUS
<1>1. FileSysOK
  BY InitOK, Zenon
<1>2. FilesOK
  BY Zenon DEF Init, FilesOK
<1> DEFINE inode == [start |-> 3, length |-> BLOCK_SECTOR_SIZE]
<1>3. Live = {2} /\ inode_disk[2] = inode
  <2>1. 2 \in Sector /\ 1 \in 1 .. DirSlots
    BY FileSysAssumption DEF Sector
  <2>2. \A i \in 1 .. DirSlots : dir[i].in_use <=> i = 1
    BY DEF Init, NoEntry
  <2>3. dir[1].sector = 2
    BY <2>1 DEF Init
  <2>4. Linked = {2}
    BY <2>1, <2>2, <2>3, Zenon DEF Linked
  <2>5. Live = {2}
    BY <2>4, Zenon DEF Live, Init
  <2> HIDE DEF inode
  <2> QED
    BY <2>1, <2>5, Zenon DEF Init, inode
<1>4. Sound(inode)
  <2>1. inode.start = 3 /\ inode.length = BLOCK_SECTOR_SIZE
    OBVIOUS
  <2>2. bytes_to_sectors(BLOCK_SECTOR_SIZE) = 1
    <3> DEFINE B == BLOCK_SECTOR_SIZE
               x == B + B - 1
    <3>0. B \in Nat /\ B > 0
      BY FileSysAssumption
    <3>1. x \in Nat /\ 1 \in Int /\ B - 1 \in 0 .. B - 1 /\ x = B * 1 + (B - 1)
      BY <3>0
    <3>2. x \div B = 1
      BY <3>1, DivUnique, Zenon
    <3> QED
      BY <3>2, Zenon DEF bytes_to_sectors
  <2> HIDE DEF inode
  <2>3. 3 + 1 <= SectorCount /\ 3 \in Nat /\ BLOCK_SECTOR_SIZE \in Nat
    BY FileSysAssumption
  <2> QED
    BY <2>1, <2>2, <2>3, Zenon DEF Sound
<1>5. InodesOK
  BY <1>3, <1>4, Zenon DEF InodesOK
<1>6. NamesOK
  <2>1. \A i \in 1 .. DirSlots : dir[i].in_use => i = 1
    BY DEF Init, NoEntry
  <2> QED
    BY <2>1, Zenon DEF NamesOK
<1>7. data \in [Sector -> Block]
  <2>1. ZeroSector \in Block
    BY DEF ZeroSector, Block
  <2> QED
    BY <2>1, Zenon DEF Init
<1>8. CreatedOK
  BY Zenon DEF CreatedOK, Init
<1> QED
  BY <1>1, <1>2, <1>5, <1>6, <1>7, <1>8, Zenon DEF ContentsOK, DiskOK

(* Every step keeps the invariant.                                         *)
LEMMA ContentsStep ==
    ASSUME ContentsOK, [Next]_vars PROVE ContentsOK'
<1>1. FileSysOK /\ DiskOK /\ FilesOK
  BY Zenon DEF ContentsOK
<1>2. FileSysOK'
  BY <1>1, FileSysStep
<1>3. DiskOK'
  BY <1>1, StepKinds, DiskStep
<1>4. FilesOK'
  BY <1>1, <1>2, FilesStep, FilesNext
<1> QED
  BY <1>2, <1>3, <1>4, Zenon DEF ContentsOK

(* The invariant holds in every reachable state.                           *)
LEMMA ContentsInvariant == Spec => []ContentsOK
<1>1. ContentsOK /\ [Next]_vars => ContentsOK'
  BY ContentsStep
<1> QED
  BY <1>1, ContentsInit, PTL DEF Spec
-----------------------------------------------------------------------------
(* A file that is open with writes denied is not the one a write changes.  *)
LEMMA DeniedNotWritten ==
    ASSUME FileSysOK, NEW g \in FileId, files[g] # Null, files[g].deny_write,
           NEW s \in Sector, open_inodes[s].deny_write_cnt = 0
    PROVE  files[g].sector # s
<1> SUFFICES ASSUME files[g].sector = s PROVE FALSE
  BY Zenon
<1>1. g \in Openers[s] /\ g \in Deniers[s]
  BY OpenersMeans, Zenon
<1>2. open_inodes[s] # Null
  BY <1>1, Zenon DEF FileSysOK, CountsOK
<1>3. Cardinality(Deniers[s]) = 0
  BY <1>2, Zenon DEF FileSysOK, CountsOK
<1>4. Deniers[s] = {}
  BY <1>3, OpenersFinite, FS_EmptySet, Zenon
<1> QED
  BY <1>1, <1>4, Zenon

(* Steps leave the file of a process' executable alone.                    *)
LEMMA ExecutableStep ==
    ASSUME ContentsOK, ContentStep, NEW p \in Proc, executable[p] # Null
    PROVE  LET s == files[executable[p]].sector
           IN inode_disk'[s] = inode_disk[s] /\ \A z \in InodeExtent(s) : data'[z] = data[z]
<1> DEFINE g == executable[p]
           s == files[g].sector
<1>0. FileSysOK /\ DiskOK /\ FilesOK
  BY Zenon DEF ContentsOK
<1>1. g \in FileId /\ files[g] # Null /\ files[g].deny_write
  BY <1>0, ExecutableOpen, Zenon DEF ExecutablesOpen, FilesOK
<1>2. s \in Live /\ s \in Sector /\ Sound(inode_disk[s])
  BY <1>0, <1>1, OpenFileInode, LiveSectors, Zenon DEF OpenFiles, FileSysOK, DiskOK, InodesOK
<1> HIDE DEF g, s
<1>3. ASSUME UNCHANGED <<inode_disk, data>>
      PROVE  inode_disk'[s] = inode_disk[s] /\ \A z \in InodeExtent(s) : data'[z] = data[z]
  BY <1>3, Zenon
<1>4. \A z \in InodeExtent(s) : z \in Sector
  <2> DEFINE st == inode_disk[s].start
             n == bytes_to_sectors(inode_disk[s].length)
  <2>1. st \in Nat /\ inode_disk[s].length \in Nat /\ st + n <= SectorCount
    BY <1>2, Zenon DEF Sound
  <2>2. n \in Nat
    BY <2>1, InExtent, Zenon
  <2>3. InodeExtent(s) = Extent(st, n)
    BY Zenon DEF InodeExtent
  <2> HIDE DEF st, n
  <2> QED
    BY <2>1, <2>2, <2>3, FileSysAssumption DEF Extent, Sector
<1>5. ASSUME CreatesInode
      PROVE  inode_disk'[s] = inode_disk[s] /\ \A z \in InodeExtent(s) : data'[z] = data[z]
  <2> DEFINE n == bytes_to_sectors(creating.size)
             start == free_map_allocate(free_map, n)
  <2>1. /\ creating.sector \notin Live /\ Extent(start, n) \cap free_map = {}
        /\ \A z \in Sector : z # creating.sector => inode_disk'[z] = inode_disk[z]
    BY <1>0, <1>5, CreatedInode, Zenon
  <2>2. data' = [z \in Sector |-> IF z \in Extent(start, n) THEN ZeroSector ELSE data[z]]
    BY <1>5, Zenon DEF CreatesInode, Inodes
  <2> HIDE DEF start, n
  <2>3. \A z \in InodeExtent(s) : z \in free_map
    BY <1>0, <1>2, ExtentOwned, Zenon
  <2> QED
    BY <1>2, <1>4, <2>1, <2>2, <2>3, Zenon
<1>6. ASSUME NEW f \in OpenFiles, NEW bytes \in Buffers, WritesFile(f, bytes)
      PROVE  inode_disk'[s] = inode_disk[s] /\ \A z \in InodeExtent(s) : data'[z] = data[z]
  <2> DEFINE t == files[f].sector
  <2>1. /\ t \in Live /\ t \in Sector /\ Sound(inode_disk[t]) /\ files[f].pos \in Nat
        /\ bytes \in Seq(Int)
        /\ data' = WrittenFrom(data, inode_disk[t], bytes, files[f].pos, 0)
    BY <1>0, <1>6, FileWritten, Zenon
  <2>2. open_inodes[t].deny_write_cnt = 0 /\ inode_disk' = inode_disk
    BY <1>6, Zenon DEF WritesFile
  <2>3. s # t
    BY <1>0, <1>1, <2>1, <2>2, DeniedNotWritten, Zenon DEF s
  <2> HIDE DEF t
  <2>4. \A z \in InodeExtent(s) : z \notin InodeExtent(t)
    BY <1>0, <1>2, <2>1, <2>3, ExtentOwned, Zenon
  <2>5. ASSUME NEW z \in InodeExtent(s) PROVE data'[z] = data[z]
    <3>1. z \in Sector /\ z \notin Extent(inode_disk[t].start, bytes_to_sectors(inode_disk[t].length))
      BY <1>4, <2>4, Zenon DEF InodeExtent
    <3>2. data \in [Sector -> Block]
      BY <1>0, Zenon DEF DiskOK
    <3> QED
      BY <2>1, <3>1, <3>2, WrittenOutside, Zenon
  <2> QED
    BY <2>2, <2>5, Zenon
<1>7. LeavesContents \/ LinksFile \/ (\E name \in Name : UnlinksFile(name))
      => UNCHANGED <<inode_disk, data>>
  BY Zenon DEF LeavesContents, LinksFile, UnlinksFile
<1>8. inode_disk'[s] = inode_disk[s] /\ \A z \in InodeExtent(s) : data'[z] = data[z]
  BY <1>3, <1>5, <1>6, <1>7, Zenon DEF ContentStep
<1> QED
  BY <1>8, Zenon DEF s, g

(* The file a process executes keeps its inode and its bytes, whatever any *)
(* process creates, removes, opens or writes meanwhile: writes to it are   *)
(* refused, and no other file shares its sectors (ExecutablesUnchanged;    *)
(* file_deny_write(), inode_write_at()).                                   *)
THEOREM ExecutablesStayUnchanged == Spec => ExecutablesUnchanged
<1> DEFINE A == \A p \in Proc : executable[p] # Null /\ executable'[p] = executable[p] =>
                   LET s == files[executable[p]].sector
                   IN /\ inode_disk'[s] = inode_disk[s]
                      /\ \A z \in InodeExtent(s) : data'[z] = data[z]
<1>1. ContentsOK /\ [Next]_vars => A
  <2> SUFFICES ASSUME ContentsOK, [Next]_vars PROVE A
    OBVIOUS
  <2>1. ContentStep
    BY StepKinds, Zenon DEF ContentsOK
  <2> QED
    BY <2>1, ExecutableStep, Zenon
<1>2. ContentsOK /\ [Next]_vars => [A]_vars
  BY <1>1, Zenon
<1>3. ExecutablesUnchanged <=> [][A]_vars
  BY DEF ExecutablesUnchanged
<1> HIDE DEF A
<1> QED
  BY <1>2, <1>3, ContentsInvariant, PTL DEF Spec
-----------------------------------------------------------------------------
(* The names and the contents FlatFiles is about.                          *)
NamesNow == [n \in Name |-> IF lookup(n) = 0 THEN Null ELSE dir[lookup(n)].sector]
ContentNow == [s \in Sector |-> IF s \in Live THEN Content(s) ELSE Null]

(* The contents, byte by byte; the names, entry by entry.                  *)
ContentBytes == [s \in Sector |-> IF s \in Live THEN Bytes(data, inode_disk[s]) ELSE Null]
NamesFound ==
    \A n \in Name : \A i \in 1 .. DirSlots :
        dir[i].in_use /\ dir[i].name = n => NamesNow[n] = dir[i].sector
NamesLead ==
    \A n \in Name : \/ NamesNow[n] = Null
                    \/ \E i \in 1 .. DirSlots :
                          dir[i].in_use /\ dir[i].name = n /\ NamesNow[n] = dir[i].sector
NamesMiss ==
    \A n \in Name : (\A i \in 1 .. DirSlots : ~(dir[i].in_use /\ dir[i].name = n))
                    => NamesNow[n] = Null
NamesRight == NamesFound /\ NamesLead /\ NamesMiss

(* Reading a file gives its bytes.                                         *)
LEMMA ContentIs == ContentsOK => ContentNow = ContentBytes
<1> SUFFICES ASSUME ContentsOK PROVE ContentNow = ContentBytes
  OBVIOUS
<1>1. data \in [Sector -> Block] /\ \A s \in Live : Sound(inode_disk[s])
  BY Zenon DEF ContentsOK, DiskOK, InodesOK
<1>2. \A s \in Sector : s \in Live => Content(s) = Bytes(data, inode_disk[s])
  BY <1>1, ReadAll, Zenon DEF ContentsRead
<1> QED
  BY <1>2, Zenon DEF ContentNow, ContentBytes

(* The bytes in the next state.                                            *)
LEMMA ContentBytesNext ==
    ContentBytes' = [s \in Sector |-> IF s \in Live' THEN Bytes(data', inode_disk'[s]) ELSE Null]
  BY Zenon DEF ContentBytes, Bytes, ByteAt

(* A name leads to the inode of its only entry.                            *)
LEMMA NamesAre == ContentsOK => NamesRight
<1> SUFFICES ASSUME ContentsOK, NEW n \in Name
             PROVE  /\ \A i \in 1 .. DirSlots :
                          dir[i].in_use /\ dir[i].name = n => NamesNow[n] = dir[i].sector
                    /\ \/ NamesNow[n] = Null
                       \/ \E i \in 1 .. DirSlots :
                             dir[i].in_use /\ dir[i].name = n /\ NamesNow[n] = dir[i].sector
                    /\ (\A i \in 1 .. DirSlots : ~(dir[i].in_use /\ dir[i].name = n))
                       => NamesNow[n] = Null
  BY Zenon DEF NamesRight, NamesFound, NamesLead, NamesMiss
<1>0. NamesOK /\ TypeOK
  BY Zenon DEF ContentsOK, DiskOK, FileSysOK
<1>1. CASE lookup(n) = 0
  <2>1. NamesNow[n] = Null
    BY <1>1, Zenon DEF NamesNow
  <2> QED
    BY <1>1, <2>1, LookupMisses, Zenon
<1>2. CASE lookup(n) # 0
  <2> DEFINE k == lookup(n)
  <2>1. NamesNow[n] = dir[k].sector
    BY <1>2, Zenon DEF NamesNow
  <2>2. k \in 1 .. DirSlots /\ dir[k].in_use /\ dir[k].name = n
    BY <1>0, <1>2, LookupFinds, Zenon
  <2>3. \A i \in 1 .. DirSlots : dir[i].in_use /\ dir[i].name = n => i = k
    BY <1>0, <2>2, Zenon DEF NamesOK
  <2> HIDE DEF k
  <2> QED
    BY <2>1, <2>2, <2>3, Zenon
<1> QED
  BY <1>1, <1>2, Zenon

(* Names are Null or lead to a sector.                                     *)
LEMMA NamesType ==
    ASSUME ContentsOK
    PROVE  /\ NamesNow = [n \in Name |-> NamesNow[n]]
           /\ \A n \in Name : NamesNow[n] = Null \/ (NamesNow[n] \in Linked /\ NamesNow[n] \in Sector)
<1>1. NamesRight
  BY NamesAre, Zenon
<1>2. \A i \in 1 .. DirSlots : dir[i].in_use => dir[i].sector \in Linked
  BY Zenon DEF Linked
<1>3. Linked \subseteq Sector
  BY LiveSectors, Zenon DEF ContentsOK, FileSysOK
<1>4. NamesNow = [n \in Name |-> NamesNow[n]]
  BY Zenon DEF NamesNow
<1> QED
  BY <1>1, <1>2, <1>3, <1>4, Zenon DEF NamesRight, NamesFound, NamesLead, NamesMiss

(* The contents of a file are not Null.                                    *)
LEMMA ContentType ==
    ASSUME ContentsOK, NEW s \in Sector
    PROVE  /\ s \in Live => /\ ContentNow[s] = Bytes(data, inode_disk[s])
                            /\ ContentNow[s] # Null
                            /\ Len(ContentNow[s]) = inode_disk[s].length
                            /\ Sound(inode_disk[s])
           /\ s \notin Live => ContentNow[s] = Null
<1>1. CASE s \notin Live
  BY <1>1, Zenon DEF ContentNow
<1>2. CASE s \in Live
  <2> DEFINE I == inode_disk[s]
  <2>1. Sound(I) /\ data \in [Sector -> Block]
    BY <1>2, Zenon DEF ContentsOK, DiskOK, InodesOK
  <2>2. ContentNow[s] = Bytes(data, I)
    BY <1>2, ContentIs, Zenon DEF ContentBytes
  <2>3. I.length \in Nat
    BY <2>1, Zenon DEF Sound
  <2>4. 0 \in 0 .. I.length /\ I.length - 0 = I.length /\ \A k \in 1 .. I.length : 0 + k - 1 = k - 1
    BY <2>3
  <2>5. BytesFrom(data, I, 0) \in Seq(Int) /\ Len(BytesFrom(data, I, 0)) = I.length
    <3>1. IsBytesFrom(BytesFrom(data, I, 0), data, I, 0)
      BY <2>1, <2>4, BytesFromType, Zenon
    <3> QED
      BY <2>4, <3>1, Zenon DEF IsBytesFrom
  <2>6. BytesFrom(data, I, 0) = Bytes(data, I)
    BY <2>4, Zenon DEF Bytes, BytesFrom
  <2>7. Bytes(data, I) # Null
    BY <2>5, <2>6, NullAssumption, Zenon
  <2> QED
    BY <1>2, <2>1, <2>2, <2>5, <2>6, <2>7, Zenon
<1> QED
  BY <1>1, <1>2, Zenon

(* A step that leaves the directory alone leaves the names alone.          *)
LEMMA NamesSame ==
    ASSUME NamesRight, NamesRight', UNCHANGED dir
    PROVE  NamesNow' = NamesNow
<1>1. ASSUME NEW n \in Name PROVE NamesNow'[n] = NamesNow[n]
  <2>1. CASE \E i \in 1 .. DirSlots : dir[i].in_use /\ dir[i].name = n
    <3>1. PICK i \in 1 .. DirSlots : dir[i].in_use /\ dir[i].name = n
      BY <2>1, Zenon
    <3>2. NamesNow[n] = dir[i].sector
      BY <3>1, Zenon DEF NamesRight, NamesFound
    <3>3. dir'[i].in_use /\ dir'[i].name = n /\ dir'[i].sector = dir[i].sector
      BY <3>1, Zenon
    <3>4. NamesNow'[n] = dir'[i].sector
      BY <3>3, Zenon DEF NamesRight, NamesFound
    <3> QED
      BY <3>2, <3>3, <3>4, Zenon
  <2>2. CASE \A i \in 1 .. DirSlots : ~(dir[i].in_use /\ dir[i].name = n)
    <3>1. NamesNow[n] = Null
      BY <2>2, Zenon DEF NamesRight, NamesMiss
    <3>2. \A i \in 1 .. DirSlots : ~(dir'[i].in_use /\ dir'[i].name = n)
      BY <2>2, Zenon
    <3>3. NamesNow'[n] = Null
      BY <3>2, Zenon DEF NamesRight, NamesMiss
    <3> QED
      BY <3>1, <3>3, Zenon
  <2> QED
    BY <2>1, <2>2, Zenon
<1>2. NamesNow = [n \in Name |-> NamesNow[n]] /\ NamesNow' = [n \in Name |-> NamesNow'[n]]
  BY Zenon DEF NamesNow
<1> QED
  BY <1>1, <1>2, Zenon

(* What a step means to FlatFiles.                                         *)
FlatCreates(n, o, size) ==
    /\ NamesNow[n] = Null /\ ContentNow[o] = Null
    /\ NamesNow' = [NamesNow EXCEPT ![n] = o]
    /\ ContentNow' = [ContentNow EXCEPT ![o] = [i \in 1 .. size |-> 0]]
FlatRemoves(n) ==
    /\ NamesNow[n] # Null
    /\ NamesNow' = [NamesNow EXCEPT ![n] = Null]
    /\ ContentNow' = ContentNow
FlatWrites(o, first, bytes) ==
    /\ ContentNow[o] # Null /\ first \in 0 .. Len(ContentNow[o])
    /\ ContentNow' = [ContentNow EXCEPT ![o] = [i \in 1 .. Len(ContentNow[o]) |->
                          IF i \in first + 1 .. first + Len(bytes) THEN bytes[i - first]
                          ELSE ContentNow[o][i]]]
    /\ NamesNow' = NamesNow
FlatForgets(gone) ==
    /\ \A o \in gone : o \in Sector /\ ContentNow[o] # Null /\ \A n \in Name : NamesNow[n] # o
    /\ ContentNow' = [o \in Sector |-> IF o \in gone THEN Null ELSE ContentNow[o]]
    /\ NamesNow' = NamesNow
FlatStep ==
    \/ \E n \in Name, o \in Sector, size \in Sizes : FlatCreates(n, o, size)
    \/ \E n \in Name : FlatRemoves(n)
    \/ \E o \in Sector, bytes \in Buffers, first \in Nat : FlatWrites(o, first, bytes)
    \/ \E gone : FlatForgets(gone)
    \/ UNCHANGED <<NamesNow, ContentNow>>

(* These are steps of FlatFiles.                                           *)
LEMMA FlatSteps ==
    ASSUME FlatStep PROVE Flat!Next \/ UNCHANGED <<NamesNow, ContentNow>>
<1>1. ASSUME NEW n \in Name, NEW o \in Sector, NEW size \in Sizes, FlatCreates(n, o, size)
      PROVE  Flat!Next
  <2>1. Flat!Create(n, o, size)
    BY <1>1, Zenon DEF FlatCreates, Flat!Create, NamesNow, ContentNow
  <2> QED
    BY <2>1, Zenon DEF Flat!Next
<1>2. ASSUME NEW n \in Name, FlatRemoves(n) PROVE Flat!Next
  <2>1. Flat!Remove(n)
    BY <1>2, Zenon DEF FlatRemoves, Flat!Remove, NamesNow, ContentNow
  <2> QED
    BY <2>1, Zenon DEF Flat!Next
<1>3. ASSUME NEW o \in Sector, NEW bytes \in Buffers, NEW first \in Nat, FlatWrites(o, first, bytes)
      PROVE  Flat!Next
  <2>1. Flat!Write(o, first, bytes)
    BY <1>3, Zenon DEF FlatWrites, Flat!Write, NamesNow, ContentNow
  <2> QED
    BY <1>3, <2>1, Zenon DEF Flat!Next, FlatWrites, ContentNow
<1>4. ASSUME NEW gone, FlatForgets(gone) PROVE Flat!Next
  <2>1. gone \in SUBSET {o \in Sector : ContentNow[o] # Null /\ \A n \in Name : NamesNow[n] # o}
    BY <1>4, Zenon DEF FlatForgets
  <2>2. Flat!Forget
    BY <1>4, <2>1, Zenon DEF FlatForgets, Flat!Forget, NamesNow, ContentNow
  <2> QED
    BY <2>2, Zenon DEF Flat!Next
<1> QED
  BY <1>1, <1>2, <1>3, <1>4, Zenon DEF FlatStep

(* The contents after a step.                                              *)
LEMMA ContentNext ==
    ASSUME ContentsOK'
    PROVE  /\ NamesRight'
           /\ ContentNow' = [s \in Sector |-> IF s \in Live' THEN Bytes(data', inode_disk'[s])
                                              ELSE Null]
<1>1. ContentsOK' => NamesRight'
  BY NamesAre, PTL
<1>2. (ContentNow = ContentBytes)'
  BY ContentIs, PTL
<1> QED
  BY <1>1, <1>2, ContentBytesNext, Zenon

(* A step after which the files of Live have the bytes they had.           *)
LEMMA ContentSame ==
    ASSUME ContentsOK, ContentsOK', Live' = Live,
           \A s \in Live : Bytes(data', inode_disk'[s]) = Bytes(data, inode_disk[s])
    PROVE  ContentNow' = ContentNow
<1>1. ContentNow = ContentBytes
  BY ContentIs, Zenon
<1>2. ContentNow' = [s \in Sector |-> IF s \in Live' THEN Bytes(data', inode_disk'[s]) ELSE Null]
  BY ContentNext, Zenon
<1> QED
  BY <1>1, <1>2, Zenon DEF ContentBytes

(* Files are forgotten with the last close, or in a crash, if no name      *)
(* leads to them.                                                          *)
LEMMA LeavesMaps ==
    ASSUME ContentsOK, ContentsOK', LeavesContents PROVE FlatStep
<1>0. UNCHANGED <<inode_disk, data, dir>> /\ Live' \subseteq Live
  BY Zenon DEF LeavesContents
<1>1. NamesNow' = NamesNow
  BY <1>0, NamesAre, ContentNext, NamesSame, Zenon
<1>2. Linked \subseteq Live'
  BY <1>0, Zenon DEF Live, Linked
<1> DEFINE gone == Live \ Live'
<1>3. ASSUME NEW o \in gone
      PROVE  o \in Sector /\ ContentNow[o] # Null /\ \A n \in Name : NamesNow[n] # o
  <2>1. o \in Live /\ o \notin Linked
    BY <1>2, Zenon
  <2>2. o \in Sector /\ o # Null
    BY <2>1, LiveSectors, NullAssumption, Zenon DEF ContentsOK, FileSysOK
  <2> QED
    BY <2>1, <2>2, ContentType, NamesType, Zenon
<1>4. ContentNow' = [s \in Sector |-> IF s \in Live' THEN Bytes(data', inode_disk'[s]) ELSE Null]
  BY ContentNext, Zenon
<1>5. \A o \in Sector : (IF o \in Live' THEN Bytes(data', inode_disk'[o]) ELSE Null)
                        = IF o \in gone THEN Null ELSE ContentNow[o]
  <2> SUFFICES ASSUME NEW o \in Sector
               PROVE  (IF o \in Live' THEN Bytes(data', inode_disk'[o]) ELSE Null)
                      = IF o \in gone THEN Null ELSE ContentNow[o]
    BY Zenon
  <2>1. CASE o \in Live'
    BY <1>0, <2>1, ContentType, Zenon
  <2>2. CASE o \notin Live'
    BY <2>2, ContentType, Zenon
  <2> QED
    BY <2>1, <2>2, Zenon
<1>6. ContentNow' = [o \in Sector |-> IF o \in gone THEN Null ELSE ContentNow[o]]
  BY <1>4, <1>5, Zenon
<1>7. FlatForgets(gone)
  BY <1>1, <1>3, <1>6, Zenon DEF FlatForgets
<1> QED
  BY <1>7, Zenon DEF FlatStep

(* The file being created is none yet.                                     *)
LEMMA CreatesMaps ==
    ASSUME ContentsOK, ContentsOK', CreatesInode PROVE FlatStep
<1> DEFINE n == bytes_to_sectors(creating.size)
           start == free_map_allocate(free_map, n)
<1>0. FileSysOK /\ DiskOK
  BY Zenon DEF ContentsOK
<1>1. /\ creating.sector \notin Live /\ Live' = Live /\ Extent(start, n) \cap free_map = {}
      /\ \A z \in Sector : z # creating.sector => inode_disk'[z] = inode_disk[z]
  BY <1>0, CreatedInode, Zenon
<1>2. /\ data' = [z \in Sector |-> IF z \in Extent(start, n) THEN ZeroSector ELSE data[z]]
      /\ dir' = dir
  BY Zenon DEF CreatesInode, Inodes
<1> HIDE DEF start, n
<1>3. ASSUME NEW s \in Live PROVE Bytes(data', inode_disk'[s]) = Bytes(data, inode_disk[s])
  <2>1. /\ s \in Sector /\ Sound(inode_disk[s]) /\ data \in [Sector -> Block]
        /\ \A z \in InodeExtent(s) : z \in free_map
    BY <1>0, ExtentOwned, Zenon DEF DiskOK, InodesOK
  <2>2. inode_disk'[s] = inode_disk[s]
    BY <1>1, <2>1, Zenon
  <2>3. \A z \in InodeExtent(s) : z \in Sector => data'[z] = data[z]
    BY <1>1, <1>2, <2>1, Zenon
  <2>4. Bytes(data', inode_disk[s]) = Bytes(data, inode_disk[s])
    BY <2>1, <2>3, BytesSame, Zenon DEF InodeExtent
  <2> QED
    BY <2>2, <2>4, Zenon
<1>4. ContentNow' = ContentNow
  BY <1>1, <1>3, ContentSame, Zenon
<1>5. NamesNow' = NamesNow
  BY <1>2, NamesAre, ContentNext, NamesSame, Zenon
<1> QED
  BY <1>4, <1>5, Zenon DEF FlatStep

(* dir_add() makes it a file of zeros.                                     *)
LEMMA LinksMaps ==
    ASSUME ContentsOK, ContentsOK', LinksFile PROVE FlatStep
<1> DEFINE s == creating.sector
           name == creating.name
           size == creating.size
           k == FreeSlot
<1>0. FileSysOK /\ DiskOK
  BY Zenon DEF ContentsOK
<1>1. /\ s \in Sector /\ s \notin Live /\ Live' = Live \cup {s} /\ name \in Name /\ size \in Sizes
      /\ k \in 1 .. DirSlots /\ ~dir[k].in_use
      /\ dir'[k].in_use /\ dir'[k].name = name /\ dir'[k].sector = s
      /\ \A i \in 1 .. DirSlots : i # k => dir'[i] = dir[i]
  BY <1>0, FileLinked, Zenon
<1>2. /\ UNCHANGED <<inode_disk, data>> /\ creating # Null /\ creating.inode /\ lookup(name) = 0
  BY Zenon DEF LinksFile, DirAdds
<1>3. /\ Sound(inode_disk[s]) /\ inode_disk[s].length = size /\ data \in [Sector -> Block]
      /\ \A z \in InodeExtent(s) : data[z] = ZeroSector
  BY <1>0, <1>2, Zenon DEF DiskOK, CreatedOK
<1>4. Bytes(data, inode_disk[s]) = [i \in 1 .. size |-> 0]
  <2>1. Bytes(data, inode_disk[s]) = [i \in 1 .. inode_disk[s].length |-> 0]
    BY <1>3, BytesZero, Zenon DEF InodeExtent
  <2> QED
    BY <1>3, <2>1, Zenon
<1>5. \A i \in 1 .. DirSlots : ~(dir[i].in_use /\ dir[i].name = name)
  BY <1>2, LookupMisses, Zenon
<1> HIDE DEF s, name, size, k
<1>6. NamesRight /\ NamesRight'
  BY NamesAre, ContentNext, Zenon
<1>7. NamesNow[name] = Null
  BY <1>1, <1>5, <1>6, Zenon DEF NamesRight, NamesFound, NamesLead, NamesMiss
<1>8. ContentNow[s] = Null
  BY <1>1, ContentType, Zenon
<1>9. NamesNow' = [NamesNow EXCEPT ![name] = s]
  <2>1. NamesNow'[name] = s
    <3>1. NamesFound'
      BY <1>6, Zenon DEF NamesRight
    <3> QED
      BY <1>1, <3>1, Zenon DEF NamesFound
  <2>2. ASSUME NEW n \in Name, n # name PROVE NamesNow'[n] = NamesNow[n]
    <3>1. CASE \E i \in 1 .. DirSlots : dir[i].in_use /\ dir[i].name = n
      <4>1. PICK i \in 1 .. DirSlots : dir[i].in_use /\ dir[i].name = n
        BY <3>1, Zenon
      <4>2. dir'[i] = dir[i]
        BY <1>1, <4>1, Zenon
      <4>3. NamesNow[n] = dir[i].sector /\ NamesNow'[n] = dir'[i].sector
        BY <1>6, <4>1, <4>2, Zenon DEF NamesRight, NamesFound
      <4> QED
        BY <4>2, <4>3, Zenon
    <3>2. CASE \A i \in 1 .. DirSlots : ~(dir[i].in_use /\ dir[i].name = n)
      <4>1. \A i \in 1 .. DirSlots : ~(dir'[i].in_use /\ dir'[i].name = n)
        BY <1>1, <2>2, <3>2, Zenon
      <4> QED
        BY <1>6, <3>2, <4>1, Zenon DEF NamesRight, NamesFound, NamesLead, NamesMiss
    <3> QED
      BY <3>1, <3>2, Zenon
  <2>3. NamesNow = [n \in Name |-> NamesNow[n]] /\ NamesNow' = [n \in Name |-> NamesNow'[n]]
    BY Zenon DEF NamesNow
  <2>4. NamesNow' = [n \in Name |-> IF n = name THEN s ELSE NamesNow[n]]
    BY <2>1, <2>2, <2>3, Zenon
  <2> QED
    BY <2>3, <2>4, Zenon
<1>10. ContentNow' = [ContentNow EXCEPT ![s] = [i \in 1 .. size |-> 0]]
  <2>1. ContentNow' = [z \in Sector |-> IF z \in Live' THEN Bytes(data', inode_disk'[z]) ELSE Null]
    BY ContentNext, Zenon
  <2> DEFINE zeros == [i \in 1 .. size |-> 0]
  <2>2. \A z \in Sector : (IF z \in Live' THEN Bytes(data', inode_disk'[z]) ELSE Null)
                          = IF z = s THEN zeros ELSE ContentNow[z]
    <3> SUFFICES ASSUME NEW z \in Sector
                 PROVE  (IF z \in Live' THEN Bytes(data', inode_disk'[z]) ELSE Null)
                        = IF z = s THEN zeros ELSE ContentNow[z]
      BY Zenon
    <3>1. CASE z = s
      BY <1>1, <1>2, <1>4, <3>1, Zenon
    <3>2. CASE z # s /\ z \in Live
      BY <1>1, <1>2, <3>2, ContentType, Zenon
    <3>3. CASE z # s /\ z \notin Live
      BY <1>1, <3>3, ContentType, Zenon
    <3> QED
      BY <3>1, <3>2, <3>3, Zenon
  <2> HIDE DEF zeros
  <2>3. ContentNow' = [z \in Sector |-> IF z = s THEN zeros ELSE ContentNow[z]]
    BY <2>1, <2>2, Zenon
  <2>4. ContentNow = [z \in Sector |-> ContentNow[z]]
    BY Zenon DEF ContentNow
  <2> QED
    BY <2>3, <2>4, Zenon DEF zeros
<1>11. FlatCreates(name, s, size)
  BY <1>7, <1>8, <1>9, <1>10, Zenon DEF FlatCreates
<1> QED
  BY <1>1, <1>11, Zenon DEF FlatStep

(* dir_remove() takes a name away, and no content.                         *)
LEMMA UnlinksMaps ==
    ASSUME ContentsOK, ContentsOK', NEW name \in Name, UnlinksFile(name) PROVE FlatStep
<1> DEFINE k == lookup(name)
<1>0. FileSysOK /\ DiskOK
  BY Zenon DEF ContentsOK
<1>1. /\ k \in 1 .. DirSlots /\ dir[k].in_use /\ ~dir'[k].in_use
      /\ \A i \in 1 .. DirSlots : i # k => dir'[i] = dir[i]
      /\ Live' = Live
  BY <1>0, FileUnlinked, Zenon
<1>2. UNCHANGED <<inode_disk, data>> /\ lookup(name) # 0
  BY Zenon DEF UnlinksFile
<1>3. dir[k].name = name /\ dir[k].sector \in Sector
  BY <1>0, <1>2, LookupFinds, Zenon DEF FileSysOK, dir_lookup
<1> HIDE DEF k
<1>4. NamesRight /\ NamesRight' /\ NamesOK
  BY <1>0, NamesAre, ContentNext, Zenon DEF DiskOK
<1>5. NamesNow[name] # Null
  <2>1. NamesNow[name] = dir[k].sector
    BY <1>1, <1>3, <1>4, Zenon DEF NamesRight, NamesFound
  <2> QED
    BY <1>3, <2>1, NullAssumption, Zenon
<1>6. ContentNow' = ContentNow
  BY <1>1, <1>2, ContentSame, Zenon
<1>7. NamesNow' = [NamesNow EXCEPT ![name] = Null]
  <2>1. NamesNow'[name] = Null
    <3>1. ASSUME NEW i \in 1 .. DirSlots PROVE ~(dir'[i].in_use /\ dir'[i].name = name)
      <4>1. CASE i = k
        BY <1>1, <4>1, Zenon
      <4>2. CASE i # k
        <5>1. dir'[i] = dir[i]
          BY <1>1, <4>2, Zenon
        <5>2. ~(dir[i].in_use /\ dir[i].name = name)
          BY <1>1, <1>3, <1>4, <4>2, Zenon DEF NamesOK
        <5> QED
          BY <5>1, <5>2, Zenon
      <4> QED
        BY <4>1, <4>2, Zenon
    <3> QED
      BY <1>4, <3>1, Zenon DEF NamesRight, NamesMiss
  <2>2. ASSUME NEW n \in Name, n # name PROVE NamesNow'[n] = NamesNow[n]
    <3>1. CASE \E i \in 1 .. DirSlots : dir[i].in_use /\ dir[i].name = n
      <4>1. PICK i \in 1 .. DirSlots : dir[i].in_use /\ dir[i].name = n
        BY <3>1, Zenon
      <4>2. dir'[i] = dir[i]
        BY <1>1, <1>3, <2>2, <4>1, Zenon
      <4>3. NamesNow[n] = dir[i].sector /\ NamesNow'[n] = dir'[i].sector
        BY <1>4, <4>1, <4>2, Zenon DEF NamesRight, NamesFound
      <4> QED
        BY <4>2, <4>3, Zenon
    <3>2. CASE \A i \in 1 .. DirSlots : ~(dir[i].in_use /\ dir[i].name = n)
      <4>1. \A i \in 1 .. DirSlots : ~(dir'[i].in_use /\ dir'[i].name = n)
        BY <1>1, <3>2, Zenon
      <4> QED
        BY <1>4, <3>2, <4>1, Zenon DEF NamesRight, NamesFound, NamesLead, NamesMiss
    <3> QED
      BY <3>1, <3>2, Zenon
  <2>3. NamesNow = [n \in Name |-> NamesNow[n]] /\ NamesNow' = [n \in Name |-> NamesNow'[n]]
    BY Zenon DEF NamesNow
  <2>4. NamesNow' = [n \in Name |-> IF n = name THEN Null ELSE NamesNow[n]]
    BY <2>1, <2>2, <2>3, Zenon
  <2> QED
    BY <2>3, <2>4, Zenon
<1>8. FlatRemoves(name)
  BY <1>5, <1>6, <1>7, Zenon DEF FlatRemoves
<1> QED
  BY <1>8, Zenon DEF FlatStep

(* fd_write() overwrites bytes of the file, as far as it goes.             *)
LEMMA WritesMaps ==
    ASSUME ContentsOK, ContentsOK', NEW f \in OpenFiles, NEW bytes \in Buffers, WritesFile(f, bytes)
    PROVE  FlatStep
<1> DEFINE s == files[f].sector
           pos == files[f].pos
           len == inode_disk[s].length
           new == [i \in 1 .. len |-> IF i \in pos + 1 .. pos + Len(bytes) THEN bytes[i - pos]
                                      ELSE ContentNow[s][i]]
<1>0. FileSysOK /\ DiskOK /\ FilesOK
  BY Zenon DEF ContentsOK
<1>1. /\ s \in Live /\ s \in Sector /\ Sound(inode_disk[s]) /\ pos \in Nat /\ bytes \in Seq(Int)
      /\ Live' = Live /\ data \in [Sector -> Block]
      /\ data' = WrittenFrom(data, inode_disk[s], bytes, pos, 0)
  BY <1>0, FileWritten, Zenon DEF DiskOK
<1>2. UNCHANGED <<inode_disk, dir>>
  BY Zenon DEF WritesFile
<1>3. /\ ContentNow[s] = Bytes(data, inode_disk[s]) /\ ContentNow[s] # Null
      /\ Len(ContentNow[s]) = len /\ len \in Nat
  <2>1. /\ ContentNow[s] = Bytes(data, inode_disk[s]) /\ ContentNow[s] # Null
        /\ Len(ContentNow[s]) = inode_disk[s].length
    BY <1>1, ContentType, Zenon
  <2>2. inode_disk[s].length \in Nat
    BY <1>1, Zenon DEF Sound
  <2> QED
    BY <2>1, <2>2, Zenon
<1>4. Bytes(data', inode_disk[s]) = new
  <2>1. Bytes(WrittenFrom(data, inode_disk[s], bytes, pos, 0), inode_disk[s])
        = Overwritten(data, inode_disk[s], bytes, pos)
    <3> HIDE DEF s, pos
    <3> QED
      BY <1>1, WrittenBytes, Zenon
  <2>2. Overwritten(data, inode_disk[s], bytes, pos) = new
    BY <1>3, Zenon DEF Overwritten
  <2> QED
    BY <1>1, <2>1, <2>2, Zenon
<1> HIDE DEF s, pos
<1>5. ASSUME NEW z \in Live, z # s PROVE Bytes(data', inode_disk[z]) = Bytes(data, inode_disk[z])
  <2>1. Sound(inode_disk[z]) /\ \A x \in InodeExtent(z) : x \notin InodeExtent(s)
    BY <1>0, <1>1, <1>5, ExtentOwned, Zenon DEF DiskOK, InodesOK
  <2>2. \A x \in InodeExtent(z) : x \in Sector => data'[x] = data[x]
    <3> SUFFICES ASSUME NEW x \in Sector, x \in InodeExtent(z) PROVE data'[x] = data[x]
      BY Zenon
    <3>1. x \notin Extent(inode_disk[s].start, bytes_to_sectors(inode_disk[s].length))
      BY <2>1, Zenon DEF InodeExtent
    <3>2. PICK I : I = inode_disk[s]
      BY Zenon
    <3>3. /\ Sound(I) /\ pos \in Nat /\ bytes \in Seq(Int) /\ data \in [Sector -> Block]
          /\ x \notin Extent(I.start, bytes_to_sectors(I.length))
      BY <1>1, <3>1, <3>2, Zenon
    <3>4. WrittenFrom(data, I, bytes, pos, 0)[x] = data[x]
      BY <3>3, WrittenOutside
    <3> QED
      BY <1>1, <3>2, <3>4, Zenon
  <2> QED
    BY <1>1, <2>1, <2>2, BytesSame, Zenon DEF InodeExtent
<1>6. ContentNow' = [ContentNow EXCEPT ![s] = new]
  <2>1. ContentNow' = [z \in Sector |-> IF z \in Live' THEN Bytes(data', inode_disk'[z]) ELSE Null]
    BY ContentNext, Zenon
  <2> HIDE DEF new
  <2>2. \A z \in Sector : (IF z \in Live' THEN Bytes(data', inode_disk'[z]) ELSE Null)
                          = IF z = s THEN new ELSE ContentNow[z]
    <3> SUFFICES ASSUME NEW z \in Sector
                 PROVE  (IF z \in Live' THEN Bytes(data', inode_disk'[z]) ELSE Null)
                        = IF z = s THEN new ELSE ContentNow[z]
      BY Zenon
    <3>1. CASE z = s
      BY <1>1, <1>2, <1>4, <3>1, Zenon
    <3>2. CASE z # s /\ z \in Live
      BY <1>1, <1>2, <1>5, <3>2, ContentType, Zenon
    <3>3. CASE z # s /\ z \notin Live
      BY <1>1, <3>3, ContentType, Zenon
    <3> QED
      BY <3>1, <3>2, <3>3, Zenon
  <2>3. ContentNow' = [z \in Sector |-> IF z = s THEN new ELSE ContentNow[z]]
    BY <2>1, <2>2, Zenon
  <2>4. ContentNow = [z \in Sector |-> ContentNow[z]]
    BY Zenon DEF ContentNow
  <2> QED
    BY <2>3, <2>4, Zenon
<1>7. NamesNow' = NamesNow
  BY <1>2, NamesAre, ContentNext, NamesSame, Zenon
<1>8. CASE pos <= len
  <2>1. pos \in 0 .. len
    BY <1>1, <1>3, <1>8
  <2>2. FlatWrites(s, pos, bytes)
    BY <1>3, <1>6, <1>7, <2>1, Zenon DEF FlatWrites
  <2> QED
    BY <1>1, <2>2, Zenon DEF FlatStep
<1>9. CASE ~(pos <= len)
  <2>1. Len(bytes) \in Nat
    BY <1>1
  <2>2. \A i \in 1 .. len : i \notin pos + 1 .. pos + Len(bytes)
    BY <1>1, <1>3, <1>9, <2>1
  <2>3. new = [i \in 1 .. len |-> ContentNow[s][i]]
    BY <2>2, Zenon
  <2>4. ContentNow[s] = [i \in 1 .. len |-> ContentNow[s][i]]
    BY <1>3, Zenon DEF Bytes
  <2>5. new = ContentNow[s]
    BY <2>3, <2>4, Zenon
  <2>6. ContentNow = [z \in Sector |-> ContentNow[z]]
    BY Zenon DEF ContentNow
  <2> HIDE DEF new
  <2>7. ContentNow' = ContentNow
    BY <1>6, <2>5, <2>6, Zenon
  <2> QED
    BY <1>7, <2>7, Zenon DEF FlatStep
<1> QED
  BY <1>8, <1>9, Zenon

(* The formatted file system is one FlatFiles may start with.              *)
LEMMA FlatInit == Init => Flat!Init
<1> SUFFICES ASSUME Init PROVE Flat!Init
  OBVIOUS
<1>0. ContentsOK
  BY ContentsInit, Zenon
<1>1. NamesNow \in [Name -> Sector \cup {Null}]
  BY <1>0, NamesType, Zenon
<1>2. ASSUME NEW o \in Sector PROVE ContentNow[o] # Null <=> \E n \in Name : NamesNow[n] = o
  <2>1. o # Null
    BY NullAssumption, Zenon
  <2>2. ContentNow[o] # Null <=> o \in Live
    BY <1>0, ContentType, Zenon
  <2>3. Live = Linked
    BY Zenon DEF Init, Live
  <2>4. ASSUME NEW n \in Name, NamesNow[n] = o PROVE o \in Live
    BY <1>0, <2>1, <2>3, <2>4, NamesType, Zenon
  <2>5. ASSUME o \in Linked PROVE \E n \in Name : NamesNow[n] = o
    <3>1. PICK i \in 1 .. DirSlots : dir[i].in_use /\ o = dir[i].sector
      BY <2>5, Zenon DEF Linked
    <3>a. dir[i] = IF i = 1 THEN [in_use |-> TRUE, name |-> Program, sector |-> 2] ELSE NoEntry
      BY Zenon DEF Init
    <3>2. i = 1
      BY <3>1, <3>a DEF NoEntry
    <3>3. dir[1].name = Program
      BY <3>a, <3>2
    <3>4. NamesNow[Program] = o
      BY <1>0, <3>1, <3>2, <3>3, NamesAre, FileSysAssumption, Zenon DEF NamesRight, NamesFound, NamesLead, NamesMiss
    <3> QED
      BY <3>4, FileSysAssumption, Zenon
  <2> QED
    BY <2>2, <2>3, <2>4, <2>5, Zenon
<1> QED
  BY <1>1, <1>2, Zenon DEF Flat!Init, NamesNow, ContentNow

(* The file system implements FlatFiles: whatever is created, removed,     *)
(* opened, written and closed, and wherever a crash falls, names lead to   *)
(* byte sequences that change only where they are written, come into being *)
(* as zeros and last as long as a name or an open file leads to them       *)
(* (ImplementsFlatFiles; inode_read_at(), inode_write_at(), directory.c).  *)
THEOREM FilesImplementFlatFiles == Spec => ImplementsFlatFiles
<1>1. ContentsOK /\ ContentsOK' /\ [Next]_vars => Flat!Next \/ UNCHANGED <<NamesNow, ContentNow>>
  <2> SUFFICES ASSUME ContentsOK, ContentsOK', [Next]_vars
               PROVE  Flat!Next \/ UNCHANGED <<NamesNow, ContentNow>>
    OBVIOUS
  <2>1. ContentStep
    BY StepKinds, Zenon DEF ContentsOK
  <2>2. FlatStep
    BY <2>1, LeavesMaps, CreatesMaps, LinksMaps, UnlinksMaps, WritesMaps, Zenon DEF ContentStep
  <2> QED
    BY <2>2, FlatSteps, Zenon
<1>2. ContentsOK /\ ContentsOK' /\ [Next]_vars => [Flat!Next]_<<NamesNow, ContentNow>>
  BY <1>1, Zenon
<1>3. ImplementsFlatFiles <=> Flat!Init /\ [][Flat!Next]_<<NamesNow, ContentNow>>
  BY DEF ImplementsFlatFiles, Flat!Spec, NamesNow, ContentNow
<1> QED
  BY <1>2, <1>3, FlatInit, ContentsInvariant, PTL DEF Spec
=============================================================================
