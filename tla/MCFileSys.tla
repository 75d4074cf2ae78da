----------------------------- MODULE MCFileSys -----------------------------
(***************************************************************************)
(* Instances of module FileSys for TLC.                                    *)
(***************************************************************************)
EXTENDS FileSys, TLC

CONSTANTS p1, p2, prog, doc, bad

MCSizes == {-1, 3}
MCBuffers == {<<1, 1, 1>>}
MCPositions == {-1, 1}
MCSymmetry == Permutations({p1, p2})

(* What later steps can depend on: not the old bytes of free and lost      *)
(* sectors, nor directory entries that are not in use, nor which struct    *)
(* file of the heap an open file has.                                      *)
Used == Live \cup (IF creating = Null \/ ~creating.inode THEN {} ELSE {creating.sector})
FileOf(f) == IF f = Null THEN Null ELSE files[f]
MCView ==
    <<free_map, [s \in Used |-> inode_disk[s]],
      [s \in UNION {InodeExtent(z) : z \in Used} |-> data[s]],
      [i \in 1 .. DirSlots |-> IF dir[i].in_use THEN dir[i] ELSE NoEntry],
      open_inodes, Cardinality(FreeFiles),
      [p \in Proc |-> [i \in 0 .. CAPACITY |-> <<descriptors[p][i].in_use, descriptors[p][i].fd,
                                                FileOf(descriptors[p][i].file)>>]],
      [p \in Proc |-> FileOf(executable[p])], exiting,
      filesys_lock, creating, removing, panic>>
=============================================================================
