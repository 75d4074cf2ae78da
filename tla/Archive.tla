------------------------------ MODULE Archive ------------------------------
(***************************************************************************)
(* The ustar archive on the scratch device: lib/ustar.c, and the           *)
(* `extract' and `append' actions of filesys/fsutil.c that the kernel runs *)
(* before and after a test.  The kernel may stop at any time and boot      *)
(* again; the scratch device and the file system stay, the positions in    *)
(* the archive do not.                                                     *)
(*                                                                         *)
(* Characters are their ASCII codes.  A sector holds a header, with the    *)
(* fields that differ from one header to another, or bytes.                *)
(***************************************************************************)
EXTENDS Integers, Sequences, FiniteSets, SequencesExt, FiniteSetsExt

CONSTANTS Files,           \* the file systems to start with: contents by name
          HostArchives,    \* what the host may have put on the scratch device
          ScratchSize,     \* sectors of the scratch device
          BLOCK_SECTOR_SIZE,
          NameSize,        \* characters of the field for the name, 100 in ustar
          SizeField,       \* characters of the field for the size, 12 in ustar
          ChksumField,     \* characters of the field for the checksum, 8 in ustar
          ULONG_MAX, INT_MAX

VARIABLES
    scratch,         \* the sectors of the scratch device
    files,           \* the file system: contents by name
    extract_sector,  \* fsutil_extract(): static sector
    append_sector,   \* fsutil_append(): static sector
    op,              \* "idle", in "extract" or "append", or "panic"
    src,             \* fsutil_append(): the name of the file, and where it is read
    archive,         \* ghost: the files and directories the archive holds
    extracted        \* ghost: those that were extracted from it

vars == <<scratch, files, extract_sector, append_sector, op, src, archive, extracted>>
fsVars == <<scratch, files>>
ghostVars == <<archive, extracted>>

Sector == 0 .. ScratchSize - 1
Slash == 47
Dot == 46
NUL == 0
Space == 32
USTAR_REGULAR == 48
USTAR_DIRECTORY == 53
-----------------------------------------------------------------------------
(* ustar.c *)

RECURSIVE strip_antisocial_prefixes(_)
strip_antisocial_prefixes(file_name) ==
    IF \E p \in {<<Slash>>, <<Dot, Slash>>, <<Dot, Dot, Slash>>} : IsPrefix(p, file_name)
    THEN strip_antisocial_prefixes(
            SubSeq(file_name, SelectInSeq(file_name, LAMBDA c : c = Slash) + 1, Len(file_name)))
    ELSE IF file_name = <<>> \/ file_name = <<Dot, Dot>> THEN <<Dot>> ELSE file_name

(* snprintf() of "%0*o" into a field, with the NUL that ends it.           *)
OctalField(n, size) ==
    [i \in 1 .. size |-> IF i = size THEN NUL ELSE 48 + ((n \div 8^(size - 1 - i)) % 8)]

(* The value of a field, -1 where parse_octal_field() fails.               *)
parse_octal_field(s) ==
    LET IsDigit(c) == c \in 48 .. 55
        end == SelectInSeq(s, LAMBDA c : ~IsDigit(c))
        Add(v, c) == IF v = -1 \/ v > ULONG_MAX \div 8 THEN -1 ELSE c - 48 + v * 8
    IN IF end <= 1 \/ s[end] \notin {Space, NUL} THEN -1
       ELSE FoldLeft(Add, 0, SubSeq(s, 1, end - 1))

(* Every character of the header but the checksum's, which count as        *)
(* spaces; those that never differ add nothing.                            *)
calculate_chksum(h) ==
    Space * ChksumField + h.typeflag + FoldLeft(+, 0, h.name) + FoldLeft(+, 0, h.size)

Bytes(b) == [kind |-> "bytes", bytes |-> b]
Zeros == [i \in 1 .. BLOCK_SECTOR_SIZE |-> 0]
is_all_zeros(block) == block = Bytes(Zeros)

(* The composed header, or zeros where the name is too long.               *)
ustar_make_header(file_name, type, size) ==
    LET n == strip_antisocial_prefixes(file_name)
        h == [kind |-> "header", typeflag |-> type, size |-> OctalField(size, SizeField),
              name |-> [i \in 1 .. NameSize |-> IF i <= Len(n) THEN n[i] ELSE NUL],
              chksum |-> <<>>]
    IN IF Len(n) > NameSize - 1 THEN Bytes(Zeros)
       ELSE [h EXCEPT !.chksum = OctalField(calculate_chksum(h), ChksumField)]

(* What a header says, with the message of the check that failed.          *)
ustar_parse_header(h) ==
    LET Error(message) == [error |-> message, name |-> <<>>, type |-> "none", size |-> 0]
        size == IF h.typeflag = USTAR_REGULAR THEN parse_octal_field(h.size) ELSE 0
    IN IF is_all_zeros(h) THEN [Error("") EXCEPT !.type = "eof"]
       ELSE IF h.kind = "bytes" THEN Error("not a ustar archive")
       ELSE IF parse_octal_field(h.chksum) = -1 THEN Error("corrupt chksum field")
       ELSE IF parse_octal_field(h.chksum) # calculate_chksum(h) THEN Error("checksum mismatch")
       ELSE IF h.name[NameSize] # NUL THEN Error("file name too long")
       ELSE IF h.typeflag \notin {USTAR_REGULAR, USTAR_DIRECTORY} THEN Error("unimplemented file type")
       ELSE IF size = -1 THEN Error("corrupt file size field")
       ELSE IF size > INT_MAX THEN Error("file too large")
       ELSE [error |-> "", size |-> size,
             type |-> IF h.typeflag = USTAR_REGULAR THEN "regular" ELSE "directory",
             name |-> strip_antisocial_prefixes(SubSeq(h.name, 1, SelectInSeq(h.name, LAMBDA c : c = NUL) - 1))]
-----------------------------------------------------------------------------
(* The sectors that hold data, the last filled up with zeros.              *)
SectorsFor(size) == (size + BLOCK_SECTOR_SIZE - 1) \div BLOCK_SECTOR_SIZE
Chunk(data, k) ==
    Bytes([i \in 1 .. BLOCK_SECTOR_SIZE |->
        LET j == k * BLOCK_SECTOR_SIZE + i IN IF j <= Len(data) THEN data[j] ELSE 0])
EntrySectors(e) == 1 + SectorsFor(Len(e.data))
EntryStart(a, k) == FoldLeft(LAMBDA n, e : n + EntrySectors(e), 0, SubSeq(a, 1, k - 1))
SectorAt(a, s) ==        \* an archive as the host writes it
    LET here == {k \in DOMAIN a : s \in EntryStart(a, k) .. EntryStart(a, k) + EntrySectors(a[k]) - 1}
    IN IF here = {} THEN Bytes(Zeros)
       ELSE LET k == Min(here)
                ofs == s - EntryStart(a, k)
            IN IF ofs = 0 THEN ustar_make_header(a[k].name, a[k].type, Len(a[k].data))
               ELSE Chunk(a[k].data, ofs - 1)

NoSource == [name |-> <<>>, pos |-> 0]
Init ==
    /\ archive \in HostArchives
    /\ scratch = [s \in Sector |-> SectorAt(archive, s)]
    /\ files \in Files
    /\ extract_sector = 0 /\ append_sector = 0
    /\ op = "idle" /\ src = NoSource /\ extracted = <<>>

Panic == op' = "panic" /\ UNCHANGED <<fsVars, extract_sector, append_sector, src, ghostVars>>

(* fsutil_extract(), up to its loop.  The kernel's command line has it     *)
(* once, before any `append', as the comment of fsutil_append() asks.      *)
fsutil_extract ==
    /\ op = "idle" /\ extract_sector = 0 /\ append_sector = 0
    /\ op' = "extract"
    /\ UNCHANGED <<fsVars, extract_sector, append_sector, src, ghostVars>>

(* filesys_create() and the copy of a regular file into it; the code       *)
(* panics where the file exists, or the device ends before the file.       *)
extract_file(h) ==
    LET last == extract_sector + SectorsFor(h.size)
        Byte(i) == LET s == extract_sector + 1 + (i - 1) \div BLOCK_SECTOR_SIZE
                   IN IF s \in Sector /\ scratch[s].kind = "bytes"
                      THEN scratch[s].bytes[((i - 1) % BLOCK_SECTOR_SIZE) + 1] ELSE 0
    IN IF h.name \in DOMAIN files THEN Panic
       ELSE /\ files' = [n \in DOMAIN files \cup {h.name} |->
                            IF n = h.name THEN [i \in 1 .. h.size |-> Byte(i)] ELSE files[n]]
            /\ op' = IF last < ScratchSize THEN op ELSE "panic"
            /\ extract_sector' = last + 1
            /\ UNCHANGED <<scratch, append_sector, src, ghostVars>>

(* The end of the archive: its first two sectors are erased.               *)
extract_end ==
    /\ op' = "idle"
    /\ scratch' = [s \in Sector |-> IF s <= 1 THEN Bytes(Zeros) ELSE scratch[s]]
    /\ extract_sector' = extract_sector + 1
    /\ extracted' = archive /\ archive' = <<>>
    /\ UNCHANGED <<files, append_sector, src>>

(* One turn of the loop of fsutil_extract(); block_read() panics at the    *)
(* end of the device.                                                      *)
extract_entry ==
    /\ op = "extract"
    /\ IF extract_sector \notin Sector THEN Panic
       ELSE LET h == ustar_parse_header(scratch[extract_sector])
            IN CASE h.error # "" -> Panic
                 [] h.type = "eof" -> extract_end
                 [] h.type = "regular" -> extract_file(h)
                 [] h.type = "directory" ->
                      /\ extract_sector' = extract_sector + 1
                      /\ UNCHANGED <<fsVars, append_sector, op, src, ghostVars>>
-----------------------------------------------------------------------------
block_write(s, block) == scratch' = [scratch EXCEPT ![s] = block]

(* fsutil_append(), up to the header.                                      *)
fsutil_append(name) ==
    /\ op = "idle"
    /\ IF name \notin DOMAIN files \/ append_sector \notin Sector THEN Panic
       ELSE LET h == ustar_make_header(name, USTAR_REGULAR, Len(files[name]))
            IN IF is_all_zeros(h) THEN Panic
               ELSE /\ block_write(append_sector, h)
                    /\ append_sector' = append_sector + 1
                    /\ op' = "append" /\ src' = [name |-> name, pos |-> 0]
                    /\ archive' = IF append_sector = 0 THEN <<>> ELSE archive
                    /\ UNCHANGED <<files, extract_sector, extracted>>

(* One sector of the file.                                                 *)
append_chunk ==
    /\ op = "append" /\ src.pos < Len(files[src.name])
    /\ IF append_sector \notin Sector THEN Panic
       ELSE /\ block_write(append_sector, Chunk(files[src.name], src.pos \div BLOCK_SECTOR_SIZE))
            /\ append_sector' = append_sector + 1
            /\ src' = [src EXCEPT !.pos = src.pos + BLOCK_SECTOR_SIZE]
            /\ UNCHANGED <<files, extract_sector, op, ghostVars>>

(* Mutant: the position moves past the end of the archive.                 *)
append_end_advance ==
    /\ op = "append" /\ src.pos >= Len(files[src.name])
    /\ IF append_sector \notin Sector THEN Panic
       ELSE /\ block_write(append_sector, Bytes(Zeros))
            /\ append_sector' = append_sector + 1
            /\ op' = "idle" /\ src' = NoSource
            /\ archive' = Append(archive, [name |-> src.name, type |-> USTAR_REGULAR, data |-> files[src.name]])
            /\ UNCHANGED <<files, extract_sector, extracted>>

(* The end of the archive is written over the next sector twice, the       *)
(* second time from one byte into the buffer: the last byte is the one     *)
(* that follows the buffer in memory.                                      *)
append_end ==
    /\ op = "append" /\ src.pos >= Len(files[src.name])
    /\ IF append_sector \notin Sector THEN Panic
       ELSE /\ \E b \in {0, 1} : block_write(append_sector, Bytes([Zeros EXCEPT ![BLOCK_SECTOR_SIZE] = b]))
            /\ op' = "idle" /\ src' = NoSource
            /\ archive' = Append(archive, [name |-> src.name, type |-> USTAR_REGULAR, data |-> files[src.name]])
            /\ UNCHANGED <<files, extract_sector, append_sector, extracted>>

(* The kernel stops, at any time, and boots again.                         *)
reboot ==
    /\ extract_sector' = 0 /\ append_sector' = 0
    /\ op' = "idle" /\ src' = NoSource
    /\ UNCHANGED <<fsVars, ghostVars>>

Next ==
    \/ fsutil_extract \/ extract_entry
    \/ \E name \in UNION {DOMAIN f : f \in Files} : fsutil_append(name)
    \/ append_chunk \/ append_end
    \/ reboot

Spec == Init /\ [][Next]_vars
-----------------------------------------------------------------------------
(* ustar.c: a field is read where it has digits, an end and a value in     *)
(* range; a name is left without the prefixes it may not have.             *)
FieldMatches(s) ==
    LET Digits(n) == \A i \in 1 .. n : s[i] \in 48 .. 55
        Value(n) == FoldLeft(LAMBDA v, c : 8 * v + (c - 48), 0, SubSeq(s, 1, n))
        Ends(n) == n < Len(s) /\ s[n + 1] \in {Space, NUL}
    IN parse_octal_field(s) =
         IF \E n \in 1 .. Len(s) : Digits(n) /\ Ends(n) /\ Value(n) <= ULONG_MAX
         THEN Value(CHOOSE n \in 1 .. Len(s) : Digits(n) /\ Ends(n)) ELSE -1
NameStripped(n) ==
    LET r == strip_antisocial_prefixes(n)
    IN /\ r \notin {<<>>, <<Dot, Dot>>}
       /\ \A p \in {<<Slash>>, <<Dot, Slash>>, <<Dot, Dot, Slash>>} : ~IsPrefix(p, r)
       /\ IsSuffix(r, n) \/ r = <<Dot>>

(* fsutil.c: whatever the kernel has appended, and whenever it stopped,    *)
(* every file of the archive is found behind those before it, with its     *)
(* name and all of its bytes.                                              *)
ArchiveReadable ==
    \A k \in DOMAIN archive :
        LET e == archive[k]
            at == EntryStart(archive, k)
            h == ustar_parse_header(scratch[at])
        IN /\ h.error = "" /\ h.name = strip_antisocial_prefixes(e.name)
           /\ h.size = Len(e.data)
           /\ \A i \in 1 .. SectorsFor(h.size) : scratch[at + i] = Chunk(e.data, i - 1)

(* fsutil.c: once `extract' is over, the file system has every file of the *)
(* archive.                                                                *)
ExtractComplete ==
    extracted # <<>> =>
        \A k \in DOMAIN extracted :
            LET e == extracted[k] IN
            e.type = USTAR_REGULAR => /\ strip_antisocial_prefixes(e.name) \in DOMAIN files
                                      /\ files[strip_antisocial_prefixes(e.name)] = e.data
=============================================================================
