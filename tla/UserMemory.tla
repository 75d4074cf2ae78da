----------------------------- MODULE UserMemory -----------------------------
(***************************************************************************)
(* The kernel's accesses to the memory of a process: load_arguments() of   *)
(* userprog/process.c, which writes the arguments of main() to the first   *)
(* page of the stack, and the checks of userprog/syscall.c before it reads *)
(* the arguments of a system call.                                         *)
(***************************************************************************)
EXTENDS Integers, Sequences, FiniteSets, SequencesExt, FiniteSetsExt

S == INSTANCE Strings
-----------------------------------------------------------------------------
(* load_arguments().  The stack ends at top; a pointer takes 4 bytes.      *)
USER_STACK_OFFSET_IN_BYTES == 20

(* Mutant: the pointers are not aligned.                                   *)
AlignedTo_not(a, n) == a

AlignedTo(a, n) == (a \div n) * n

(* Where the string of n bytes, argv[] for argc tokens and the words for   *)
(* main() go.                                                              *)
StackLayout(n, argc, top) ==
    LET string == top - USER_STACK_OFFSET_IN_BYTES - n
        argv == AlignedTo(string, 4) - 4 * (argc + 1)
        offset == argv % 16
    IN [string |-> string, argv |-> argv,
        main |-> argv - 4 - (IF offset + 4 < 12 THEN offset + 16 ELSE offset)]

(* Longer arguments are refused.                                           *)
max_argument_length == 1024

(* The characters from string on, and the words: argv[], and the return    *)
(* address, argc and argv for main().                                      *)
load_arguments(argument, top, delimiters) ==
    LET m == argument \o <<S!NUL>>
        argc == S!strtok_c(m, 1, delimiters)
        at == StackLayout(Len(m), argc, top)
        split == S!Tokenize(m, 1, delimiters)
        word == [a \in {at.argv + 4 * i : i \in 0 .. argc} \cup {at.main, at.main + 4, at.main + 8} |->
                    CASE a = at.main -> 0
                      [] a = at.main + 4 -> argc
                      [] a = at.main + 8 -> at.argv
                      [] a = at.argv + 4 * argc -> 0
                      [] OTHER -> at.string + split.tokens[((a - at.argv) \div 4) + 1] - 1]
    IN [esp |-> at.main, string |-> at.string, chars |-> split.mem, word |-> word]

(* The process finds, from its stack pointer, argc and argv[], and in them *)
(* the pieces of its command line; nothing overlaps, every word is         *)
(* aligned, and the stack pointer is 4 bytes below a multiple of 16.       *)
ArgumentsOnStack(argument, top, delimiters) ==
    LET r == load_arguments(argument, top, delimiters)
        argc == r.word[r.esp + 4]
        argv == r.word[r.esp + 8]
        runs == S!MaximalRuns(argument, delimiters)
        token(i) == CHOOSE t \in runs : Cardinality({z \in runs : z[1] <= t[1]}) = i
    IN /\ r.esp % 16 = 12 /\ r.word[r.esp] = 0
       /\ argc = Cardinality(runs) /\ r.word[argv + 4 * argc] = 0
       /\ \A a \in DOMAIN r.word : a % 4 = 0 /\ a >= r.esp /\ a + 4 <= r.string
       /\ \A i \in 1 .. argc :
             S!StringAt(r.chars, r.word[argv + 4 * (i - 1)] - r.string + 1)
             = SubSeq(argument, token(i)[1], token(i)[2])

(* The longest argument, cut into as many tokens as there can be, fits in  *)
(* the one page of the stack.                                              *)
ArgumentsFit(top, pgsize) ==
    \A n \in 1 .. max_argument_length - 1 : StackLayout(n, n \div 2, top).main >= top - pgsize
-----------------------------------------------------------------------------
(* System calls.  x is a process: x.mem is what each address holds,        *)
(* x.present and x.writable are sets of pages, x.pgsize and x.base the     *)
(* page size and PHYS_BASE, x.word the size of an argument.                *)
Page(x, a) == a \div x.pgsize
is_user_page_present(x, page, check_writable) ==
    page \in IF check_writable THEN x.writable ELSE x.present

(* Mutant: only the first page is checked.                                 *)
check_valid_pointer_first(x, pointer, size, check_writable) ==
    /\ pointer # 0 /\ pointer < x.base /\ size <= x.base - pointer
    /\ is_user_page_present(x, Page(x, pointer), check_writable)

(* check_valid_pointer() returns; otherwise the process is terminated.     *)
check_valid_pointer(x, pointer, size, check_writable) ==
    /\ pointer # 0 /\ pointer < x.base /\ size <= x.base - pointer
    /\ \A page \in Page(x, pointer) .. Page(x, pointer + size - 1) :
          is_user_page_present(x, page, check_writable)

(* The loop of check_valid_string(): the addresses it reads, and whether   *)
(* it gets to the end.                                                     *)
RECURSIVE ReadString(_, _, _)
ReadString(x, string, last_page) ==
    IF last_page # Page(x, string) /\ ~check_valid_pointer(x, string, 1, FALSE)
    THEN [ok |-> FALSE, reads |-> {}]
    ELSE IF x.mem[string] = 0 THEN [ok |-> TRUE, reads |-> {string}]
    ELSE LET rest == ReadString(x, string + 1, Page(x, string))
         IN [ok |-> rest.ok, reads |-> {string} \cup rest.reads]

Cells(p, n) == p .. p + n - 1
check_valid_string(x, pointer) ==
    IF ~check_valid_pointer(x, pointer, x.word, FALSE) THEN [ok |-> FALSE, reads |-> {}]
    ELSE LET r == ReadString(x, x.mem[pointer], -1)
         IN [ok |-> r.ok, reads |-> Cells(pointer, x.word) \cup r.reads]

(* What syscall_handler() checks of each argument, by system call.         *)
Arguments ==
    [practice |-> <<"word">>, halt |-> <<>>, exit |-> <<"word">>, exec |-> <<"string">>,
     wait |-> <<"word">>, create |-> <<"string", "word">>, remove |-> <<"string">>,
     open |-> <<"string">>, filesize |-> <<"word">>, read |-> <<"word", "word", "word">>,
     write |-> <<"word", "word", "word">>, seek |-> <<"word", "word">>, tell |-> <<"word">>,
     close |-> <<"word">>]

(* syscall_handler(): whether the call is made, the addresses read before, *)
(* and the buffer the call uses.                                           *)
syscall_handler(x, args, call) ==
    LET arg(i) == args + x.word * i
        Check(i) == IF Arguments[call][i] = "string" THEN check_valid_string(x, arg(i))
                    ELSE IF check_valid_pointer(x, arg(i), x.word, FALSE)
                    THEN [ok |-> TRUE, reads |-> Cells(arg(i), x.word)]
                    ELSE [ok |-> FALSE, reads |-> {}]
        number == check_valid_pointer(x, args, x.word, FALSE)
        n == IF call \in DOMAIN Arguments THEN Len(Arguments[call]) ELSE 0
        made(i) == number /\ \A j \in 1 .. i - 1 : Check(j).ok
        reads == UNION {Check(i).reads : i \in {j \in 1 .. n : made(j)}}
        buffered == call \in {"read", "write"} /\ made(n + 1)
        buffer == check_valid_pointer(x, x.mem[arg(2)], x.mem[arg(3)], call = "read")
    IN [ok |-> call \in DOMAIN Arguments /\ made(n + 1) /\ (buffered => buffer),
        reads |-> (IF number THEN Cells(args, x.word) ELSE {}) \cup reads,
        buffer |-> IF buffered /\ buffer THEN Cells(x.mem[arg(2)], x.mem[arg(3)]) ELSE {}]

(* The kernel reads and writes only addresses of the process that are      *)
(* there, and writable where it writes, however its words and buffers lie  *)
(* across pages; a call whose memory is all there is not refused.          *)
AccessesChecked(x, args, call) ==
    LET r == syscall_handler(x, args, call)
        Present(A) == \A a \in A : a < x.base /\ Page(x, a) \in x.present
        Writable(A) == \A a \in A : Page(x, a) \in x.writable
        known == call \in DOMAIN Arguments
        words == Cells(args, x.word * (1 + IF known THEN Len(Arguments[call]) ELSE 0))
    IN /\ Present(r.reads) /\ Present(r.buffer)
       /\ call = "read" => Writable(r.buffer)
       /\ (known /\ ToSet(Arguments[call]) \subseteq {"word"}
           /\ call \notin {"read", "write"} /\ args # 0 /\ Present(words)) => r.ok
       /\ (call \in {"read", "write"} /\ args # 0 /\ Present(words) /\ ~r.ok) =>
             LET buffer == x.mem[args + 2 * x.word]
                 size == x.mem[args + 3 * x.word]
             IN \/ buffer = 0 \/ size = 0 \/ ~Present(Cells(buffer, size))
                \/ call = "read" /\ ~Writable(Cells(buffer, size))
=============================================================================
