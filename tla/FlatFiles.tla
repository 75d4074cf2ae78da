----------------------------- MODULE FlatFiles -----------------------------
(***************************************************************************)
(* What the file system promises: names lead to objects, objects are       *)
(* sequences of bytes of fixed length.  An object that has lost its name   *)
(* lasts until it is forgotten.                                            *)
(***************************************************************************)
EXTENDS Integers, Sequences

CONSTANTS Name, Object, Sizes, Buffers, Null
VARIABLES names, content

Init ==
    /\ names \in [Name -> Object \cup {Null}]
    /\ \A o \in Object : content[o] # Null <=> \E n \in Name : names[n] = o

Create(n, o, size) ==
    /\ names[n] = Null /\ content[o] = Null
    /\ names' = [names EXCEPT ![n] = o]
    /\ content' = [content EXCEPT ![o] = [i \in 1 .. size |-> 0]]

(* The object goes with its last name, or later.                           *)
Remove(n) ==
    /\ names[n] # Null
    /\ names' = [names EXCEPT ![n] = Null]
    /\ content' \in {content, [content EXCEPT ![names[n]] = Null]}

(* The bytes from first on are overwritten, as far as the object goes.     *)
Write(o, first, bytes) ==
    /\ content' = [content EXCEPT ![o] = [i \in 1 .. Len(@) |->
                       IF i \in first + 1 .. first + Len(bytes) THEN bytes[i - first] ELSE @[i]]]
    /\ UNCHANGED names

(* Objects without a name are forgotten.                                   *)
Forget ==
    /\ \E gone \in SUBSET {o \in Object : content[o] # Null /\ \A n \in Name : names[n] # o} :
            content' = [o \in Object |-> IF o \in gone THEN Null ELSE content[o]]
    /\ UNCHANGED names

Next ==
    \/ \E n \in Name, o \in Object, size \in Sizes : Create(n, o, size)
    \/ \E n \in Name : Remove(n)
    \/ \E o \in {x \in Object : content[x] # Null}, bytes \in Buffers :
          \E first \in 0 .. Len(content[o]) : Write(o, first, bytes)
    \/ Forget

Spec == Init /\ [][Next]_<<names, content>>
=============================================================================
