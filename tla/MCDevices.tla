----------------------------- MODULE MCDevices -----------------------------
(***************************************************************************)
(* Instances of the two devices, which share no state: a behaviour         *)
(* exercises one of them, and the other stays as it is.                    *)
(***************************************************************************)
EXTENDS Ide, Terminal

CONSTANTS t1, t2, t3, t4

VARIABLE part

deviceVars == <<part, terminalVars, vars>>

(* Two disks; the second sector of the first is a partition.               *)
MCDevice == {"hda", "hda1", "hdb"}
MCDisk == [hda |-> 0, hda1 |-> 0, hdb |-> 1]
MCStart == [hda |-> 0, hda1 |-> 1, hdb |-> 0]
MCSize == [hda |-> 2, hda1 |-> 1, hdb |-> 1]
MCType == [hda |-> "raw", hda1 |-> "filesys", hdb |-> "foreign"]

DevicesInit ==
    /\ part \in {"terminal", "disk"}
    /\ TerminalInit /\ Init
    /\ part # "disk" => \A d \in {0, 1}, s \in {0, 1} : sector[d][s] = 0
DevicesNext ==
    /\ UNCHANGED part
    /\ \/ part = "terminal" /\ TerminalNext /\ UNCHANGED vars
       \/ part = "disk" /\ Next /\ UNCHANGED terminalVars

(* In the part that is not exercised nothing is enabled that the fairness  *)
(* asks for.                                                               *)
DevicesSpec == DevicesInit /\ [][DevicesNext]_deviceVars /\ TerminalFairness /\ Fairness
-----------------------------------------------------------------------------
(* serial.c, input.c, ide.c: what is written is sent, what is typed is     *)
(* read, and a request to a disk is done at last, unless the machine       *)
(* panics.                                                                 *)
WaitersServed == BytesArrive /\ RequestsDone
=============================================================================
