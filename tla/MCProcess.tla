----------------------------- MODULE MCProcess -----------------------------
(***************************************************************************)
(* Instances of module Process for TLC.                                    *)
(***************************************************************************)
EXTENDS Process
=============================================================================
