-------------------------- MODULE VersionedRecord --------------------------
(***************************************************************************)
(* What a class register promises to whoever reads it with a revision: the *)
(* marks under one revision never change, every change takes the next      *)
(* revision, and while the register is frozen nobody changes the marks.    *)
(***************************************************************************)
EXTENDS Naturals

CONSTANT Content          \* what a register may say

VARIABLES
    version,              \* revision of the register, 0 before its first write
    content,              \* the marks in force
    frozen                \* TRUE while the register is finalized

vars == <<version, content, frozen>>

Init == version = 0 /\ content \in Content /\ ~frozen

Write ==
    /\ ~frozen
    /\ version' = version + 1
    /\ content' \in Content
    /\ UNCHANGED frozen

Finalize == ~frozen /\ frozen' /\ version' = version + 1 /\ UNCHANGED content

Reopen == frozen /\ ~frozen' /\ version' = version + 1 /\ UNCHANGED content

Next == Write \/ Finalize \/ Reopen

Spec == Init /\ [][Next]_vars
=============================================================================
