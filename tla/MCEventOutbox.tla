--------------------------- MODULE MCEventOutbox ---------------------------
(* Instances of EventOutbox small enough for TLC. *)
EXTENDS EventOutbox, TLC

TwoEvents == {1, 2}
ThreeEvents == {1, 2, 3}
FirstEvent == {1}

(* Instances differ only by name. *)
InstanceSymmetry == Permutations(Instance)
=============================================================================
