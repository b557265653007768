--------------------------- MODULE MCEventStream ---------------------------
(* Small instances of EventStream.                                         *)
EXTENDS EventStream, TLC

CONSTANT Private        \* events that are for nobody here

audience == [e \in Event |-> IF e \in Private THEN {} ELSE Client]

(* Events differ only in their audience. *)
symmetry == Permutations(Event \ Private)

(* What is claimed of streams is claimed until their recoveries cross. *)
Uncrossed == crossed = {}
=============================================================================
