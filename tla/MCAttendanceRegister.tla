------------------------ MODULE MCAttendanceRegister ------------------------
(***************************************************************************)
(* An instance of AttendanceRegister for TLC.                              *)
(***************************************************************************)
EXTENDS AttendanceRegister, TLC

Symmetry == Permutations(Student)
=============================================================================
