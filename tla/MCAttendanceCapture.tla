------------------------ MODULE MCAttendanceCapture ------------------------
(* Bounded instances of AttendanceCapture. *)
EXTENDS AttendanceCapture
=============================================================================
