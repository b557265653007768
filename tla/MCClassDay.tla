----------------------------- MODULE MCClassDay -----------------------------
(***************************************************************************)
(* A class on one date, where two of a kind meet: two sessions of the      *)
(* staff save its register, or two teachers answer for its hours.  The     *)
(* register and the timetable share no state; a behaviour is one of them.  *)
(***************************************************************************)
EXTENDS AttendanceRegister, SchoolTimetable, TLC

VARIABLE topic          \* what the behaviour is about

dayVars == <<topic, vars, ttvars>>

DayInit ==
    /\ topic \in {"register", "timetable"}
    /\ Init /\ TimetableInit
    /\ topic = "timetable" => enrolled = {}

DayNext ==
    /\ UNCHANGED topic
    /\ \/ topic = "register" /\ UNCHANGED ttvars /\ Next
       \/ topic = "timetable" /\ UNCHANGED vars /\ TimetableNext

DaySpec == DayInit /\ [][DayNext]_dayVars

(* Sessions and classes share the two values that may be exchanged.        *)
DaySymmetry == Permutations(User \union Section) \union Permutations(Teacher)
=============================================================================
