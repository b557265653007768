-------------------------- MODULE SchoolWorkflows --------------------------
(***************************************************************************)
(* The workflows of a school side by side.  They share no state, so that a *)
(* behaviour of the school interleaves one behaviour of each.              *)
(*                                                                         *)
(* WorkflowSpec is the school in which a single workflow goes on and the   *)
(* others wait where they begin, which is enough to check each of them.    *)
(***************************************************************************)
EXTENDS Departure, TransportDuty, FeeLedger, CampusEvent, SchoolNotice, StaffCover,
        SchoolTimetable, SessionRegister

schoolVars == <<dvars, tvars, fvars, evars, nvars, scvars, ttvars, sessions>>

SchoolInit ==
    /\ Init /\ DutyInit /\ FeeInit /\ EventInit
    /\ NoticeInit /\ StaffInit /\ TimetableInit /\ SessionInit

DepartureStep ==
    UNCHANGED <<tvars, fvars, evars, nvars, scvars, ttvars, sessions>> /\ Next
DutyStep ==
    UNCHANGED <<dvars, fvars, evars, nvars, scvars, ttvars, sessions>> /\ DutyNext
FeeStep ==
    UNCHANGED <<dvars, tvars, evars, nvars, scvars, ttvars, sessions>> /\ FeeNext
EventStep ==
    UNCHANGED <<dvars, tvars, fvars, nvars, scvars, ttvars, sessions>> /\ EventNext
NoticeStep ==
    UNCHANGED <<dvars, tvars, fvars, evars, scvars, ttvars, sessions>> /\ NoticeNext
StaffStep ==
    UNCHANGED <<dvars, tvars, fvars, evars, nvars, ttvars, sessions>> /\ StaffNext
TimetableStep ==
    UNCHANGED <<dvars, tvars, fvars, evars, nvars, scvars, sessions>> /\ TimetableNext
LessonStep ==
    UNCHANGED <<dvars, tvars, fvars, evars, nvars, scvars, ttvars>> /\ SessionNext

SchoolNext ==
    \/ DepartureStep \/ DutyStep \/ FeeStep \/ EventStep
    \/ NoticeStep \/ StaffStep \/ TimetableStep \/ LessonStep

SchoolSpec == SchoolInit /\ [][SchoolNext]_schoolVars

-----------------------------------------------------------------------------
(* One workflow at a time.                                                 *)

VARIABLE part           \* the workflow that goes on

WorkflowVars == <<part, schoolVars>>

Workflow == {"departure", "duty", "fee", "event", "notice", "staff", "timetable", "lesson"}

WorkflowInit ==
    /\ part \in Workflow
    /\ SchoolInit
    /\ part # "lesson" => class = {}
    /\ part # "event" => event.terms = CHOOSE t \in Terms : TRUE

WorkflowNext ==
    /\ UNCHANGED part
    /\ \/ part = "departure" /\ DepartureStep
       \/ part = "duty" /\ DutyStep
       \/ part = "fee" /\ FeeStep
       \/ part = "event" /\ EventStep
       \/ part = "notice" /\ NoticeStep
       \/ part = "staff" /\ StaffStep
       \/ part = "timetable" /\ TimetableStep
       \/ part = "lesson" /\ LessonStep

WorkflowSpec == WorkflowInit /\ [][WorkflowNext]_WorkflowVars

(* The states of each workflow are of their types. *)
WorkflowTypeOK ==
    /\ part \in Workflow
    /\ part = "departure" => TypeOK
    /\ part = "duty" => DutyTypeOK
    /\ part = "fee" => FeeTypeOK
    /\ part = "event" => EventTypeOK
    /\ part = "notice" => NoticeTypeOK
    /\ part = "staff" => StaffTypeOK
    /\ part = "timetable" => TimetableTypeOK
    /\ part = "lesson" => SessionTypeOK
=============================================================================
