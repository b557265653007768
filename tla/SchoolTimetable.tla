-------------------------- MODULE SchoolTimetable --------------------------
(***************************************************************************)
(* Who teaches a class in one hour of one date: the weekly slots, a dated  *)
(* timetable over them, the plan of the day over both, and closures, which *)
(* hide all three (effective_school_schedule).  A teacher stands for a     *)
(* room too: both are refused twice in an hour.                            *)
(*                                                                         *)
(* Every command runs under the schedule lock of its school, so that each  *)
(* is one step; a stale revision or a retried key changes nothing.  The    *)
(* model ends with the date: then its plans are read-only.                 *)
(***************************************************************************)
EXTENDS Naturals, FiniteSets

CONSTANTS
    Section,        \* class_sections
    Teacher,        \* teachers, and rooms
    NoTeacher, NoPeriod, Cancelled,
    Legacy, None,
    MaxTimetables,  \* bound: classes with a dated timetable
    MaxDrafts       \* bound: drafts that are open together

Weekly == Teacher \union {NoTeacher, NoPeriod}
Daily == Weekly \union {Cancelled}
Answer == {"not_required", "unassigned", "pending", "accepted", "declined"}

ASSUME DraftsAssumption == IsFiniteSet(Section) /\ {MaxTimetables, MaxDrafts} \subseteq Nat
ASSUME PeriodAssumption ==
    /\ {NoTeacher, NoPeriod, Cancelled} \intersect Teacher = {}
    /\ {Legacy, None} \intersect (Teacher \union {NoTeacher, NoPeriod, Cancelled}) = {}
    /\ NoTeacher # NoPeriod /\ NoTeacher # Cancelled /\ NoPeriod # Cancelled
    /\ None \notin [who : Daily, answer : Answer]

VARIABLES
    weekly,         \* timetable_slots
    dated,          \* the period of the published schedule_versions, Legacy without one
    drafted,        \* the draft of schedule_versions
    dayPlan,        \* the published version of day_plans
    redraft,        \* its draft, with the schedule it was based on
    closure,        \* school_calendar_days: not instructional
    moved,          \* history: the schedule was changed while the date was closed
    begun           \* the hour has begun

ttvars == <<weekly, dated, drafted, dayPlan, redraft, closure, moved, begun>>

TimetableInit ==
    /\ weekly = [c \in Section |-> NoPeriod]
    /\ dated = [c \in Section |-> Legacy]
    /\ drafted = [c \in Section |-> None]
    /\ dayPlan = [c \in Section |-> None]
    /\ redraft = [c \in Section |-> None]
    /\ closure = FALSE
    /\ moved = FALSE
    /\ begun = FALSE

(* The pattern that repeats, and what it comes to on the date. *)
Pattern(c) == IF dated[c] = Legacy THEN weekly[c] ELSE dated[c]

WhenOpen(c) == IF dayPlan[c] = None THEN Pattern(c) ELSE dayPlan[c].who

Effective(c) == IF closure THEN NoPeriod ELSE WhenOpen(c)

(* scheduleConflicts of a period of the class with the other classes. *)
Conflicts(c, who) == who \in Teacher /\ \E d \in Section \ {c} : Effective(d) = who

Clashes(c) == WhenOpen(c) \in Teacher /\ \E d \in Section \ {c} : WhenOpen(d) = WhenOpen(c)

-----------------------------------------------------------------------------
(* The weekly slots of classes that have no dated timetable.               *)

requireLegacyTimetable(c) == dated[c] = Legacy

(* Only the slots of other classes are looked at, not what is effective. *)
SlotIsFree(c, who) == who \in Teacher => \A d \in Section \ {c} : weekly[d] # who

(* Mutant: checked before the edit is written. *)
protectPlansBefore == \A c \in Section : dayPlan[c] # None => ~Conflicts(c, Effective(c))

(* The plans in force as they would look after the edit. *)
protectPublishedPlans ==
    \A c \in Section : dayPlan[c] # None => ~Conflicts(c, Effective(c))'

EditWeekly(edited) ==
    /\ weekly' = edited
    /\ UNCHANGED <<dated, drafted, dayPlan, redraft, closure, begun>>
    /\ protectPublishedPlans
    /\ moved' = closure

CreateTimetableSlot(c, who) ==
    /\ requireLegacyTimetable(c)
    /\ weekly[c] = NoPeriod /\ who # NoPeriod
    /\ SlotIsFree(c, who)
    /\ EditWeekly([weekly EXCEPT ![c] = who])

(* A slot keeps its class or moves to another class in the same hour. *)
UpdateTimetableSlot(c, d, who) ==
    /\ requireLegacyTimetable(c) /\ requireLegacyTimetable(d)
    /\ weekly[c] # NoPeriod /\ who # NoPeriod
    /\ d # c => weekly[d] = NoPeriod
    /\ who \in Teacher => \A o \in Section \ {c} : weekly[o] # who
    /\ EditWeekly([weekly EXCEPT ![c] = NoPeriod, ![d] = who])

DeleteTimetableSlot(c) ==
    /\ requireLegacyTimetable(c)
    /\ weekly[c] # NoPeriod
    /\ EditWeekly([weekly EXCEPT ![c] = NoPeriod])

(* The periods of another weekday, in place of what the class has. *)
CopyTimetableDay(c, who) ==
    /\ requireLegacyTimetable(c)
    /\ SlotIsFree(c, who)
    /\ EditWeekly([weekly EXCEPT ![c] = who])

-----------------------------------------------------------------------------
(* Dated timetables (SchedulePlanningService).                             *)

Drafts ==
    Cardinality({c \in Section : drafted[c] # None})
        + Cardinality({c \in Section : redraft[c] # None})

StartTimetable(c) ==
    /\ Drafts < MaxDrafts
    /\ Cardinality({d \in Section \ {c} : dated[d] # Legacy}) < MaxTimetables
    /\ drafted[c] = None
    /\ drafted' = [drafted EXCEPT ![c] = Pattern(c)]
    /\ UNCHANGED <<weekly, dated, dayPlan, redraft, closure, moved, begun>>

SaveTimetable(c, who) ==
    /\ drafted[c] # None
    /\ drafted' = [drafted EXCEPT ![c] = who]
    /\ UNCHANGED <<weekly, dated, dayPlan, redraft, closure, moved, begun>>

DiscardTimetable(c) ==
    /\ drafted[c] # None
    /\ drafted' = [drafted EXCEPT ![c] = None]
    /\ UNCHANGED <<weekly, dated, dayPlan, redraft, closure, moved, begun>>

(* A timetable starts after today, so that it covers this date only while  *)
(* that is ahead (the model allows it until the hour begins); of its other *)
(* dates nothing is modelled.  The first publication freezes the weekly    *)
(* slots as the baseline.  Clashes of the class are looked for in what is  *)
(* effective after it, where it applies.                                   *)
PublishTimetable(c, covers) ==
    /\ drafted[c] # None
    /\ covers => ~begun
    /\ drafted[c] # NoTeacher
    /\ dated' = [dated EXCEPT ![c] = IF covers THEN drafted[c] ELSE Pattern(c)]
    /\ drafted' = [drafted EXCEPT ![c] = None]
    /\ moved' = (moved \/ (closure /\ covers))
    /\ UNCHANGED <<weekly, dayPlan, redraft, closure, begun>>
    /\ covers => ~Conflicts(c, Effective(c))'

-----------------------------------------------------------------------------
(* The plan of the day (DayPlanService).                                   *)

StartPlan(c) ==
    /\ Drafts < MaxDrafts
    /\ redraft[c] = None
    /\ redraft' = [redraft EXCEPT ![c] = [who |-> Effective(c), baseline |-> Effective(c)]]
    /\ UNCHANGED <<weekly, dated, drafted, dayPlan, closure, moved, begun>>

(* Mutant: the hour can still be cancelled. *)
guardStartedTeaching(c, who) == begun /\ who \in Teacher => who = Effective(c)

(* An hour that has begun can only be kept as it is. *)
guardStarted(c, who) == begun => who = Effective(c)

SavePlan(c, who) ==
    /\ redraft[c] # None
    /\ guardStarted(c, who)
    /\ redraft' = [redraft EXCEPT ![c].who = who]
    /\ UNCHANGED <<weekly, dated, drafted, dayPlan, closure, moved, begun>>

DiscardPlan(c) ==
    /\ redraft[c] # None
    /\ redraft' = [redraft EXCEPT ![c] = None]
    /\ UNCHANGED <<weekly, dated, drafted, dayPlan, closure, moved, begun>>

(* What the plan in force says of a teacher whose period stays as it was. *)
StoredAnswer(c) ==
    IF dayPlan[c] = None \/ dayPlan[c].who = NoPeriod THEN "not_required" ELSE dayPlan[c].answer

(* Mutant: the answer is kept for whoever has the hour now. *)
AnswerKept(c, who) ==
    CASE who \in {Cancelled, NoPeriod} -> "not_required"
      [] who = NoTeacher -> "unassigned"
      [] who \in Teacher -> StoredAnswer(c)

(* Only a period that stays as it was keeps its answer. *)
AnswerNeeded(c, who) ==
    CASE who \in {Cancelled, NoPeriod} -> "not_required"
      [] who = NoTeacher -> "unassigned"
      [] who \in Teacher /\ who = Effective(c) -> StoredAnswer(c)
      [] OTHER -> "pending"

PublishPlan(c) ==
    /\ redraft[c] # None
    /\ LET who == redraft[c].who
       IN  /\ guardStarted(c, who)
           /\ closure => who \in {Cancelled, NoPeriod}
           /\ ~Conflicts(c, who)
           /\ redraft[c].baseline = Effective(c)
           /\ dayPlan' = [dayPlan EXCEPT ![c] = [who |-> who, answer |-> AnswerNeeded(c, who)]]
    /\ redraft' = [redraft EXCEPT ![c] = None]
    /\ UNCHANGED <<weekly, dated, drafted, closure, moved, begun>>

(* By the teacher until the hour is over, or recorded by the office.       *)
RespondToCover(c, answer) ==
    /\ dayPlan[c] # None
    /\ dayPlan[c].who \in Teacher /\ dayPlan[c].answer # "not_required"
    /\ answer # dayPlan[c].answer
    /\ dayPlan' = [dayPlan EXCEPT ![c].answer = answer]
    /\ UNCHANGED <<weekly, dated, drafted, redraft, closure, moved, begun>>

-----------------------------------------------------------------------------
(* The calendar and the clock.                                             *)

CreateSchoolClosure ==
    /\ ~closure
    /\ closure' = TRUE
    /\ UNCHANGED <<weekly, dated, drafted, dayPlan, redraft, moved, begun>>

DeleteSchoolClosure ==
    /\ closure
    /\ closure' = FALSE
    /\ UNCHANGED <<weekly, dated, drafted, dayPlan, redraft, moved, begun>>

HourBegins ==
    /\ ~begun /\ begun' = TRUE
    /\ UNCHANGED <<weekly, dated, drafted, dayPlan, redraft, closure, moved>>

TimetableNext ==
    \/ \E c \in Section, who \in Weekly :
          \/ CreateTimetableSlot(c, who) \/ CopyTimetableDay(c, who)
          \/ \E d \in Section : UpdateTimetableSlot(c, d, who)
          \/ SaveTimetable(c, who)
    \/ \E c \in Section :
          \/ DeleteTimetableSlot(c)
          \/ StartTimetable(c) \/ DiscardTimetable(c)
          \/ \E covers \in BOOLEAN : PublishTimetable(c, covers)
          \/ StartPlan(c) \/ DiscardPlan(c) \/ PublishPlan(c)
          \/ \E who \in Daily : SavePlan(c, who)
          \/ \E answer \in {"accepted", "declined"} : RespondToCover(c, answer)
    \/ CreateSchoolClosure \/ DeleteSchoolClosure \/ HourBegins

TimetableSpec == TimetableInit /\ [][TimetableNext]_ttvars

-----------------------------------------------------------------------------
(* Slots, timetables, plan versions and the recorded answers have their types. *)
TimetableTypeOK ==
    /\ weekly \in [Section -> Weekly]
    /\ dated \in [Section -> Weekly \union {Legacy}]
    /\ drafted \in [Section -> Weekly \union {None}]
    /\ dayPlan \in [Section -> [who : Daily, answer : Answer] \union {None}]
    /\ redraft \in [Section -> [who : Daily, baseline : Daily] \union {None}]
    /\ closure \in BOOLEAN /\ moved \in BOOLEAN /\ begun \in BOOLEAN

(* The comment on protectPublishedPlans: weekly edits cannot invalidate a  *)
(* published day plan.  No teacher (or room) of a plan in force is due in  *)
(* another class while the date is open.                                   *)
PublishedPlansStayValid ==
    ~closure => \A c \in Section : dayPlan[c] # None => ~Clashes(c)

(* What the code keeps to: so it is, unless the weekly slots or a dated    *)
(* timetable were changed while the date was closed; closing a date hides  *)
(* its plans from both checks, and opening it again checks nothing.        *)
PlansAreFree ==
    ~moved => \A c \in Section : dayPlan[c] # None => ~Clashes(c)

(* A teacher's answer is for this duty: a plan in force counts as accepted *)
(* or declined only if the plan before it gave the same teacher the hour,  *)
(* and the answer is new only if it was just given.                        *)
AnswerIsForThisDuty ==
    [][\A c \in Section :
         dayPlan'[c] # None /\ dayPlan'[c].answer \in {"accepted", "declined"} =>
            /\ dayPlan[c] # None
            /\ dayPlan[c].who = dayPlan'[c].who
            /\ dayPlan[c].answer = dayPlan'[c].answer \/ redraft' = redraft]_ttvars

(* A plan for an hour that has begun stays as it is, unless the date was   *)
(* closed meanwhile: guardStarted compares with what is effective, and on  *)
(* a closed date that is nothing.                                          *)
StartedPlansStand ==
    [][\A c \in Section : begun /\ ~closure /\ dayPlan[c] # None
          => dayPlan'[c].who = dayPlan[c].who]_ttvars
=============================================================================
