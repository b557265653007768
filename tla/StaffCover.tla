----------------------------- MODULE StaffCover -----------------------------
(***************************************************************************)
(* Leave of the staff, the duties it leaves uncovered, and who covers      *)
(* them.  A request is for one day, and the duties are those of one hour.  *)
(*                                                                         *)
(* Asking for leave holds a lock of its own for each member of staff.  A   *)
(* decision locks the request and an assignment the cover task, and both   *)
(* read everything else without a lock before they write: each is two      *)
(* steps.  Deadlines are reconciled every minute, past what is locked.     *)
(***************************************************************************)
EXTENDS Naturals, FiniteSets

CONSTANTS
    Staff, Day,
    Today,          \* the day of the duties
    Duty,           \* timetabled classes and responsibilities
    Class,          \* those that are timetabled
    Owner,          \* whose duty
    Unassigned,
    MaxDays         \* bound: days of leave a year allows

ASSUME DutyAssumption ==
    /\ Class \subseteq Duty
    /\ Owner \in [Duty -> Staff] /\ Today \in Day /\ Unassigned \notin Staff
    /\ IsFiniteSet(Day)
ASSUME MaxDaysAssumption == MaxDays \in Nat

VARIABLES
    leave,          \* staff_leave_requests; "deciding" while an approval is under way
    entitled,       \* annual_allowance and adjustments
    most,           \* history: the most anyone was entitled to
    held,           \* staff_responsibility_assignments.status; classes are active
    cover,          \* staff_coverage_tasks: status and replacement
    chosen,         \* the replacement an assignment under way has checked
    hour,           \* before the deadline, past it, over
    enabled         \* staff_coverage_policies.enabled

scvars == <<leave, entitled, most, held, cover, chosen, hour, enabled>>

NoCover == [status |-> "none", by |-> Unassigned]

StaffInit ==
    /\ leave = [s \in Staff |-> [d \in Day |-> "none"]]
    /\ entitled = [s \in Staff |-> 0]
    /\ most = [s \in Staff |-> 0]
    /\ held = [t \in Duty |-> IF t \in Class THEN "active" ELSE "none"]
    /\ cover = [t \in Duty |-> NoCover]
    /\ chosen = [t \in Duty |-> Unassigned]
    /\ hour = "before"
    /\ enabled = FALSE

DaysOf(s, states) == Cardinality({d \in Day : leave[s][d] \in states})

-----------------------------------------------------------------------------
(* Leave.                                                                  *)

(* adjustBalance and savePolicy. *)
Entitle(s, n) ==
    /\ n # entitled[s]
    /\ entitled' = [entitled EXCEPT ![s] = n]
    /\ most' = [most EXCEPT ![s] = IF n > @ THEN n ELSE @]
    /\ UNCHANGED <<leave, held, cover, chosen, hour, enabled>>

SetLeave(s, d, status) == leave' = [leave EXCEPT ![s][d] = status]

(* Mutant: requests that wait for a decision are not counted. *)
RequestLeaveUncounted(s, d) ==
    /\ leave[s][d] = "none"
    /\ DaysOf(s, {"approved"}) < entitled[s]
    /\ SetLeave(s, d, "submitted")
    /\ UNCHANGED <<entitled, most, held, cover, chosen, hour, enabled>>

RequestLeave(s, d) ==
    /\ leave[s][d] = "none"
    /\ DaysOf(s, {"approved", "submitted", "deciding"}) < entitled[s]
    /\ SetLeave(s, d, "submitted")
    /\ UNCHANGED <<entitled, most, held, cover, chosen, hour, enabled>>

(* withdrawLeave, and decideLeave that rejects. *)
EndLeaveRequest(s, d) ==
    /\ leave[s][d] = "submitted"
    /\ SetLeave(s, d, "none")
    /\ UNCHANGED <<entitled, most, held, cover, chosen, hour, enabled>>

CheckLeave(s, d) ==
    /\ leave[s][d] = "submitted"
    /\ DaysOf(s, {"approved"}) < entitled[s]
    /\ SetLeave(s, d, "deciding")
    /\ UNCHANGED <<entitled, most, held, cover, chosen, hour, enabled>>

(* The duties held at this moment get a task; what was to be covered by    *)
(* the one who leaves is not looked at.                                    *)
ApproveLeave(s, d) ==
    /\ leave[s][d] = "deciding"
    /\ SetLeave(s, d, "approved")
    /\ cover' = [t \in Duty |->
            IF Owner[t] = s /\ d = Today /\ held[t] = "active" /\ cover[t].status = "none"
            THEN [NoCover EXCEPT !.status = "open"] ELSE cover[t]]
    /\ UNCHANGED <<entitled, most, held, chosen, hour, enabled>>

-----------------------------------------------------------------------------
(* Responsibilities: createResponsibility, respondResponsibility,          *)
(* revokeResponsibility.                                                   *)

Hold(t, from, to) ==
    /\ t \notin Class /\ held[t] \in from
    /\ held' = [held EXCEPT ![t] = to]
    /\ UNCHANGED <<leave, entitled, most, cover, chosen, hour, enabled>>

CreateResponsibility(t) == \E to \in {"offered", "active"} : Hold(t, {"none"}, to)
RespondResponsibility(t) == \E to \in {"none", "active"} : Hold(t, {"offered"}, to)
RevokeResponsibility(t) == Hold(t, {"offered", "active"}, "none")

-----------------------------------------------------------------------------
(* Cover.                                                                  *)

Undecided == {"open", "offered", "declined"}
Covers(s, t) == cover[t].by = s /\ cover[t].status \in {"offered", "accepted"}
RowIsFree(t) == chosen[t] = Unassigned

(* Mutant: the one on leave may be asked to cover the duty. *)
CheckReplacementOfAnyone(t, s) ==
    /\ cover[t].status \in Undecided /\ RowIsFree(t)
    /\ \A u \in Duty \ {t} : ~Covers(s, u) /\ (u \in Class => Owner[u] # s)
    /\ chosen' = [chosen EXCEPT ![t] = s]
    /\ UNCHANGED <<leave, entitled, most, held, cover, hour, enabled>>

(* The replacement is there that day, teaches nothing and covers nothing   *)
(* at that time.                                                           *)
CheckReplacement(t, s) ==
    /\ cover[t].status \in Undecided /\ RowIsFree(t)
    /\ s # Owner[t]
    /\ leave[s][Today] # "approved"
    /\ \A u \in Duty \ {t} : ~Covers(s, u) /\ (u \in Class => Owner[u] # s)
    /\ chosen' = [chosen EXCEPT ![t] = s]
    /\ UNCHANGED <<leave, entitled, most, held, cover, hour, enabled>>

OfferCover(t) ==
    /\ ~RowIsFree(t)
    /\ cover' = [cover EXCEPT ![t] = [status |-> "offered", by |-> chosen[t]]]
    /\ chosen' = [chosen EXCEPT ![t] = Unassigned]
    /\ UNCHANGED <<leave, entitled, most, held, hour, enabled>>

RespondCover(t, status) ==
    /\ cover[t].status = "offered" /\ RowIsFree(t)
    /\ cover' = [cover EXCEPT ![t].status = status]
    /\ UNCHANGED <<leave, entitled, most, held, chosen, hour, enabled>>

(* Mutant: a task somebody has locked is taken as it was read. *)
DueThoughLocked(t) ==
    /\ cover[t].status \in Undecided
    /\ hour = "over" \/ (enabled /\ hour = "deadline")

Due(t) ==
    /\ cover[t].status \in Undecided /\ RowIsFree(t)
    /\ hour = "over" \/ (enabled /\ hour = "deadline")

(* The school's fallback, or a period that ended without a decision.       *)
ReconcileCover ==
    /\ \E t \in Duty : Due(t)
    /\ cover' = [t \in Duty |-> IF ~Due(t) THEN cover[t]
                    ELSE [cover[t] EXCEPT !.status = IF enabled THEN "fallback" ELSE "expired"]]
    /\ UNCHANGED <<leave, entitled, most, held, chosen, hour, enabled>>

(* saveCoveragePolicy; it reconciles afterwards. *)
SetCoverPolicy ==
    /\ enabled' = ~enabled
    /\ UNCHANGED <<leave, entitled, most, held, cover, chosen, hour>>

CoverClock ==
    /\ hour # "over"
    /\ hour' = IF hour = "before" THEN "deadline" ELSE "over"
    /\ UNCHANGED <<leave, entitled, most, held, cover, chosen, enabled>>

-----------------------------------------------------------------------------

StaffNext ==
    \/ \E s \in Staff :
            \/ \E n \in 0..MaxDays : Entitle(s, n)
            \/ \E d \in Day : RequestLeave(s, d) \/ EndLeaveRequest(s, d)
                                \/ CheckLeave(s, d) \/ ApproveLeave(s, d)
            \/ \E t \in Duty : CheckReplacement(t, s)
    \/ \E t \in Duty :
            \/ CreateResponsibility(t) \/ RespondResponsibility(t) \/ RevokeResponsibility(t)
            \/ OfferCover(t) \/ \E status \in {"accepted", "declined"} : RespondCover(t, status)
    \/ ReconcileCover \/ SetCoverPolicy \/ CoverClock

StaffSpec == StaffInit /\ [][StaffNext]_scvars

-----------------------------------------------------------------------------

(* Requests, entitlements, duties and tasks have their types; a task has a *)
(* replacement once it was offered.                                        *)
StaffTypeOK ==
    /\ leave \in [Staff -> [Day -> {"none", "submitted", "deciding", "approved"}]]
    /\ entitled \in [Staff -> Nat] /\ most \in [Staff -> Nat]
    /\ held \in [Duty -> {"none", "offered", "active"}]
    /\ cover \in [Duty -> [status : Undecided \union {"none", "accepted", "fallback", "expired"},
                           by : Staff \union {Unassigned}]]
    /\ \A t \in Duty : cover[t].status \in {"offered", "accepted", "declined"} =>
            cover[t].by \in Staff \ {Owner[t]}
    /\ chosen \in [Duty -> Staff \union {Unassigned}]
    /\ hour \in {"before", "deadline", "over"}
    /\ enabled \in BOOLEAN

(* Nobody is approved more leave than they were ever entitled to, though   *)
(* two approvals may each read the balance before the other is written.    *)
LeaveWasAffordable == \A s \in Staff : DaysOf(s, {"approved"}) <= most[s]

(* A decided cover stands - accepted by the one it was offered to, the     *)
(* fallback, or expired - whatever deadline, answer or assignment arrives  *)
(* late; and it is for an absence.                                         *)
DecidedCoverStands ==
    [][\A t \in Duty :
        /\ cover[t].status \in {"accepted", "fallback", "expired"} => cover'[t] = cover[t]
        /\ cover'[t].status = "accepted" /\ cover'[t] # cover[t] =>
                Covers(cover'[t].by, t) /\ leave[Owner[t]][Today] = "approved"]_scvars
=============================================================================
