-------------------------- MODULE SessionRegister --------------------------
(***************************************************************************)
(* The attendance register of one lesson: what the staff save, the codes   *)
(* pupils scan to check themselves in, and when it becomes final.          *)
(*                                                                         *)
(* Saving, finalizing and reopening hold an advisory lock, under which     *)
(* they read the register without locking its row.  The timer and a        *)
(* check-in do not take that lock, so either may write between a call's    *)
(* read and its write; and a check-in writes the revision after the one it *)
(* read.                                                                   *)
(***************************************************************************)
EXTENDS Naturals

CONSTANTS
    Learner,
    Tab,                \* open screens of the staff
    NoTab,
    MaxSessionRevision  \* bound: writes of the register

ASSUME TabAssumption == NoTab \notin Tab
ASSUME SessionRevisionAssumption == MaxSessionRevision \in Nat

VARIABLES
    session,    \* attendance_session_registers: state, revision, auto_finalize_at
    entry,      \* attendance_session_entries.status
    evidence,   \* attendance_session_evidence.state of the check-ins
    class,      \* the enrolled
    screen,     \* what each tab shows
    call,       \* the call that holds the advisory lock
    scan,       \* the check-in of each learner
    crossed     \* history: a write fell between the read and the write of another

sessions == <<session, entry, evidence, class, screen, call, scan, crossed>>

Marks == {"present", "absent"}
NoMarks == [s \in Learner |-> "none"]
NoCall == [step |-> "none", tab |-> NoTab, revision |-> 0, roster |-> {}, before |-> NoMarks]
NoScan == [step |-> "none", revision |-> 0]

SessionInit ==
    /\ session = [state |-> "draft", revision |-> 0, auto |-> FALSE]
    /\ entry = NoMarks /\ evidence = NoMarks
    /\ class \in SUBSET Learner
    /\ screen = [t \in Tab |-> [revision |-> 0, marks |-> NoMarks]]
    /\ call = NoCall
    /\ scan = [s \in Learner |-> NoScan]
    /\ crossed = FALSE

Scanning(s) == scan[s].step # "none"

(* A write of the register crosses whoever else has read it.               *)
Crosses(others) == crossed' = (crossed \/ others)
WriteLesson(state, revision, auto) ==
    /\ revision <= MaxSessionRevision
    /\ session' = [state |-> state, revision |-> revision, auto |-> auto]

(* materialize has made the register; who is in the class may change.      *)
Enrol(s) ==
    /\ s \notin class
    /\ class' = class \union {s}
    /\ UNCHANGED <<session, entry, evidence, screen, call, scan, crossed>>

OpenScreen(t) ==
    /\ call.tab # t
    /\ screen' = [screen EXCEPT ![t] = [revision |-> session.revision, marks |-> entry]]
    /\ UNCHANGED <<session, entry, evidence, class, call, scan, crossed>>

-----------------------------------------------------------------------------
(* Under the advisory lock.                                                *)

Begin(step, t) ==
    /\ call = NoCall
    /\ call' = [NoCall EXCEPT !.step = step, !.tab = t, !.revision = session.revision]
    /\ UNCHANGED <<session, entry, evidence, class, screen, scan, crossed>>

(* Mutant: any screen may be saved. *)
BeginSaveOfAnyScreen(t) == session.state # "locked" /\ Begin("save", t)

BeginSave(t) ==
    /\ session.revision = screen[t].revision
    /\ session.state # "locked"
    /\ Begin("save", t)

BeginLock == session.state = "submitted" /\ Begin("lock", NoTab)
BeginReopen == session.state = "locked" /\ Begin("reopen", NoTab)

(* The roster and the marks the save will be compared with.                *)
ReadMarks ==
    /\ call.step = "save"
    /\ call' = [call EXCEPT !.step = "marks", !.roster = class, !.before = entry]
    /\ UNCHANGED <<session, entry, evidence, class, screen, scan, crossed>>

(* Every pupil of the roster has a record; those that differ from what was *)
(* read are inserted, or updated where a mark is by now.  The screen then  *)
(* shown is the one a tab opens.                                           *)
WriteSave(records) ==
    /\ call.step = "marks" /\ call.roster # {}
    /\ \E auto \in BOOLEAN : WriteLesson("submitted", call.revision + 1, auto)
    /\ entry' = [s \in Learner |-> IF s \in call.roster /\ call.before[s] # records[s]
                                  THEN records[s] ELSE entry[s]]
    /\ call' = NoCall
    /\ Crosses(\E s \in Learner : Scanning(s))
    /\ UNCHANGED <<evidence, class, screen, scan>>

(* setLock.                                                                *)
WriteLock ==
    /\ \/ call.step = "lock" /\ WriteLesson("locked", call.revision + 1, FALSE)
       \/ call.step = "reopen" /\ WriteLesson("submitted", call.revision + 1, FALSE)
    /\ call' = NoCall
    /\ Crosses(\E s \in Learner : Scanning(s))
    /\ UNCHANGED <<entry, evidence, class, screen, scan>>

(* A refusal, a deadlock with a check-in, a lost connection.               *)
AbandonCall ==
    /\ call # NoCall
    /\ call' = NoCall
    /\ UNCHANGED <<session, entry, evidence, class, screen, scan, crossed>>

-----------------------------------------------------------------------------
(* Without it.                                                             *)

(* finalizeDueAttendanceRegisters, when the time of the policy has come.   *)
FinalizeDue ==
    /\ session.state = "submitted" /\ session.auto
    /\ WriteLesson("locked", session.revision + 1, FALSE)
    /\ Crosses(call # NoCall \/ \E s \in Learner : Scanning(s))
    /\ UNCHANGED <<entry, evidence, class, screen, call, scan>>

(* selfCheckIn: the revision comes with the code, the mark is looked up    *)
(* after the policy and the enrollment.                                    *)
ReadCode(s) ==
    /\ s \in class /\ ~Scanning(s)
    /\ scan' = [scan EXCEPT ![s] = [NoScan EXCEPT !.step = "code", !.revision = session.revision]]
    /\ UNCHANGED <<session, entry, evidence, class, screen, call, crossed>>

LookUpMark(s) ==
    /\ scan[s].step = "code"
    /\ scan' = [scan EXCEPT ![s].step = IF entry[s] = "none" THEN "unmarked" ELSE "marked"]
    /\ UNCHANGED <<session, entry, evidence, class, screen, call, crossed>>

(* Evidence that is there keeps its state.                                 *)
Submit(s, state) == evidence' = [evidence EXCEPT ![s] = IF @ = "none" THEN state ELSE @]
ScanEnds(s) == scan' = [scan EXCEPT ![s] = NoScan]

RequestReview(s) ==
    /\ scan[s].step \in {"unmarked", "marked"}
    /\ Submit(s, "pending")
    /\ ScanEnds(s)
    /\ UNCHANGED <<session, entry, class, screen, call, crossed>>

(* Mutant: a mark that came meanwhile is updated. *)
CheckInOverMark(s) ==
    /\ scan[s].step = "unmarked"
    /\ WriteLesson(session.state, scan[s].revision + 1, session.auto)
    /\ entry' = [entry EXCEPT ![s] = "present"]
    /\ Submit(s, "accepted") /\ ScanEnds(s)
    /\ Crosses(call # NoCall \/ \E o \in Learner \ {s} : Scanning(o))
    /\ UNCHANGED <<class, screen, call>>

(* There is one entry of a pupil: a second insert fails.                   *)
CheckIn(s) ==
    /\ scan[s].step = "unmarked"
    /\ entry[s] = "none"
    /\ WriteLesson(session.state, scan[s].revision + 1, session.auto)
    /\ entry' = [entry EXCEPT ![s] = "present"]
    /\ Submit(s, "accepted") /\ ScanEnds(s)
    /\ Crosses(call # NoCall \/ \E o \in Learner \ {s} : Scanning(o))
    /\ UNCHANGED <<class, screen, call>>

AbandonScan(s) ==
    /\ Scanning(s)
    /\ ScanEnds(s)
    /\ UNCHANGED <<session, entry, evidence, class, screen, call, crossed>>

-----------------------------------------------------------------------------

SessionNext ==
    \/ \E t \in Tab : OpenScreen(t) \/ BeginSave(t)
    \/ BeginLock \/ BeginReopen \/ ReadMarks \/ WriteLock \/ AbandonCall \/ FinalizeDue
    \/ \E records \in [Learner -> Marks] : WriteSave(records)
    \/ \E s \in Learner : \/ Enrol(s) \/ ReadCode(s) \/ LookUpMark(s)
                          \/ RequestReview(s) \/ CheckIn(s) \/ AbandonScan(s)

SessionSpec == SessionInit /\ [][SessionNext]_sessions

-----------------------------------------------------------------------------

(* The register, the screens, the call and the check-ins have their types. *)
SessionTypeOK ==
    /\ session \in [state : {"draft", "submitted", "locked"}, revision : Nat, auto : BOOLEAN]
    /\ entry \in [Learner -> Marks \union {"none"}]
    /\ evidence \in [Learner -> {"none", "pending", "accepted"}]
    /\ class \subseteq Learner
    /\ screen \in [Tab -> [revision : Nat, marks : [Learner -> Marks \union {"none"}]]]
    /\ call \in [step : {"none", "save", "marks", "lock", "reopen"}, tab : Tab \union {NoTab},
                 revision : Nat, roster : SUBSET Learner,
                 before : [Learner -> Marks \union {"none"}]]
    /\ scan \in [Learner -> [step : {"none", "code", "unmarked", "marked"}, revision : Nat]]
    /\ crossed \in BOOLEAN

(* A mark the staff gave is changed by the staff only, however a save and  *)
(* a check-in of the same pupil interleave; and a check-in that was        *)
(* accepted is a mark.                                                     *)
StaffDecisionsStand ==
    [][\A s \in Learner :
        /\ entry[s] # "none" /\ entry'[s] # entry[s] => call.step = "marks"
        /\ evidence'[s] = "accepted" => entry'[s] # "none"]_sessions

(* A save changes an open register, and overwrites nothing its screen did  *)
(* not show, as long as no finalization or check-in was written between    *)
(* the read and the write of another.                                      *)
SavesAreSerial ==
    [][~crossed /\ call.step = "marks" /\ session' # session /\ call' = NoCall =>
        /\ session.state # "locked" /\ session'.revision = session.revision + 1
        /\ entry = screen[call.tab].marks]_sessions

(* A final register is open again only when the office reopens it.         *)
FinalStaysFinal ==
    [][session.state = "locked" => session'.state = "locked" \/ call.step = "reopen"]_sessions

(* What fails above fails by crossing only: until a write falls between    *)
(* the read and the write of another, every change takes the next          *)
(* revision, so that a revision names the marks, and only the office opens *)
(* a final register.                                                       *)
LessonIsVersioned ==
    [][~crossed =>
        /\ <<session, entry>>' # <<session, entry>> => session'.revision = session.revision + 1
        /\ session.state = "locked" => session'.state = "locked" \/ call.step = "reopen"]_sessions
=============================================================================
