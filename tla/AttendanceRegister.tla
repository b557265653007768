------------------------- MODULE AttendanceRegister -------------------------
(***************************************************************************)
(* The daily attendance register of one class on one date: the             *)
(* attendance_registers row, the attendance_records of the pupils, the     *)
(* audit trail in attendance_record_revisions and everyone who writes      *)
(* them - staff saving a register they opened earlier, the office enrolling *)
(* pupils, the principal locking and reopening, the finalization timer and *)
(* the approval of leave.                                                  *)
(*                                                                         *)
(* Each of these is one database transaction and one action: they are      *)
(* serialised by the advisory lock on class and date and by FOR UPDATE on  *)
(* the class and the register.  A save is not one action.  The screen the  *)
(* user edits is read by two queries that share no snapshot, the request   *)
(* is checked against a second reading of the roster, and only then does   *)
(* the transaction lock and decide; the others run in between.             *)
(*                                                                         *)
(* A mark stands for the status and the remarks of a record.  A User is    *)
(* one browser session.  The events these transactions enqueue are rows of *)
(* EventOutbox.                                                            *)
(***************************************************************************)
EXTENDS Naturals, FiniteSets

CONSTANTS
    Student,        \* everyone who is or may be enrolled
    User,           \* sessions of the staff who save registers
    Mark,           \* what a record may say
    Absent,         \* the mark leave may replace
    Excused,        \* the mark approved leave writes
    Unmarked,       \* no attendance_records row
    NoUser,         \* submitted_by IS NULL
    Single,         \* saves of one pupil, of the whole class, or either
    Reason,         \* saves with a correction reason, without, or either
    Automatic,      \* whether the school's rules finalize by themselves
    MaxRevision     \* bound: revisions of the register

ASSUME MarkAssumption == {Absent, Excused} \subseteq Mark /\ Absent # Excused
ASSUME UnmarkedAssumption == Unmarked \notin Mark
ASSUME NoUserAssumption == NoUser \notin User
ASSUME ChoicesAssumption == Single \union Reason \union Automatic \subseteq BOOLEAN
ASSUME MaxRevisionAssumption == MaxRevision \in Nat \ {0}

VARIABLES
    register,       \* attendance_registers
    mark,           \* attendance_records
    trail,          \* attendance_record_revisions
    enrolled,       \* active enrollments that cover the date
    strays,         \* history: enrolled behind the submitted register by the SIS
    entitled,       \* sessions whose user may record attendance of the class
    page,           \* the screen each session has open
    call,           \* the save each session has under way
    stored          \* attendance_submissions row under the key of that save

vars == <<register, mark, trail, enrolled, strays, entitled, page, call, stored>>

Marks == Mark \union {Unmarked}
Sheet(S) == UNION {[roster -> S] : roster \in SUBSET Student}
Revision == 0..MaxRevision

RegisterType ==
    [state : {"none", "draft", "submitted", "locked"},
     revision : Revision,
     by : User \union {NoUser},         \* submitted_by
     due : BOOLEAN]                     \* auto_finalize_at IS NOT NULL

(* A page shows marks as they were at revision "asOf" (which the response  *)
(* does not say) next to the register at "revision" (which it does).       *)
PageType ==
    [read : SUBSET {"roster", "register"},
     marks : Sheet(Marks), asOf : Revision, revision : Revision]

CallType ==
    [stage : {"idle", "sent", "checked", "saved", "refused"},
     records : Sheet(Mark), single : BOOLEAN, reason : BOOLEAN,
     expected : Revision,               \* expected_revision
     seen : Sheet(Marks), seenAt : Revision]    \* the preflight's roster

ResultType == [marks : Sheet(Marks), revision : Revision]
NoMarks == [s \in {} |-> Unmarked]
NoResult == [marks |-> NoMarks, revision |-> 0]

EntryType == [student : Student, from : Marks, to : Mark, revision : Revision]

BlankPage == [read |-> {}, marks |-> NoMarks, asOf |-> 0, revision |-> 0]
IdleCall ==
    [stage |-> "idle", records |-> NoMarks, single |-> FALSE, reason |-> FALSE,
     expected |-> 0, seen |-> NoMarks, seenAt |-> 0]

Init ==
    /\ register = [state |-> "none", revision |-> 0, by |-> NoUser, due |-> FALSE]
    /\ mark = [s \in Student |-> Unmarked]
    /\ trail = {}
    /\ enrolled \in SUBSET Student
    /\ strays = {}
    /\ entitled = User
    /\ page = [u \in User |-> BlankPage]
    /\ call = [u \in User |-> IdleCall]
    /\ stored = [u \in User |-> NoResult]

-----------------------------------------------------------------------------
(* Reading the screen, editing it, sending it.                             *)

rows == <<register, mark, trail, enrolled, strays>>

(* The marks of the roster as one query reads them. *)
CurrentSheet == [s \in enrolled |-> mark[s]]

MayOpen(u) == call[u].stage \in {"idle", "saved", "refused"}

(* The user opens, refreshes or reloads the register; the attempt, its key *)
(* and an answer that has not arrived are forgotten.                       *)
OpenScreen(u) ==
    /\ u \in entitled
    /\ MayOpen(u)
    /\ page' = [page EXCEPT ![u] = BlankPage]
    /\ call' = [call EXCEPT ![u] = IdleCall]
    /\ stored' = [stored EXCEPT ![u] = NoResult]
    /\ UNCHANGED <<rows, entitled>>

(* Promise.all of two queries on two connections, in either order. *)
ReadRoster(u) ==
    /\ call[u].stage = "idle"
    /\ "roster" \notin page[u].read
    /\ page' = [page EXCEPT ![u].read = @ \union {"roster"},
                            ![u].marks = CurrentSheet,
                            ![u].asOf = register.revision]
    /\ UNCHANGED <<rows, entitled, call, stored>>

ReadRegister(u) ==
    /\ call[u].stage = "idle"
    /\ "register" \notin page[u].read
    /\ page' = [page EXCEPT ![u].read = @ \union {"register"},
                            ![u].revision = register.revision]
    /\ UNCHANGED <<rows, entitled, call, stored>>

Loaded(u) == page[u].read = {"roster", "register"}

(* The user saves the whole register or, from the student view, one pupil. *)
(* A save that differs from the last attempt goes under a new key.         *)
Submit(u, records, single, reason) ==
    /\ call[u].stage \in {"idle", "refused"}
    /\ Loaded(u)
    /\ IF single
       THEN \E s \in DOMAIN page[u].marks : DOMAIN records = {s}
       ELSE DOMAIN records = DOMAIN page[u].marks
    /\ DOMAIN records # {}
    /\ LET attempt == [stage |-> "sent", records |-> records, single |-> single,
                       reason |-> reason, expected |-> page[u].revision,
                       seen |-> NoMarks, seenAt |-> 0]
       IN  /\ attempt # [call[u] EXCEPT !.stage = "sent"]
           /\ call' = [call EXCEPT ![u] = attempt]
    /\ stored' = [stored EXCEPT ![u] = NoResult]
    /\ UNCHANGED <<rows, entitled, page>>

(* A request keeps nothing of the preflight when it ends. *)
Ended(u, stage) ==
    [call EXCEPT ![u].stage = stage, ![u].seen = NoMarks, ![u].seenAt = 0]

(* No answer came, or a refusal: the same save is sent again under the     *)
(* same key.  The request before it, if it was still running, is dead.     *)
Retry(u) ==
    /\ call[u].stage \in {"checked", "saved", "refused"}
    /\ call' = Ended(u, "sent")
    /\ UNCHANGED <<rows, entitled, page, stored>>

(* The server reads the screen again and checks the records against it. *)
FitsRoster(u) ==
    /\ DOMAIN call[u].records \subseteq enrolled
    /\ ~call[u].single => DOMAIN call[u].records = enrolled

Preflight(u) ==
    /\ call[u].stage = "sent"
    /\ u \in entitled
    /\ FitsRoster(u)
    /\ call' = [call EXCEPT ![u].stage = "checked",
                            ![u].seen = CurrentSheet,
                            ![u].seenAt = register.revision]
    /\ UNCHANGED <<rows, entitled, page, stored>>

PreflightRefuses(u) ==
    /\ call[u].stage = "sent"
    /\ ~(u \in entitled /\ FitsRoster(u))
    /\ call' = [call EXCEPT ![u].stage = "refused"]
    /\ UNCHANGED <<rows, entitled, page, stored>>

-----------------------------------------------------------------------------
(* The save transaction.                                                   *)

Changed(u) == {s \in DOMAIN call[u].records : mark[s] # call[u].records[s]}
Corrects(u) == \E s \in Changed(u) : mark[s] # Unmarked

(* Mutant: the roster is not read again under the lock. *)
AdmissibleForOldRoster(u) ==
    /\ u \in entitled
    /\ register.revision = call[u].expected
    /\ register.state # "locked"
    /\ Corrects(u) => call[u].reason

(* Mutant: a finalized register is not refused. *)
AdmissibleWhenLocked(u) ==
    /\ u \in entitled
    /\ DOMAIN call[u].seen = enrolled
    /\ register.revision = call[u].expected
    /\ Corrects(u) => call[u].reason

(* Mutant: the revision the user saw is not compared. *)
AdmissibleAtAnyRevision(u) ==
    /\ u \in entitled
    /\ DOMAIN call[u].seen = enrolled
    /\ register.state # "locked"
    /\ Corrects(u) => call[u].reason

Admissible(u) ==
    /\ u \in entitled
    /\ DOMAIN call[u].seen = enrolled
    /\ register.revision = call[u].expected
    /\ register.state # "locked"
    /\ Corrects(u) => call[u].reason

(* Mutant: only a submission takes a revision, a correction does not. *)
AdvancesOnSubmission(u) ==
    \/ register.state = "none"
    \/ ~call[u].single /\ register.state = "draft"

AdvancesRevision(u) ==
    \/ Changed(u) # {}
    \/ register.state = "none"
    \/ ~call[u].single /\ register.state = "draft"

NextRevision(u) == register.revision + (IF AdvancesRevision(u) THEN 1 ELSE 0)

(* Recording one pupil leaves the register what it was, or opens a draft. *)
RegisterAfter(u, automatic) ==
    IF call[u].single
    THEN [register EXCEPT !.state = IF @ = "none" THEN "draft" ELSE @,
                          !.revision = NextRevision(u)]
    ELSE [state |-> "submitted", revision |-> NextRevision(u),
          by |-> u, due |-> automatic]

(* The preflight's roster with the saved records over it. *)
ResultMarks(u) ==
    [s \in DOMAIN call[u].seen |->
        IF s \in DOMAIN call[u].records THEN call[u].records[s] ELSE call[u].seen[s]]

Answered(u) == stored[u] # NoResult

Save(u, automatic) ==
    /\ call[u].stage = "checked"
    /\ ~Answered(u)
    /\ Admissible(u)
    /\ NextRevision(u) <= MaxRevision
    /\ register' = RegisterAfter(u, automatic)
    /\ mark' = [s \in Student |->
                    IF s \in DOMAIN call[u].records THEN call[u].records[s] ELSE mark[s]]
    /\ trail' = trail \union
                    {[student |-> s, from |-> mark[s], to |-> call[u].records[s],
                      revision |-> NextRevision(u)] : s \in Changed(u)}
    /\ strays' = IF call[u].single THEN strays ELSE {}
    /\ stored' = [stored EXCEPT ![u] = [marks |-> ResultMarks(u),
                                        revision |-> NextRevision(u)]]
    /\ call' = Ended(u, "saved")
    /\ UNCHANGED <<enrolled, entitled, page>>

(* The key was used before: the answer is the stored one. *)
SaveAgain(u) ==
    /\ call[u].stage = "checked"
    /\ Answered(u)
    /\ call' = Ended(u, "saved")
    /\ UNCHANGED <<rows, entitled, page, stored>>

SaveRefuses(u) ==
    /\ call[u].stage = "checked"
    /\ ~Answered(u)
    /\ ~Admissible(u)
    /\ call' = Ended(u, "refused")
    /\ UNCHANGED <<rows, entitled, page, stored>>

(* The answer arrives and becomes the page the user goes on editing. *)
ReceiveAnswer(u) ==
    /\ call[u].stage = "saved"
    /\ page' = [page EXCEPT ![u] = [read |-> {"roster", "register"},
                                    marks |-> stored[u].marks,
                                    asOf |-> stored[u].revision,
                                    revision |-> stored[u].revision]]
    /\ call' = [call EXCEPT ![u] = IdleCall]
    /\ stored' = [stored EXCEPT ![u] = NoResult]
    /\ UNCHANGED <<rows, entitled>>

-----------------------------------------------------------------------------
(* The other writers.                                                      *)

sessions == <<entitled, page, call, stored>>

(* PeopleService and the import: a roster change returns a submitted       *)
(* register to draft; it is refused while the register is locked.          *)
Enrol(s) ==
    /\ s \notin enrolled
    /\ register.state # "locked"
    /\ register.state = "submitted" => register.revision < MaxRevision
    /\ enrolled' = enrolled \union {s}
    /\ IF register.state = "submitted"
       THEN /\ register' = [register EXCEPT !.state = "draft", !.by = NoUser,
                                            !.revision = @ + 1]
            /\ strays' = {}
       ELSE UNCHANGED <<register, strays>>
    /\ UNCHANGED <<mark, trail, sessions>>

(* OperationsService inserts the enrollment, from the start of the term,   *)
(* and looks at no register.                                               *)
EnrolBySis(s) ==
    /\ s \notin enrolled
    /\ enrolled' = enrolled \union {s}
    /\ strays' = IF register.state \in {"submitted", "locked"}
                 THEN strays \union {s} ELSE strays
    /\ UNCHANGED <<register, mark, trail, sessions>>

LockRegister ==
    /\ register.state = "submitted"
    /\ register.revision < MaxRevision
    /\ register' = [register EXCEPT !.state = "locked", !.revision = @ + 1, !.due = FALSE]
    /\ UNCHANGED <<mark, trail, enrolled, strays, sessions>>

(* Mutant: the row takes the name the event gives a reopened register. *)
ReopenAsUnlocked ==
    /\ register.state = "locked"
    /\ register.revision < MaxRevision
    /\ register' = [register EXCEPT !.state = "unlocked", !.revision = @ + 1, !.due = FALSE]
    /\ UNCHANGED <<mark, trail, enrolled, strays, sessions>>

ReopenRegister ==
    /\ register.state = "locked"
    /\ register.revision < MaxRevision
    /\ register' = [register EXCEPT !.state = "submitted", !.revision = @ + 1, !.due = FALSE]
    /\ UNCHANGED <<mark, trail, enrolled, strays, sessions>>

(* The timer locks a submitted register whose deadline has passed. *)
FinalizeDue ==
    /\ register.state = "submitted"
    /\ register.by # NoUser
    /\ register.due
    /\ register.revision < MaxRevision
    /\ register' = [register EXCEPT !.state = "locked", !.revision = @ + 1, !.due = FALSE]
    /\ UNCHANGED <<mark, trail, enrolled, strays, sessions>>

(* Mutant: leave is written under the revision in force. *)
ApproveLeaveSilently(s) ==
    /\ s \in enrolled
    /\ mark[s] \in {Unmarked, Absent}
    /\ register.state # "locked"
    /\ register' = [register EXCEPT !.state = IF @ = "none" THEN "draft" ELSE @]
    /\ mark' = [mark EXCEPT ![s] = Excused]
    /\ trail' = trail \union {[student |-> s, from |-> mark[s], to |-> Excused,
                               revision |-> register.revision]}
    /\ UNCHANGED <<enrolled, strays, sessions>>

(* Approved leave excuses a pupil who is absent or not yet marked; with the *)
(* register locked the approval fails and nothing is written.              *)
ApproveLeave(s) ==
    /\ s \in enrolled
    /\ mark[s] \in {Unmarked, Absent}
    /\ register.state # "locked"
    /\ register.revision < MaxRevision
    /\ register' = [register EXCEPT !.state = IF @ = "none" THEN "draft" ELSE @,
                                    !.revision = @ + 1]
    /\ mark' = [mark EXCEPT ![s] = Excused]
    /\ trail' = trail \union {[student |-> s, from |-> mark[s], to |-> Excused,
                               revision |-> register.revision + 1]}
    /\ UNCHANGED <<enrolled, strays, sessions>>

(* The membership, the assignment or the cover of a user ends. *)
Revoke(u) ==
    /\ u \in entitled
    /\ entitled' = entitled \ {u}
    /\ UNCHANGED <<rows, page, call, stored>>

-----------------------------------------------------------------------------

Session(u) ==
    \/ OpenScreen(u) \/ ReadRoster(u) \/ ReadRegister(u)
    \/ \E records \in Sheet(Mark), single \in Single, reason \in Reason :
            Submit(u, records, single, reason)
    \/ Retry(u)
    \/ Preflight(u) \/ PreflightRefuses(u)
    \/ \E automatic \in Automatic : Save(u, automatic)
    \/ SaveAgain(u) \/ SaveRefuses(u)
    \/ ReceiveAnswer(u)

Office ==
    \/ \E s \in Student : Enrol(s) \/ EnrolBySis(s) \/ ApproveLeave(s)
    \/ LockRegister \/ ReopenRegister \/ FinalizeDue
    \/ \E u \in User : Revoke(u)

Next == (\E u \in User : Session(u)) \/ Office

Spec == Init /\ [][Next]_vars

-----------------------------------------------------------------------------
(* What the class register is for: a submitted register speaks for every   *)
(* pupil, nobody overwrites what they have not seen, and the audit trail   *)
(* tells how each mark came to be.                                         *)

(* The state of every row, page and request has its type. *)
TypeOK ==
    /\ register \in RegisterType
    /\ mark \in [Student -> Marks]
    /\ trail \subseteq EntryType
    /\ enrolled \subseteq Student
    /\ strays \subseteq Student
    /\ entitled \subseteq User
    /\ page \in [User -> PageType]
    /\ call \in [User -> CallType]
    /\ stored \in [User -> ResultType]

(* While the register is submitted or locked every enrolled pupil has a    *)
(* mark, however submissions, enrollments, finalization and reopening      *)
(* interleave; the exception is a pupil the SIS enrolled behind it, whom   *)
(* no check of the code would find.                                        *)
RosterComplete ==
    register.state \in {"submitted", "locked"} =>
        \A s \in enrolled \ strays : mark[s] # Unmarked

(* A submitted or locked register names who answers for it: FinalizeDue    *)
(* skips a register without submitted_by, which would never be finalized.  *)
Accountable == register.state \in {"submitted", "locked"} => register.by # NoUser

(* The entries of a pupil in the audit trail form one chain that starts    *)
(* with no record, each entry beginning where the one before it ended, and *)
(* ends at the mark in force; no two share a revision.                     *)
Entries(s) == {e \in trail : e.student = s}
Before(e) == {f \in Entries(e.student) : f.revision < e.revision}
Precedes(f, e) == f \in Before(e) /\ \A g \in Before(e) : g.revision <= f.revision

TrailRetraces ==
    /\ \A e, f \in trail :
            e.student = f.student /\ e.revision = f.revision => e = f
    /\ \A e \in trail : Before(e) = {} => e.from = Unmarked
    /\ \A e, f \in trail : Precedes(f, e) => e.from = f.to
    /\ \A s \in Student :
            \/ Entries(s) = {} /\ mark[s] = Unmarked
            \/ \E e \in Entries(s) :
                    /\ \A f \in Entries(s) : f.revision <= e.revision
                    /\ e.to = mark[s]

(* The two halves of a page are of one revision. *)
Whole(u) == page[u].asOf = page[u].revision

(* The step in which a save of this session changes the register. *)
Lands(u) == call[u].stage = "checked" /\ ~Answered(u) /\ call'[u].stage = "saved"

(* A pupil the user did not edit keeps the mark another writer gave        *)
(* meanwhile.                                                              *)
KeepsOthersMarks(u) ==
    \A s \in DOMAIN call[u].records \intersect DOMAIN page[u].marks :
        call[u].records[s] = page[u].marks[s] => mark'[s] = mark[s]

(* A save from a page whose halves agree never overwrites a correction its *)
(* user has not seen, whoever wrote it: another session, the approval of   *)
(* leave, or this session through an answer built from an older roster.    *)
NoLostUpdate == [][\A u \in User : Lands(u) /\ Whole(u) => KeepsOthersMarks(u)]_vars

(* To its readers the register is a versioned record that finalization     *)
(* freezes.                                                                *)
Record == INSTANCE VersionedRecord WITH
    Content <- [Student -> Marks],
    version <- register.revision,
    content <- mark,
    frozen <- register.state = "locked"

ImplementsVersionedRecord == Record!Spec
=============================================================================
