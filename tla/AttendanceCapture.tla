------------------------- MODULE AttendanceCapture -------------------------
(***************************************************************************)
(* Attendance captures of one class on one date: what a teacher's device   *)
(* observed, sent while the network allows or kept in the device's queue,  *)
(* recorded by the server as a batch, and then published in the register   *)
(* or held in a reconciliation case for the office to decide.              *)
(*                                                                         *)
(* Recording a batch, saving the register and marking the batch accepted   *)
(* are three transactions; so are the two of a decision.  A request may    *)
(* die between any two of them, its client may stop listening, and several *)
(* requests may carry one capture.                                         *)
(*                                                                         *)
(* The register is its revision: AttendanceRegister has the rest.  Every   *)
(* capture has a key of its own.  Captures are numbered as they are taken. *)
(***************************************************************************)
EXTENDS Naturals, FiniteSets

CONSTANTS
    User,           \* who takes captures, one device each
    Capture,        \* numbers of the captures
    Request,        \* requests in flight
    NoCapture, NoUser,
    MaxRevision,    \* bound: revisions of the register
    MaxCorrected,   \* bound: revisions that corrections reach
    MaxFaults       \* bound: requests that die or are not waited for

ASSUME CaptureAssumption == Capture \subseteq Nat \ {0} /\ NoCapture = 0
ASSUME NoUserAssumption == NoUser \notin User
ASSUME BoundsAssumption == MaxRevision \in Nat /\ MaxCorrected \in Nat /\ MaxFaults \in Nat

VARIABLES
    revision,       \* attendance_registers.revision
    published,      \* history: captures some submission wrote to the register
    submitted,      \* attendance_submissions under the key of the capture
    batch,          \* attendance_capture_batches.status
    review,         \* attendance_reconciliation_cases.state
    taker,          \* recorded_by
    base,           \* expected_revision of the capture
    slot,           \* the queue entry of this class and date on each device
    forgotten,      \* history: captures a device gave up for another capture
    call,           \* the requests
    faults          \* counts towards MaxFaults

server == <<revision, published, submitted, batch, review>>
device == <<taker, base, slot, forgotten>>
cvars == <<server, device, call, faults>>

Idle == [by |-> "nobody", capture |-> NoCapture, stage |-> "free", at |-> 0]

Init ==
    /\ revision = 0
    /\ published = {} /\ submitted = {} /\ forgotten = {}
    /\ batch = [c \in Capture |-> "none"]
    /\ review = [c \in Capture |-> "none"]
    /\ taker = [c \in Capture |-> NoUser]
    /\ base = [c \in Capture |-> 0]
    /\ slot = [u \in User |-> NoCapture]
    /\ call = [r \in Request |-> Idle]
    /\ faults = 0

Free(r) == call[r].stage = "free"
At(r, by, stage) == call[r].by \in by /\ call[r].stage = stage
Upload == {"live", "sync", "orphan"}
MovesTo(r, stage) == call' = [call EXCEPT ![r].stage = stage]
Starts(r, by, c, stage, at) ==
    call' = [call EXCEPT ![r] = [by |-> by, capture |-> c, stage |-> stage, at |-> at]]
Fault == faults < MaxFaults /\ faults' = faults + 1

-----------------------------------------------------------------------------
(* The device.                                                             *)

(* A register is taken on a page loaded now or earlier.                    *)
Carries(r, by, c) == call[r].by = by /\ call[r].capture = c

Takes(u, c, seen) ==
    /\ \A d \in Capture, q \in Request : taker[d] = u => ~Carries(q, "live", d)
    /\ taker[c] = NoUser
    /\ \A d \in Capture : d < c => taker[d] # NoUser
    /\ taker' = [taker EXCEPT ![c] = u]
    /\ base' = [base EXCEPT ![c] = seen]

(* It replaces what the queue held for the class and date. *)
Queues(u, c) ==
    /\ slot' = [slot EXCEPT ![u] = c]
    /\ forgotten' = forgotten \union ({slot[u]} \ {c, NoCapture})

(* It is sent at once, and the page waits for the answer. *)
Take(u, c, r) ==
    /\ Free(r)
    /\ \E seen \in 0..revision : Takes(u, c, seen) /\ Starts(r, "live", c, "sent", seen)
    /\ UNCHANGED <<server, slot, forgotten, faults>>

(* The request of a device that is offline fails before it leaves. *)
TakeOffline(u, c) ==
    /\ \E seen \in 0..revision : Takes(u, c, seen)
    /\ Queues(u, c)
    /\ UNCHANGED <<server, call, faults>>

(* Mutant: the page forgets what it got no answer for. *)
QueueNothing(r) ==
    /\ call[r].by = "live"
    /\ IF call[r].stage = "lost" THEN UNCHANGED faults ELSE Fault
    /\ call' = [call EXCEPT ![r] = IF @.stage = "lost" THEN Idle
                                   ELSE [@ EXCEPT !.by = "orphan"]]
    /\ UNCHANGED <<server, device>>

(* No answer to the live request: the capture is queued. *)
Queue(r) ==
    /\ call[r].by = "live"
    /\ IF call[r].stage = "lost" THEN UNCHANGED faults ELSE Fault
    /\ Queues(taker[call[r].capture], call[r].capture)
    /\ call' = [call EXCEPT ![r] = IF @.stage = "lost" THEN Idle
                                   ELSE [@ EXCEPT !.by = "orphan"]]
    /\ UNCHANGED <<server, taker, base>>

(* A tab uploads what it finds in the queue. *)
Sync(u, r) ==
    /\ Free(r)
    /\ slot[u] # NoCapture
    /\ Starts(r, "sync", slot[u], "sent", base[slot[u]])
    /\ UNCHANGED <<server, device, faults>>

SyncGivesUp(r) ==
    /\ call[r].by = "sync"
    /\ IF call[r].stage = "lost" THEN UNCHANGED faults ELSE Fault
    /\ call' = [call EXCEPT ![r] = IF @.stage = "lost" THEN Idle
                                   ELSE [@ EXCEPT !.by = "orphan"]]
    /\ UNCHANGED <<server, device>>

(* The answer - accepted, quarantined or rejected - removes the entry of   *)
(* the class and date, whichever capture it holds by now.                  *)
Answer(r) ==
    LET u == taker[call[r].capture]
    IN  /\ At(r, {"live", "sync"}, "done")
        /\ slot' = [slot EXCEPT ![u] = NoCapture]
        /\ forgotten' = forgotten \union ({slot[u]} \ {call[r].capture, NoCapture})
        /\ call' = [call EXCEPT ![r] = Idle]
        /\ UNCHANGED <<server, taker, base, faults>>

-----------------------------------------------------------------------------
(* The server: saveAttendanceContinuityBatch.                              *)

(* Mutant: the batch takes a status of its own. *)
ReceiveAsReceived(r) ==
    /\ At(r, Upload, "sent")
    /\ batch' = [batch EXCEPT ![call[r].capture] = IF @ = "none" THEN "received" ELSE @]
    /\ MovesTo(r, "received")
    /\ UNCHANGED <<revision, published, submitted, review, device, faults>>

(* The capture is recorded once; a batch that was settled is the answer. *)
Receive(r) ==
    LET c == call[r].capture
    IN  /\ At(r, Upload, "sent")
        /\ batch' = [batch EXCEPT ![c] = IF @ = "none" THEN "pending" ELSE @]
        /\ MovesTo(r, IF batch[c] \in {"none", "pending"} THEN "received" ELSE "done")
        /\ UNCHANGED <<revision, published, submitted, review, device, faults>>

(* Time, snapshot, recorder, roster or source may refuse a capture, a      *)
(* register that moved on always does.                                     *)
Check(r) ==
    /\ At(r, Upload, "received")
    /\ \E stage \in {"passed", "failed"} :
            /\ stage = "passed" => revision = call[r].at
            /\ MovesTo(r, stage)
    /\ UNCHANGED <<server, device, faults>>

Quarantine(r) ==
    LET c == call[r].capture
    IN  /\ At(r, Upload, "failed")
        /\ IF batch[c] \in {"accepted", "rejected"}
           THEN UNCHANGED <<batch, review>>
           ELSE /\ batch' = [batch EXCEPT ![c] = "quarantined"]
                /\ review' = [review EXCEPT ![c] = IF @ = "none" THEN "open" ELSE @]
        /\ MovesTo(r, "done")
        /\ UNCHANGED <<revision, published, submitted, device, faults>>

(* The register takes the marks; when they change nothing it keeps its     *)
(* revision.                                                               *)
Publishes(c) ==
    /\ published' = published \union {c}
    /\ \/ revision < MaxRevision /\ revision' = revision + 1
       \/ revision > 0 /\ revision' = revision

(* A submission under the key of the capture is the answer. *)
SaveCapture(r) ==
    LET c == call[r].capture
    IN  /\ At(r, Upload, "passed")
        /\ IF c \in submitted
           THEN UNCHANGED <<revision, published, submitted>>
           ELSE /\ revision = call[r].at
                /\ Publishes(c)
                /\ submitted' = submitted \union {c}
        /\ MovesTo(r, "saved")
        /\ UNCHANGED <<batch, review, device, faults>>

SaveConflicts(r) ==
    /\ At(r, Upload, "passed")
    /\ call[r].capture \notin submitted
    /\ MovesTo(r, "failed")
    /\ UNCHANGED <<server, device, faults>>

Accept(r) ==
    /\ At(r, Upload, "saved")
    /\ batch' = [batch EXCEPT ![call[r].capture] = "accepted"]
    /\ MovesTo(r, "done")
    /\ UNCHANGED <<revision, published, submitted, review, device, faults>>

(* The register is corrected by something other than these captures. *)
Correct ==
    /\ revision < MaxCorrected
    /\ revision' = revision + 1
    /\ UNCHANGED <<published, submitted, batch, review, device, call, faults>>

-----------------------------------------------------------------------------
(* The server: decideAttendanceReconciliation.                             *)

(* Mutant: the batch is rejected whatever its status. *)
RejectAny(c) ==
    /\ review[c] = "open"
    /\ review' = [review EXCEPT ![c] = "rejected"]
    /\ batch' = [batch EXCEPT ![c] = "rejected"]
    /\ UNCHANGED <<revision, published, submitted, device, call, faults>>

Reject(c) ==
    /\ review[c] = "open"
    /\ review' = [review EXCEPT ![c] = "rejected"]
    /\ batch' = [batch EXCEPT ![c] = IF @ = "quarantined" THEN "rejected" ELSE @]
    /\ UNCHANGED <<revision, published, submitted, device, call, faults>>

(* The case was open and the register the one the reviewer saw. *)
Apply(c, r) ==
    /\ review[c] = "open"
    /\ Free(r)
    /\ Starts(r, "review", c, "applying", revision)
    /\ UNCHANGED <<server, device, faults>>

(* Mutant: a conflict of revisions is not noticed. *)
SaveReviewUnchecked(r) ==
    /\ At(r, {"review"}, "applying")
    /\ MovesTo(r, "applied")
    /\ IF revision = call[r].at
       THEN Publishes(call[r].capture) ELSE UNCHANGED <<revision, published>>
    /\ UNCHANGED <<submitted, batch, review, device, faults>>

SaveReview(r) ==
    /\ At(r, {"review"}, "applying")
    /\ IF revision = call[r].at
       THEN Publishes(call[r].capture) /\ MovesTo(r, "applied")
       ELSE UNCHANGED <<revision, published>> /\ MovesTo(r, "lost")
    /\ UNCHANGED <<submitted, batch, review, device, faults>>

AcceptReview(r) ==
    LET c == call[r].capture
    IN  /\ At(r, {"review"}, "applied")
        /\ batch' = [batch EXCEPT ![c] = "accepted"]
        /\ review' = [review EXCEPT ![c] = "accepted"]
        /\ call' = [call EXCEPT ![r] = Idle]
        /\ UNCHANGED <<revision, published, submitted, device, faults>>

(* A request dies with its process or its connection. *)
Die(r) ==
    /\ call[r].stage \notin {"free", "lost", "done"}
    /\ Fault
    /\ MovesTo(r, "lost")
    /\ UNCHANGED <<server, device>>

(* Nobody waits for the end of this request. *)
Vanish(r) ==
    /\ At(r, {"orphan"}, "done") \/ At(r, {"orphan", "review"}, "lost")
    /\ call' = [call EXCEPT ![r] = Idle]
    /\ UNCHANGED <<server, device, faults>>

-----------------------------------------------------------------------------

Serve(r) ==
    Receive(r) \/ Check(r) \/ Quarantine(r) \/ SaveCapture(r)
        \/ SaveConflicts(r) \/ Accept(r) \/ SaveReview(r) \/ AcceptReview(r)
Deliver(r) ==
    Answer(r) \/ Vanish(r) \/ (call[r].stage = "lost" /\ (Queue(r) \/ SyncGivesUp(r)))

Next ==
    \/ \E u \in User, r \in Request : Sync(u, r) \/ \E c \in Capture : Take(u, c, r)
    \/ \E u \in User, c \in Capture : TakeOffline(u, c)
    \/ \E r \in Request :
            Queue(r) \/ SyncGivesUp(r) \/ Answer(r) \/ Vanish(r) \/ Serve(r) \/ Die(r)
    \/ \E c \in Capture : Reject(c) \/ \E r \in Request : Apply(c, r)
    \/ Correct

Spec == Init /\ [][Next]_cvars

(* The server runs what it received, the device hears of it, and its sync  *)
(* timer goes on firing.                                                   *)
FairSpec ==
    /\ Spec
    /\ WF_cvars(\E r \in Request : Serve(r) \/ Deliver(r))
    /\ \A u \in User : SF_cvars(\E r \in Request : Sync(u, r))

-----------------------------------------------------------------------------

Status == {"none", "pending", "quarantined", "accepted", "rejected"}
CallType ==
    [by : Upload \union {"nobody", "review"}, capture : Capture \union {NoCapture},
     stage : {"free", "sent", "received", "passed", "failed", "saved", "done",
              "applying", "applied", "lost"},
     at : Nat]

(* Rows, queue entries and requests have their types. *)
TypeOK ==
    /\ revision \in Nat
    /\ published \subseteq Capture /\ submitted \subseteq Capture
    /\ forgotten \subseteq Capture
    /\ batch \in [Capture -> Status]
    /\ review \in [Capture -> {"none", "open", "accepted", "rejected"}]
    /\ taker \in [Capture -> User \union {NoUser}]
    /\ base \in [Capture -> Nat]
    /\ slot \in [User -> Capture \union {NoCapture}]
    /\ call \in [Request -> CallType]
    /\ faults \in Nat

(* A quarantined capture has an open case, so the office will find it, and *)
(* an accepted one is in the register, whichever uploads, decisions and    *)
(* deaths of requests raced.                                               *)
QuarantinedIsOpen == \A c \in Capture : batch[c] = "quarantined" => review[c] = "open"
AcceptedIsPublished == \A c \in Capture : batch[c] = "accepted" => c \in published

(* Once accepted a capture stays accepted: neither a late upload of it nor *)
(* a decision on the case another upload opened takes that back.           *)
AcceptedSticks ==
    [][\A c \in Capture : batch[c] = "accepted" => batch'[c] = "accepted"]_cvars

(* The device lets go of a capture only when the server has it or another  *)
(* capture of the same class took its place or was answered.               *)
NothingIsDropped ==
    \A c \in Capture :
        \/ taker[c] = NoUser
        \/ batch[c] # "none"
        \/ c \in forgotten
        \/ slot[taker[c]] = c
        \/ \E r \in Request : Carries(r, "live", c)

(* Wherever a capture is said to be - in the register, before the office,  *)
(* with the server or on the device - it is.                               *)
CapturesAreAccountedFor == QuarantinedIsOpen /\ AcceptedIsPublished /\ NothingIsDropped

(* A capture the server recorded is published or put before the office,    *)
(* as long as its device has not given it up for another one.              *)
PendingIsSettled ==
    \A c \in Capture : batch[c] = "pending" ~> (batch[c] # "pending" \/ c \in forgotten)

(* As the store says: a queued observation is kept until the server has it, *)
(* unless its user took a newer one that the server has.                   *)
NewerIsKept ==
    [][\A u \in User : slot[u] # NoCapture /\ slot'[u] = NoCapture =>
            \E c \in Capture : c >= slot[u] /\ batch[c] # "none"]_cvars

(* The capture keeps the promise of ObservationRecord: what a device holds *)
(* is in its queue or on its way with somebody waiting for the answer, and *)
(* what the server has is where the status of its batch says.              *)
Holds(c) == slot[taker[c]] = c \/ \E r \in Request : Carries(r, "live", c)

Standing ==
    [c \in Capture |->
        IF batch[c] # "none" THEN batch[c]
        ELSE IF taker[c] = NoUser THEN "unseen"
        ELSE IF Holds(c) THEN "held" ELSE "given up"]

Observations == INSTANCE ObservationRecord WITH
    Observation <- Capture,
    state <- Standing,
    cases <- {c \in Capture : review[c] = "open"}

KeepsObservations == Observations!ObservationSpec
=============================================================================
