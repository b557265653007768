---------------------------- MODULE SchoolNotice ----------------------------
(***************************************************************************)
(* One school notice from draft to cancellation, and what its recipients   *)
(* see of it and answer.                                                   *)
(*                                                                         *)
(* Every operation locks the row of the notice first.  Those of the office *)
(* need no other row and are one step.  Answering, and recording a         *)
(* delivery, then lock the row of the recipient; opening a notice reads it *)
(* without a lock, locks the row of the recipient and needs the notice for *)
(* its audit row.  An answer is checked under both locks and written       *)
(* later.  Repeated commands are answered from school_notice_commands and  *)
(* are no steps.                                                           *)
(***************************************************************************)
EXTENDS Naturals

CONSTANTS
    Recipient,
    Online,             \* those with an account
    Page,               \* pages, each with at most one request in flight
    NoOne,              \* the recipient of no request
    MaxNoticeRevision   \* bound: edits of a draft

ASSUME OnlineAssumption == Online \subseteq Recipient /\ NoOne \notin Recipient
ASSUME NoticeRevisionAssumption == MaxNoticeRevision \in Nat

VARIABLES
    notice,     \* school_notices: status, mode, revision, and whether due_at is past
    who,        \* school_notice_recipients
    seen,       \* last_seen_notice_revision
    answered,   \* how the response came in, "none" without one
    bells,      \* unread notifications: <<recipient, revision of the notice>>
    queued,     \* recipients with a queued delivery attempt
    shown,      \* history: the revision the recipient's page showed last
    visit       \* the request of each page: what it has read and locked

reach == <<bells, queued>>
nvars == <<notice, who, seen, answered, reach, shown, visit>>

NoVisit == [kind |-> "none", stage |-> "none", for |-> NoOne, revision |-> 0]

NoticeInit ==
    /\ notice = [status |-> "none", answers |-> FALSE, revision |-> 0, late |-> FALSE]
    /\ who = {} /\ bells = {} /\ queued = {}
    /\ seen = [r \in Recipient |-> 0]
    /\ shown = [r \in Recipient |-> 0]
    /\ answered = [r \in Recipient |-> "none"]
    /\ visit = [p \in Page |-> NoVisit]

NoticeIs(status) == notice.status = status
NoticeFree == \A p \in Page : visit[p].stage \notin {"notice", "both"}
RowFree(r) == \A p \in Page : ~(visit[p].for = r /\ visit[p].stage \in {"row", "both"})
Turns(status) == notice' = [notice EXCEPT !.status = status, !.revision = @ + 1]
Rings(rs) == bells' = bells \union {<<r, notice.revision + 1>> : r \in rs \intersect Online}

-----------------------------------------------------------------------------
(* The office: create and update, publish, cancel.                         *)

SaveNotice(answers) ==
    /\ notice.status \in {"none", "draft"}
    /\ notice.revision < MaxNoticeRevision
    /\ notice' = [status |-> "draft", answers |-> answers,
                  revision |-> notice.revision + 1, late |-> FALSE]
    /\ UNCHANGED <<who, seen, answered, reach, shown, visit>>

(* Everyone in the audience gets a bell or, without an account, a letter.  *)
PublishNotice(audience) ==
    /\ NoticeIs("draft") /\ ~notice.late
    /\ audience # {}
    /\ Turns("published")
    /\ who' = audience
    /\ Rings(audience)
    /\ queued' = audience \ Online
    /\ UNCHANGED <<seen, answered, shown, visit>>

(* Mutant: the notice is read, not locked. *)
CancelNoticeUnlocked ==
    /\ NoticeIs("published")
    /\ Turns("cancelled")
    /\ queued' = {}
    /\ Rings(who)
    /\ UNCHANGED <<who, seen, answered, shown, visit>>

(* The recipients are not locked; their accounts may be closed by now.     *)
CancelNotice ==
    /\ NoticeIs("published") /\ NoticeFree
    /\ Turns("cancelled")
    /\ queued' = {}
    /\ Rings(who)
    /\ UNCHANGED <<who, seen, answered, shown, visit>>

DeadlinePasses ==
    /\ notice.answers /\ ~notice.late
    /\ notice' = [notice EXCEPT !.late = TRUE]
    /\ UNCHANGED <<who, seen, answered, reach, shown, visit>>

-----------------------------------------------------------------------------
(* Opening a notice.                                                       *)

(* The page of the notice is loaded or refetched. *)
ShowNotice(r) ==
    /\ r \in who \intersect Online
    /\ shown' = [shown EXCEPT ![r] = notice.revision]
    /\ UNCHANGED <<notice, who, seen, answered, reach, visit>>

(* A page that shows a revision its reader has not seen asks for the open; *)
(* the request does not say which revision was shown.                      *)
OpenReads(p, r) ==
    /\ visit[p] = NoVisit /\ seen[r] < shown[r]
    /\ visit' = [visit EXCEPT ![p] =
            [kind |-> "open", stage |-> "read", for |-> r, revision |-> notice.revision]]
    /\ UNCHANGED <<notice, who, seen, answered, reach, shown>>

OpenLocks(p) ==
    /\ visit[p].stage = "read" /\ RowFree(visit[p].for)
    /\ visit' = [visit EXCEPT ![p].stage = "row"]
    /\ UNCHANGED <<notice, who, seen, answered, reach, shown>>

IsNewer(p) == seen[visit[p].for] < visit[p].revision

(* All bells of the notice are marked read; the audit row of an open that  *)
(* is news needs the notice.                                               *)
OpenWrites(p) ==
    /\ visit[p].stage = "row"
    /\ IsNewer(p) => NoticeFree
    /\ seen' = [seen EXCEPT ![visit[p].for] = IF IsNewer(p) THEN visit[p].revision ELSE @]
    /\ bells' = {b \in bells : b[1] # visit[p].for}
    /\ visit' = [visit EXCEPT ![p] = NoVisit]
    /\ UNCHANGED <<notice, who, answered, queued, shown>>

-----------------------------------------------------------------------------
(* Answering: respond, and assistedResponse for someone without the app.   *)
(* Recording a delivery takes the same locks.                              *)

Command == {"app", "assisted", "delivery"}

LocksNotice(p, r, kind) ==
    /\ visit[p] = NoVisit
    /\ r \in who /\ NoticeFree
    /\ kind = "app" => r \in Online
    /\ visit' = [visit EXCEPT ![p] =
            [kind |-> kind, stage |-> "notice", for |-> r, revision |-> notice.revision]]
    /\ UNCHANGED <<notice, who, seen, answered, reach, shown>>

(* The command holds the notice and gets the row of its recipient. *)
LocksBoth(p, kinds) ==
    visit[p].kind \in kinds /\ visit[p].stage = "notice" /\ RowFree(visit[p].for)

assertResponseAllowed(r) ==
    NoticeIs("published") /\ notice.answers /\ ~notice.late /\ answered[r] = "none"

RespondChecks(p) ==
    /\ LocksBoth(p, {"app", "assisted"})
    /\ assertResponseAllowed(visit[p].for)
    /\ visit' = [visit EXCEPT ![p].stage = "both"]
    /\ UNCHANGED <<notice, who, seen, answered, reach, shown>>

(* What was checked is not looked at again. *)
RespondWrites(p) ==
    LET r == visit[p].for
    IN  /\ visit[p].stage = "both"
        /\ answered' = [answered EXCEPT ![r] = visit[p].kind]
        /\ IF visit[p].kind = "app"
           THEN /\ seen' = [seen EXCEPT ![r] = IF @ < visit[p].revision
                                               THEN visit[p].revision ELSE @]
                /\ bells' = {b \in bells : b[1] # r}
           ELSE UNCHANGED <<seen, bells>>
        /\ visit' = [visit EXCEPT ![p] = NoVisit]
        /\ UNCHANGED <<notice, who, queued, shown>>

RecordDelivery(p, status) ==
    /\ LocksBoth(p, {"delivery"})
    /\ notice.status \in {"published", "cancelled"}
    /\ queued' = queued \union {r \in {visit[p].for} : status = "queued"}
    /\ visit' = [visit EXCEPT ![p] = NoVisit]
    /\ UNCHANGED <<notice, who, seen, answered, bells, shown>>

(* Not published, too late, answered, or the recipient's row has changed   *)
(* since the page was loaded; or the transaction is lost.                  *)
CommandRefuses(p) ==
    /\ visit[p].stage \in {"notice", "both"}
    /\ visit' = [visit EXCEPT ![p] = NoVisit]
    /\ UNCHANGED <<notice, who, seen, answered, reach, shown>>

(* Each has what the other needs: the database aborts one of the two, and  *)
(* nobody tries it again.                                                  *)
DeadlockAborts(p, q) ==
    /\ visit[p].stage = "row" /\ IsNewer(p)
    /\ visit[q].stage = "notice" /\ visit[q].for = visit[p].for
    /\ \E victim \in {p, q} : visit' = [visit EXCEPT ![victim] = NoVisit]
    /\ UNCHANGED <<notice, who, seen, answered, reach, shown>>

-----------------------------------------------------------------------------

NoticeNext ==
    \/ \E answers \in BOOLEAN : SaveNotice(answers)
    \/ \E audience \in SUBSET Recipient : PublishNotice(audience)
    \/ CancelNotice \/ DeadlinePasses
    \/ \E r \in Recipient :
            \/ ShowNotice(r) \/ \E p \in Page : OpenReads(p, r)
            \/ \E p \in Page, kind \in Command : LocksNotice(p, r, kind)
    \/ \E p \in Page :
            \/ OpenLocks(p) \/ OpenWrites(p)
            \/ RespondChecks(p) \/ RespondWrites(p) \/ CommandRefuses(p)
            \/ \E status \in {"queued", "other"} : RecordDelivery(p, status)
            \/ \E q \in Page : DeadlockAborts(p, q)

NoticeSpec == NoticeInit /\ [][NoticeNext]_nvars

-----------------------------------------------------------------------------

(* The rows of the notice have their types; nobody has seen, or heard of,  *)
(* a revision it does not have, and letters go to recipients.              *)
NoticeTypeOK ==
    /\ notice \in [status : {"none", "draft", "published", "cancelled"}, answers : BOOLEAN,
                   revision : Nat, late : BOOLEAN]
    /\ who \subseteq Recipient /\ queued \subseteq who
    /\ bells \subseteq (who \intersect Online) \X (0..notice.revision)
    /\ seen \in [Recipient -> 0..notice.revision]
    /\ shown \in [Recipient -> 0..notice.revision]
    /\ answered \in [Recipient -> {"none", "app", "assisted"}]
    /\ visit \in [Page -> [kind : Command \union {"none", "open"},
                           stage : {"none", "read", "row", "notice", "both"},
                           for : who \union {NoOne}, revision : 0..notice.revision]]

(* An answer is final, and is only given to a notice in force: though it   *)
(* is checked before it is written, no other device or assistant gets one  *)
(* in between, and the office cannot cancel the notice under it.  (The     *)
(* deadline is a clock and may pass in between.)                           *)
AnswersStand ==
    [][\A r \in Recipient : answered'[r] # answered[r] =>
            /\ answered[r] = "none" /\ r \in who
            /\ NoticeIs("published") /\ notice.answers]_nvars
=============================================================================
