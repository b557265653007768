---------------------------- MODULE CampusEvent ----------------------------
(***************************************************************************)
(* One campus event from draft to cancellation or completion: the answers  *)
(* of the families, the invoices of a paid event, consent and preparation, *)
(* and the attendance register of a session.                               *)
(*                                                                         *)
(* Every operation on an event locks its row first and is one step; a      *)
(* repeated command is answered from campus_event_commands and is none.    *)
(* Granting and revoking the authority to consent lock the relationship,   *)
(* not the event: readiness is worked out anew each time it is used.       *)
(*                                                                         *)
(* The session starts and ends with the event.  An invoice is what it owes *)
(* to the event: FeeLedger has what is paid on it.                         *)
(***************************************************************************)
EXTENDS Naturals

CONSTANTS
    Student,        \* the audience
    Terms           \* terms a draft may have

ASSUME TermsAssumption ==
    Terms \subseteq [mandatory : BOOLEAN, paid : BOOLEAN, consent : BOOLEAN, twoWay : BOOLEAN]

VARIABLES
    event,          \* campus_events: status, terms; "none" before and after a draft
    phase,          \* the clock of the event
    rsvp,           \* campus_event_participants.rsvp_status
    invoice,        \* its fee_invoice_id, and whether it was credited
    roster,         \* campus_event_session_participants
    mark,           \* campus_event_attendance_records.status, "none" without a row
    register,       \* campus_event_sessions.state
    granted,      \* the guardian's authority to consent; "late" if revoked after the start
    consent,        \* campus_event_consents.status
    prepared        \* students whose required checklist is complete

family == <<rsvp, invoice, roster>>
ready == <<granted, consent, prepared>>
evars == <<event, phase, family, mark, register, ready>>

EventInit ==
    /\ \E t \in Terms : event = [status |-> "none", terms |-> t]
    /\ phase = "early"
    /\ rsvp = [s \in Student |-> "pending"]
    /\ invoice = [s \in Student |-> "none"]
    /\ roster = {}
    /\ mark = [s \in Student |-> "none"]
    /\ register = "open"
    /\ granted = [s \in Student |-> "none"]
    /\ consent = [s \in Student |-> "none"]
    /\ prepared = {}

Is(status) == event.status = status
Started == phase \in {"started", "ended"}
Answering == Is("published") /\ ~Started
Expected(s) == event.terms.mandatory \/ rsvp[s] = "accepted"
Ready(s) ==
    /\ event.terms.consent => consent[s] = "granted" /\ granted[s] \in {"active", "late"}
    /\ s \in prepared

-----------------------------------------------------------------------------
(* The life of the event: create, save, eventAction.                       *)

SaveDraft(t) ==
    /\ event.status \in {"none", "draft"} /\ ~Started
    /\ event' = [status |-> "draft", terms |-> t]
    /\ UNCHANGED <<phase, family, mark, register, ready>>

Discard ==
    /\ Is("draft")
    /\ event' = [event EXCEPT !.status = "none"]
    /\ UNCHANGED <<phase, family, mark, register, ready>>

(* Everyone who must come is on the roster and, if it costs, has the bill. *)
Publish ==
    /\ Is("draft") /\ ~Started
    /\ event' = [event EXCEPT !.status = "published"]
    /\ roster' = {s \in Student : event.terms.mandatory}
    /\ invoice' = [s \in Student |-> IF event.terms.mandatory /\ event.terms.paid
                                     THEN "posted" ELSE "none"]
    /\ UNCHANGED <<phase, rsvp, mark, register, ready>>

Credited == [s \in Student |-> IF invoice[s] = "posted" THEN "credited" ELSE invoice[s]]

(* Mutant: the invoices are left as they are. *)
CancelEventOnly ==
    /\ Is("published") /\ ~Started
    /\ event' = [event EXCEPT !.status = "cancelled"]
    /\ UNCHANGED <<phase, family, mark, register, ready>>

(* The trigger on the status credits what was not credited before. *)
CancelEvent ==
    /\ Is("published") /\ ~Started
    /\ event' = [event EXCEPT !.status = "cancelled"]
    /\ invoice' = Credited
    /\ UNCHANGED <<phase, rsvp, roster, mark, register, ready>>

Complete ==
    /\ Is("published") /\ phase = "ended" /\ register = "locked"
    /\ event' = [event EXCEPT !.status = "completed"]
    /\ UNCHANGED <<phase, family, mark, register, ready>>

(* Attendance may be entered some hours before the start. *)
EventClock ==
    /\ phase' = CASE phase = "early" -> "entry" [] phase = "entry" -> "started"
                  [] OTHER -> "ended"
    /\ phase # "ended"
    /\ UNCHANGED <<event, family, mark, register, ready>>

-----------------------------------------------------------------------------
(* The families: rsvp, withdraw, consent, checklist.                       *)

(* A place that was withdrawn stays withdrawn; one with a bill cannot be   *)
(* declined, nor one that attendance was recorded for.                     *)
Accept(s) ==
    /\ Answering /\ invoice[s] # "credited"
    /\ rsvp' = [rsvp EXCEPT ![s] = "accepted"]
    /\ invoice' = [invoice EXCEPT ![s] = IF event.terms.paid THEN "posted" ELSE @]
    /\ roster' = roster \union {s}
    /\ UNCHANGED <<event, phase, mark, register, ready>>

Decline(s) ==
    /\ Answering /\ invoice[s] = "none"
    /\ ~event.terms.mandatory => mark[s] = "none"
    /\ rsvp' = [rsvp EXCEPT ![s] = "declined"]
    /\ roster' = IF event.terms.mandatory THEN roster ELSE roster \ {s}
    /\ UNCHANGED <<event, phase, invoice, mark, register, ready>>

(* The bill is credited in full; a row of attendance makes the deletion    *)
(* from the roster fail, and with it the withdrawal.                       *)
Withdraw(s) ==
    /\ Answering /\ event.terms.paid /\ ~event.terms.mandatory
    /\ rsvp[s] = "accepted" /\ invoice[s] = "posted"
    /\ mark[s] = "none"
    /\ rsvp' = [rsvp EXCEPT ![s] = "declined"]
    /\ invoice' = [invoice EXCEPT ![s] = "credited"]
    /\ roster' = roster \ {s}
    /\ UNCHANGED <<event, phase, mark, register, ready>>

DecideConsent(s, status) ==
    /\ Answering /\ event.terms.consent
    /\ IF status = "withdrawn" THEN consent[s] # "none" ELSE granted[s] = "active"
    /\ consent' = [consent EXCEPT ![s] = status]
    /\ UNCHANGED <<event, phase, family, mark, register, granted, prepared>>

(* The first authority; one granted after a revocation is another and does *)
(* not revive the consent given under this one.                            *)
GrantConsentAuthority(s) ==
    /\ granted[s] = "none" /\ ~Started
    /\ granted' = [granted EXCEPT ![s] = "active"]
    /\ UNCHANGED <<event, phase, family, mark, register, consent, prepared>>

(* Mutant: a revocation counts whenever it is made. *)
RevokeConsentAuthorityAtOnce(s) ==
    /\ granted[s] = "active"
    /\ granted' = [granted EXCEPT ![s] = "revoked"]
    /\ UNCHANGED <<event, phase, family, mark, register, consent, prepared>>

RevokeConsentAuthority(s) ==
    /\ granted[s] = "active"
    /\ granted' = [granted EXCEPT ![s] = IF Started THEN "late" ELSE "revoked"]
    /\ UNCHANGED <<event, phase, family, mark, register, consent, prepared>>

CompleteChecklist(s, done) ==
    /\ Answering
    /\ prepared' = IF done THEN prepared \union {s} ELSE prepared \ {s}
    /\ UNCHANGED <<event, phase, family, mark, register, granted, consent>>

-----------------------------------------------------------------------------
(* The register of the session: attendance, sessionAction.                 *)

Present == {"present", "late"}

RecordMark(s, m) ==
    /\ Is("published") /\ register = "open" /\ phase # "early"
    /\ s \in roster /\ m # mark[s]
    /\ mark[s] = "none" => m # "not_recorded"
    /\ m = "no_show" => phase = "ended" /\ Expected(s) /\ Ready(s)
    /\ m = "late" => Started
    /\ m = "checked_out" => event.terms.twoWay /\ mark[s] \in Present
    /\ mark' = [mark EXCEPT ![s] = m]
    /\ UNCHANGED <<event, phase, family, register, ready>>

LockRegister ==
    /\ Is("published") /\ register = "open" /\ phase = "ended"
    /\ \A s \in roster : /\ mark[s] \notin {"none", "not_recorded"}
                         /\ event.terms.twoWay => mark[s] \notin Present
    /\ register' = "locked"
    /\ UNCHANGED <<event, phase, family, mark, ready>>

ReopenRegister ==
    /\ Is("published") /\ register = "locked"
    /\ register' = "open"
    /\ UNCHANGED <<event, phase, family, mark, ready>>

-----------------------------------------------------------------------------

EventNext ==
    \/ \E t \in Terms : SaveDraft(t)
    \/ Discard \/ Publish \/ CancelEvent \/ Complete \/ EventClock
    \/ LockRegister \/ ReopenRegister
    \/ \E s \in Student :
            \/ Accept(s) \/ Decline(s) \/ Withdraw(s)
            \/ GrantConsentAuthority(s) \/ RevokeConsentAuthority(s)
            \/ \E d \in {"granted", "denied", "withdrawn"} : DecideConsent(s, d)
            \/ \E done \in BOOLEAN : CompleteChecklist(s, done)
            \/ \E m \in {"not_recorded", "present", "late", "excused", "no_show", "checked_out"} :
                    RecordMark(s, m)

EventSpec == EventInit /\ [][EventNext]_evars

-----------------------------------------------------------------------------

(* The rows of the event have their types, and its register is locked only *)
(* when the session is over.                                               *)
EventTypeOK ==
    /\ event.status \in {"none", "draft", "published", "cancelled", "completed"}
    /\ event.terms \in Terms
    /\ phase \in {"early", "entry", "started", "ended"}
    /\ rsvp \in [Student -> {"pending", "accepted", "declined"}]
    /\ invoice \in [Student -> {"none", "posted", "credited"}]
    /\ roster \subseteq Student /\ prepared \subseteq Student
    /\ mark \in [Student -> {"none", "not_recorded", "present", "late", "excused", "no_show",
                             "checked_out"}]
    /\ register \in {"open", "locked"} /\ (register = "locked" => phase = "ended")
    /\ granted \in [Student -> {"none", "active", "late", "revoked"}]
    /\ consent \in [Student -> {"none", "granted", "denied", "withdrawn"}]

(* The session's roster is who is expected at the event, and attendance    *)
(* stands only for those on it.                                            *)
RosterIsExpected ==
    Is("published") \/ Is("completed") =>
        /\ roster = {s \in Student : Expected(s)}
        /\ \A s \in Student : mark[s] # "none" => s \in roster

(* A family owes for an event exactly when the learner has a place at an   *)
(* event that takes place.                                                 *)
OwedIsExpected ==
    \A s \in Student :
        invoice[s] = "posted" <=>
            event.terms.paid /\ (Is("published") \/ Is("completed")) /\ Expected(s)

(* A completed event has a decision for everyone expected, and nobody who  *)
(* was counted in is left uncounted.                                       *)
CompletedIsComplete ==
    Is("completed") => \A s \in Student : Expected(s) =>
        /\ mark[s] \notin {"none", "not_recorded"}
        /\ event.terms.twoWay => mark[s] \notin Present

(* A learner put down as a no-show was expected and ready to come, and     *)
(* nothing that happens later makes that untrue.                           *)
NoShowWasReady == \A s \in Student : mark[s] = "no_show" => Expected(s) /\ Ready(s)

(* Roster and bills follow the answers of the families, whatever was       *)
(* accepted, declined, withdrawn, published and cancelled.                 *)
PlacesAgree == RosterIsExpected /\ OwedIsExpected

(* What the register says of a learner is complete and stays true.         *)
RegisterIsTrue == CompletedIsComplete /\ NoShowWasReady
=============================================================================
