----------------------------- MODULE Departure -----------------------------
(***************************************************************************)
(* How one learner leaves the institution on one date: the revisions of    *)
(* the departure plan, the requests to change it, the receivers who may    *)
(* collect the learner, the afternoon trips with their rosters, and the    *)
(* gate.                                                                   *)
(*                                                                         *)
(* Every writer takes the lock of the school before it reads, so each      *)
(* operation is one step; a request with an old expected_revision is       *)
(* refused and is no step.  The way a plan names is a receiver (guardian   *)
(* pickup or authorized collector), a trip (school transport), or one of   *)
(* Unescorted.  Plans are numbered as they are made.  Nothing reads the    *)
(* state of a superseded plan, but its pass and its handover may be left.  *)
(***************************************************************************)
EXTENDS Naturals

CONSTANTS
    Receiver,       \* departure_collection_authorities
    Trip,           \* trips from the institution on this date
    Alone, External,
    MaxPlans        \* bound: revisions of the plan

Unescorted == {Alone, External}
Way == Receiver \union Trip \union Unescorted

ASSUME WayAssumption ==
    /\ Receiver \intersect Trip = {} /\ Alone # External
    /\ Unescorted \intersect (Receiver \union Trip) = {}
ASSUME MaxPlansAssumption == MaxPlans \in Nat

PlanNo == 1..MaxPlans

VARIABLES
    plan,           \* way and state of the departure_plan with is_current
    current,        \* its number, 0 if there is none
    request,        \* the submitted departure_change_request
    authority,      \* state of each receiver's grant
    trip,           \* transport_trips.state
    rider,          \* the learner's transport_trip_roster.state on each trip
    boarded,        \* trips with a boarded_at for the learner
    handover,       \* departure_handovers.outcome, one for each plan at most
    passes,         \* plans with a pickup pass that is unused and unexpired
    gate            \* direction of the learner's last gate_event

NoRequest == [open |-> FALSE, plan |-> 0, way |-> Alone]

dvars == <<plan, current, request, authority, trip, rider, boarded, handover,
           passes, gate>>

(* The other outcomes - refused, no_show, escalated - are a concern. *)
Terminal == {"handed_over", "departed_independently", "transport_dropped"}

Init ==
    /\ plan = [way |-> Alone, state |-> "none"]
    /\ current = 0
    /\ request = NoRequest
    /\ authority = [a \in Receiver |-> "none"]
    /\ trip = [t \in Trip |-> "none"]
    /\ rider = [t \in Trip |-> "none"]
    /\ boarded = {}
    /\ handover = [n \in PlanNo |-> "none"]
    /\ passes = {}
    /\ gate = "none"

PlanState(s) == plan.state \in s
PlanWay(w) == current # 0 /\ plan.way \in w
SetPlan(s) == plan' = [plan EXCEPT !.state = s]
Collectable(way) == way \in Receiver => authority[way] = "active"

-----------------------------------------------------------------------------
(* Plans: upsertPlan and its callers.                                      *)

(* Mutant: only a journey in question blocks it. *)
JourneyInQuestion(t) == rider[t] = "exception"

(* A journey under way or in question blocks every other arrangement. *)
JourneyOpen(t) == t \in boarded \/ rider[t] = "exception"

MayReplace(way) ==
    /\ current < MaxPlans
    /\ ~PlanState({"completed"})
    /\ Collectable(way)
    /\ way \in Trip => trip[way] \in {"planned", "boarding"} /\ rider[way] = "expected"
    /\ \A t \in Trip \ {way} : PlanWay({t}) => ~JourneyOpen(t)

(* The old plan keeps its state; its seat on another trip is given up. *)
Replace(way) ==
    /\ MayReplace(way)
    /\ current' = current + 1
    /\ plan' = [way |-> way, state |-> "planned"]
    /\ rider' = [t \in Trip |-> IF PlanWay({t}) /\ t # way /\ rider[t] = "expected"
                                THEN "not_riding" ELSE rider[t]]

CreatePlan(way) ==
    /\ Replace(way)
    /\ UNCHANGED <<request, authority, trip, boarded, handover, passes, gate>>

MarkReady ==
    /\ ~PlanWay(Trip) /\ PlanState({"planned"})
    /\ Collectable(plan.way)
    /\ SetPlan("ready")
    /\ UNCHANGED <<current, request, authority, trip, rider, boarded, handover, passes, gate>>

CancelPlan ==
    /\ ~PlanWay(Trip) /\ PlanState({"planned", "change_pending", "ready", "exception"})
    /\ SetPlan("cancelled")
    /\ UNCHANGED <<current, request, authority, trip, rider, boarded, handover, passes, gate>>

GrantAuthority(a) ==
    /\ authority[a] = "none"
    /\ authority' = [authority EXCEPT ![a] = "active"]
    /\ UNCHANGED <<plan, current, request, trip, rider, boarded, handover, passes, gate>>

RevokeAuthority(a) ==
    /\ authority[a] = "active"
    /\ authority' = [authority EXCEPT ![a] = "revoked"]
    /\ IF PlanWay({a}) /\ PlanState({"planned", "ready", "change_pending"})
       THEN SetPlan("exception") ELSE UNCHANGED plan
    /\ UNCHANGED <<current, request, trip, rider, boarded, handover, passes, gate>>

-----------------------------------------------------------------------------
(* Change requests: requestChange, recordOfficeRequest, decideRequest,     *)
(* withdrawRequest.                                                        *)

Changeable ==
    /\ ~request.open
    /\ ~PlanState({"completed", "cancelled"})
    /\ \A t \in Trip : PlanWay({t}) => ~JourneyOpen(t)

RequestChange(way) ==
    /\ Changeable
    /\ request' = [open |-> TRUE, plan |-> current, way |-> way]
    /\ IF current # 0 THEN SetPlan("change_pending") ELSE UNCHANGED plan
    /\ UNCHANGED <<current, authority, trip, rider, boarded, handover, passes, gate>>

ApproveRequest ==
    /\ request.open
    /\ request.plan = current
    /\ current # 0 => PlanState({"change_pending"})
    /\ Replace(request.way)
    /\ request' = NoRequest
    /\ UNCHANGED <<authority, trip, boarded, handover, passes, gate>>

(* Mutant: the plan is planned again whatever became of it. *)
DeclineRequestAlways ==
    /\ request.open
    /\ IF request.plan = current /\ current # 0
       THEN SetPlan("planned") ELSE UNCHANGED plan
    /\ request' = NoRequest
    /\ UNCHANGED <<current, authority, trip, rider, boarded, handover, passes, gate>>

(* Rejected or withdrawn: a plan that still waits is planned again. *)
DeclineRequest ==
    /\ request.open
    /\ IF request.plan = current /\ PlanState({"change_pending"})
       THEN SetPlan("planned") ELSE UNCHANGED plan
    /\ request' = NoRequest
    /\ UNCHANGED <<current, authority, trip, rider, boarded, handover, passes, gate>>

-----------------------------------------------------------------------------
(* Trips and riders.                                                       *)

(* prepareTripRoster, when a trip is made and whenever its roster is       *)
(* refreshed before boarding opens: a learner assigned to its route joins, *)
(* with a plan if there is none and as not riding otherwise; one no longer *)
(* assigned is put in question.                                            *)
PrepareRoster(t, assigned) ==
    LET joins == assigned /\ rider[t] = "none"
    IN  /\ trip[t] \in {"none", "planned"}
        /\ trip' = [trip EXCEPT ![t] = "planned"]
        /\ rider' = [rider EXCEPT ![t] =
                        CASE joins /\ current = 0 -> "expected"
                          [] joins /\ current # 0 -> "not_riding"
                          [] ~assigned /\ @ = "expected" -> "exception"
                          [] OTHER -> @]
        /\ IF joins /\ current = 0
           THEN /\ MaxPlans > 0
                /\ current' = 1
                /\ plan' = [way |-> t, state |-> "planned"]
           ELSE UNCHANGED <<current, plan>>
        /\ UNCHANGED <<request, authority, boarded, handover, passes, gate>>

AdvanceTrip(t, from, to) ==
    /\ trip[t] = from
    /\ trip' = [trip EXCEPT ![t] = to]
    /\ UNCHANGED <<plan, current, request, authority, rider, boarded, handover, passes, gate>>

OpenBoarding(t) == AdvanceTrip(t, "planned", "boarding")
StartTrip(t) ==
    rider[t] \notin {"expected", "exception"} /\ AdvanceTrip(t, "boarding", "in_progress")

CompleteTrip(t) ==
    /\ rider[t] \notin {"expected", "boarded", "exception"}
    /\ AdvanceTrip(t, "in_progress", "completed")

CancelTrip(t) ==
    /\ trip[t] \in {"planned", "boarding"}
    /\ rider[t] \notin {"boarded", "exception"}
    /\ trip' = [trip EXCEPT ![t] = "cancelled"]
    /\ IF PlanWay({t}) /\ ~PlanState({"completed", "cancelled"})
       THEN SetPlan("exception") ELSE UNCHANGED plan
    /\ UNCHANGED <<current, request, authority, rider, boarded, handover, passes, gate>>

(* assertRiderTransition, and the plan the boarding needs. *)
MayRecord(t, state) ==
    /\ trip[t] \in {"boarding", "in_progress"}
    /\ rider[t] \notin {"none", "dropped", "not_riding", state}
    /\ state = "not_riding" => t \notin boarded
    /\ state = "dropped" =>
            t \in boarded /\ rider[t] # "expected" /\ trip[t] = "in_progress"
    /\ state = "boarded" =>
            /\ trip[t] = "boarding" \/ rider[t] = "exception"
            /\ PlanWay({t}) /\ PlanState({"planned", "ready", "exception"})

RecordRider(t, state) ==
    /\ MayRecord(t, state)
    /\ rider' = [rider EXCEPT ![t] = state]
    /\ boarded' = boarded \union {b \in {t} : state = "boarded"}
    /\ IF PlanWay({t})
       THEN /\ SetPlan(CASE state = "dropped" -> "completed"
                         [] state = "boarded" -> "ready"
                         [] OTHER -> "exception")
            /\ handover' = [handover EXCEPT ![current] =
                    IF state = "dropped" /\ @ = "none" THEN "transport_dropped" ELSE @]
       ELSE UNCHANGED <<plan, handover>>
    /\ UNCHANGED <<current, request, authority, trip, passes, gate>>

-----------------------------------------------------------------------------
(* Handover by the office and at the gate.                                 *)

MayHandOver ==
    /\ PlanState({"ready"}) /\ ~PlanWay(Trip)
    /\ Collectable(plan.way)
    /\ handover[current] = "none"   \* UNIQUE (plan_id)

HandOver(outcome) ==
    /\ MayHandOver
    /\ outcome = "departed_independently" => PlanWay({Alone})
    /\ outcome = "handed_over" => ~PlanWay({Alone})
    /\ handover' = [handover EXCEPT ![current] = outcome]
    /\ SetPlan(IF outcome \in Terminal THEN "completed" ELSE "exception")

RecordHandover(outcome) ==
    /\ HandOver(outcome)
    /\ UNCHANGED <<current, request, authority, trip, rider, boarded, passes, gate>>

IssuePass ==
    /\ PlanState({"ready"}) /\ PlanWay(Receiver \union {Alone})
    /\ Collectable(plan.way)
    /\ passes' = passes \union {current}
    /\ UNCHANGED <<plan, current, request, authority, trip, rider, boarded, handover, gate>>

ExpirePass(n) ==
    /\ n \in passes
    /\ passes' = passes \ {n}
    /\ UNCHANGED <<plan, current, request, authority, trip, rider, boarded, handover, gate>>

(* The pass that is used is spent; another one of this plan may be left. *)
Leave ==
    /\ gate = "in" /\ current \in passes
    /\ ~PlanWay(Trip \union {External})
    /\ HandOver(IF PlanWay({Alone}) THEN "departed_independently" ELSE "handed_over")
    /\ passes' \in {passes, passes \ {current}}
    /\ gate' = "out"
    /\ UNCHANGED <<current, request, authority, trip, rider, boarded>>

Enter ==
    /\ gate # "in"
    /\ gate' = "in"
    /\ UNCHANGED <<plan, current, request, authority, trip, rider, boarded, handover, passes>>

-----------------------------------------------------------------------------

Next ==
    \/ \E w \in Way : CreatePlan(w) \/ RequestChange(w)
    \/ MarkReady \/ CancelPlan \/ ApproveRequest \/ DeclineRequest
    \/ \E a \in Receiver : GrantAuthority(a) \/ RevokeAuthority(a)
    \/ \E t \in Trip :
            \/ OpenBoarding(t) \/ StartTrip(t) \/ CompleteTrip(t) \/ CancelTrip(t)
            \/ \E assigned \in BOOLEAN : PrepareRoster(t, assigned)
            \/ \E s \in {"boarded", "dropped", "not_riding", "exception"} : RecordRider(t, s)
    \/ \E o \in {"handed_over", "departed_independently", "concern"} :
            RecordHandover(o)
    \/ IssuePass \/ Leave \/ Enter \/ \E n \in PlanNo : ExpirePass(n)

Spec == Init /\ [][Next]_dvars

-----------------------------------------------------------------------------

PlanStates == {"none", "planned", "change_pending", "ready", "completed",
               "exception", "cancelled"}

(* The rows have their types.                                              *)
TypeOK ==
    /\ plan \in [way : Way, state : PlanStates]
    /\ current \in 0..MaxPlans
    /\ plan.state = "none" <=> current = 0
    /\ request \in [open : BOOLEAN, plan : 0..MaxPlans, way : Way]
    /\ authority \in [Receiver -> {"none", "active", "revoked"}]
    /\ trip \in [Trip -> {"none", "planned", "boarding", "in_progress", "completed", "cancelled"}]
    /\ rider \in [Trip -> {"none", "expected", "boarded", "dropped", "not_riding", "exception"}]
    /\ boarded \subseteq Trip
    /\ handover \in [PlanNo -> Terminal \union {"none", "concern"}]
    /\ passes \subseteq PlanNo
    /\ gate \in {"none", "in", "out"}

(* The learner leaves one way: at most one plan was carried out, a learner *)
(* who boarded a trip is not handed to anyone else, and a learner who went *)
(* out at the gate was released by the current plan.                       *)
LeavesOneWay ==
    /\ \A m, n \in PlanNo :
            handover[m] \in Terminal /\ handover[n] \in Terminal => m = n
    /\ \A t \in boarded : PlanWay({t})
    /\ gate = "out" => PlanState({"completed"}) /\ handover[current] \in Terminal

(* A plan that is ready names someone the learner may go with now: a       *)
(* receiver whose grant stands, or the trip the learner is on; and who is  *)
(* on a trip has a plan that says so.                                      *)
ReadyIsTrue ==
    /\ PlanState({"ready"}) =>
            /\ Collectable(plan.way)
            /\ \A t \in Trip : PlanWay({t}) => rider[t] = "boarded"
    /\ \A t \in Trip : rider[t] = "boarded" => PlanWay({t}) /\ PlanState({"ready"})

(* A trip is closed with nobody on board and nobody's fate open.           *)
ClosedTripsAreSettled ==
    \A t \in Trip :
        /\ trip[t] = "completed" => rider[t] \notin {"expected", "boarded", "exception"}
        /\ trip[t] = "cancelled" => t \notin boarded /\ rider[t] # "exception"

(* The departure is one, is with someone who may take the learner now, and *)
(* leaves no trip with anyone's fate open.                                 *)
SafeDeparture == LeavesOneWay /\ ReadyIsTrue /\ ClosedTripsAreSettled

(* A carried-out departure is final: the plan stays current and completed, *)
(* its handover stays what was recorded.                                   *)
CompletedIsFinal ==
    [][PlanState({"completed"}) =>
            UNCHANGED <<plan, current, handover>>]_dvars

(* The departure keeps the promise of LearnerCustody: who boarded or was   *)
(* handed over went the way of the current plan, and nobody hands the      *)
(* learner to a receiver whose grant was revoked, or a second time.        *)
Custody == INSTANCE LearnerCustody WITH
    Journey <- Trip,
    with <- IF boarded # {} \/ PlanState({"completed"}) THEN {plan.way} ELSE {},
    over <- PlanState({"completed"}),
    trusted <- {a \in Receiver : authority[a] = "active"}

ImplementsCustody == Custody!CustodySpec
=============================================================================
