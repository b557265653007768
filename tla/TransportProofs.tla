-------------------------- MODULE TransportProofs --------------------------
(***************************************************************************)
(* Proofs about Departure: the learner leaves one way, safely, and once.   *)
(* Proofs about TransportDuty: nobody is in two places and duties move by  *)
(* consent.                                                                *)
(***************************************************************************)
EXTENDS Departure, TransportDuty, TLAPS

-----------------------------------------------------------------------------
(* Departure.                                                              *)

(* A handover that ended the learner's day belongs to the current plan,    *)
(* which it completed; a plan that a trip completed had the learner        *)
(* dropped.                                                                *)
CompletedByHandover ==
    /\ \A n \in PlanNo : handover[n] \in Terminal =>
            n = current /\ plan.state = "completed"
    /\ plan.state = "completed" /\ plan.way \in Trip => rider[plan.way] = "dropped"

(* What became of a learner who boarded a trip. *)
RidersBoarded ==
    /\ \A t \in Trip : rider[t] = "boarded" => t \in boarded
    /\ \A t \in boarded : rider[t] \in {"boarded", "dropped", "exception"}
    /\ \A t \in Trip : rider[t] = "dropped" => trip[t] \in {"in_progress", "completed"}

DepartureInv == TypeOK /\ SafeDeparture /\ CompletedByHandover /\ RidersBoarded

LEMMA DepartureInit == Init => DepartureInv
BY WayAssumption, MaxPlansAssumption
   DEF Init, DepartureInv, TypeOK, PlanStates, SafeDeparture, LeavesOneWay, ReadyIsTrue,
       ClosedTripsAreSettled, CompletedByHandover, RidersBoarded, Terminal, PlanWay, PlanState,
       Collectable, NoRequest, Way, Unescorted, PlanNo

(* The parts of a safe departure, and the words plans are spoken of with.  *)
USE DEF DepartureInv, TypeOK, PlanStates, SafeDeparture, LeavesOneWay, ReadyIsTrue,
        ClosedTripsAreSettled, CompletedByHandover, RidersBoarded, Terminal, PlanWay,
        PlanState, SetPlan, Collectable, Way, Unescorted, PlanNo

(* A plan may be replaced only by the way the learner is on, if any, and   *)
(* not while the learner rides.                                            *)
LEMMA ReplaceStep ==
    ASSUME DepartureInv, NEW way \in Way, Replace(way),
           request' \in {request, NoRequest},
           UNCHANGED <<authority, trip, boarded, handover, passes, gate>>
    PROVE  DepartureInv'
<1> USE WayAssumption, MaxPlansAssumption
<1>0. MayReplace(way)
  BY DEF Replace
<1>1. /\ plan.state # "completed"
      /\ boarded \subseteq {way}
      /\ \A t \in Trip : rider[t] # "boarded"
      /\ way \in Trip => rider[way] = "expected"
  <2>1. plan.state # "completed" /\ (way \in Trip => rider[way] = "expected")
    BY <1>0 DEF MayReplace
  <2>2. ASSUME NEW t \in boarded PROVE t = way
    <3>1. t \in Trip /\ PlanWay({t})
      OBVIOUS
    <3>2. ~(t \in Trip \ {way} /\ PlanWay({t}))
      BY <1>0 DEF MayReplace, JourneyOpen
    <3> QED
      BY <3>1, <3>2
  <2>3. ASSUME NEW t \in Trip, rider[t] = "boarded" PROVE FALSE
    <3>1. t \in boarded
      BY <2>3
    <3> QED
      BY <2>1, <2>2, <2>3, <3>1
  <2> QED
    BY <2>1, <2>2, <2>3
<1>2. TypeOK'
  <2>1. current' \in 1..MaxPlans /\ plan' \in [way : Way, state : PlanStates]
        /\ plan'.state # "none"
    BY DEF Replace, MayReplace
  <2>2. request' \in [open : BOOLEAN, plan : 0..MaxPlans, way : Way]
    <3>1. NoRequest \in [open : BOOLEAN, plan : 0..MaxPlans, way : Way]
      BY DEF NoRequest
    <3> QED
      BY <3>1
  <2>3. rider' \in [Trip -> {"none", "expected", "boarded", "dropped", "not_riding", "exception"}]
    BY DEF Replace
  <2> QED
    BY <2>1, <2>2, <2>3
<1>3. LeavesOneWay'
  BY <1>1 DEF Replace, MayReplace
<1>4. ReadyIsTrue' /\ ClosedTripsAreSettled'
  BY <1>1 DEF Replace, MayReplace
<1>5. CompletedByHandover' /\ RidersBoarded'
  BY <1>1 DEF Replace, MayReplace
<1> QED
  BY <1>2, <1>3, <1>4, <1>5

(* Plans, receivers and requests. *)
LEMMA PlanStep ==
    ASSUME DepartureInv,
           \/ \E w \in Way : CreatePlan(w) \/ RequestChange(w)
           \/ MarkReady \/ CancelPlan \/ ApproveRequest \/ DeclineRequest
           \/ \E a \in Receiver : GrantAuthority(a) \/ RevokeAuthority(a)
    PROVE  DepartureInv'
<1> USE WayAssumption, MaxPlansAssumption
<1>1. ASSUME NEW w \in Way, CreatePlan(w) PROVE DepartureInv'
  BY <1>1, ReplaceStep DEF CreatePlan
<1>2. ASSUME NEW w \in Way, RequestChange(w) PROVE DepartureInv'
  BY <1>2 DEF RequestChange, Changeable, JourneyOpen
<1>3. ASSUME MarkReady PROVE DepartureInv'
  BY <1>3 DEF MarkReady
<1>4. ASSUME CancelPlan PROVE DepartureInv'
  BY <1>4 DEF CancelPlan
<1>5. ASSUME ApproveRequest PROVE DepartureInv'
  <2>1. request.way \in Way
    OBVIOUS
  <2> QED
    BY <1>5, <2>1, ReplaceStep DEF ApproveRequest
<1>6. ASSUME DeclineRequest PROVE DepartureInv'
  BY <1>6 DEF DeclineRequest, NoRequest
<1>7. ASSUME NEW a \in Receiver, GrantAuthority(a) PROVE DepartureInv'
  BY <1>7 DEF GrantAuthority
<1>8. ASSUME NEW a \in Receiver, RevokeAuthority(a) PROVE DepartureInv'
  BY <1>8 DEF RevokeAuthority
<1> QED
  BY <1>1, <1>2, <1>3, <1>4, <1>5, <1>6, <1>7, <1>8

(* Trips and riders. *)
LEMMA TripStep ==
    ASSUME DepartureInv, NEW t \in Trip,
           \/ OpenBoarding(t) \/ StartTrip(t) \/ CompleteTrip(t) \/ CancelTrip(t)
           \/ \E assigned \in BOOLEAN : PrepareRoster(t, assigned)
           \/ \E s \in {"boarded", "dropped", "not_riding", "exception"} : RecordRider(t, s)
    PROVE  DepartureInv'
<1> USE WayAssumption, MaxPlansAssumption
<1>1. ASSUME OpenBoarding(t) PROVE DepartureInv'
  BY <1>1 DEF OpenBoarding, AdvanceTrip
<1>2. ASSUME StartTrip(t) PROVE DepartureInv'
  BY <1>2 DEF StartTrip, AdvanceTrip
<1>3. ASSUME CompleteTrip(t) PROVE DepartureInv'
  BY <1>3 DEF CompleteTrip, AdvanceTrip
<1>4. ASSUME CancelTrip(t) PROVE DepartureInv'
  BY <1>4 DEF CancelTrip
<1>5. ASSUME NEW assigned \in BOOLEAN, PrepareRoster(t, assigned) PROVE DepartureInv'
  BY <1>5 DEF PrepareRoster
<1>6. ASSUME NEW s \in {"boarded", "dropped", "not_riding", "exception"}, RecordRider(t, s)
      PROVE  DepartureInv'
  <2>1. TypeOK'
    BY <1>6 DEF RecordRider, MayRecord
  <2>2. LeavesOneWay'
    BY <1>6 DEF RecordRider, MayRecord
  <2>3. ReadyIsTrue'
    BY <1>6 DEF RecordRider, MayRecord
  <2>4. ClosedTripsAreSettled' /\ RidersBoarded'
    BY <1>6 DEF RecordRider, MayRecord
  <2>5. CompletedByHandover'
    BY <1>6 DEF RecordRider, MayRecord
  <2> QED
    BY <2>1, <2>2, <2>3, <2>4, <2>5
<1> QED
  BY <1>1, <1>2, <1>3, <1>4, <1>5, <1>6

(* The office and the gate. *)
LEMMA HandOverStep ==
    ASSUME DepartureInv, NEW o \in Terminal \union {"concern"}, HandOver(o),
           passes' \subseteq passes, gate' \in {gate, "out"},
           gate' = "out" => gate = "out" \/ o \in Terminal,
           UNCHANGED <<current, request, authority, trip, rider, boarded>>
    PROVE  DepartureInv'
<1> USE WayAssumption, MaxPlansAssumption
<1>1. /\ plan.state = "ready" /\ ~PlanWay(Trip)
      /\ \A n \in PlanNo : handover[n] \notin Terminal
      /\ boarded = {} /\ \A t \in Trip : rider[t] # "boarded"
  BY DEF HandOver, MayHandOver
<1>2. TypeOK'
  BY DEF HandOver, MayHandOver
<1>3. LeavesOneWay'
  BY <1>1 DEF HandOver
<1>4. ReadyIsTrue' /\ ClosedTripsAreSettled' /\ RidersBoarded' /\ CompletedByHandover'
  BY <1>1 DEF HandOver
<1> QED
  BY <1>2, <1>3, <1>4

LEMMA GateStep ==
    ASSUME DepartureInv,
           \/ \E o \in {"handed_over", "departed_independently", "concern"} :
                    RecordHandover(o)
           \/ IssuePass \/ Leave \/ Enter \/ \E n \in PlanNo : ExpirePass(n)
    PROVE  DepartureInv'
<1> USE WayAssumption, MaxPlansAssumption
<1>1. ASSUME NEW o \in {"handed_over", "departed_independently", "concern"}, RecordHandover(o)
      PROVE  DepartureInv'
  BY <1>1, HandOverStep DEF RecordHandover
<1>2. ASSUME IssuePass PROVE DepartureInv'
  BY <1>2 DEF IssuePass
<1>3. ASSUME Leave PROVE DepartureInv'
  <2>1. PICK o \in {"handed_over", "departed_independently"} : HandOver(o)
    BY <1>3 DEF Leave
  <2> QED
    BY <1>3, <2>1, HandOverStep DEF Leave
<1>4. ASSUME Enter PROVE DepartureInv'
  BY <1>4 DEF Enter
<1>5. ASSUME NEW n \in PlanNo, ExpirePass(n) PROVE DepartureInv'
  BY <1>5 DEF ExpirePass
<1> QED
  BY <1>1, <1>2, <1>3, <1>4, <1>5

(* The inductive invariant: departures are safe because handovers complete *)
(* the plan they are for and a rider's state follows the boarding.         *)
THEOREM DepartureInvariant == Spec => []DepartureInv
<1>1. DepartureInv /\ [Next]_dvars => DepartureInv'
  <2> SUFFICES ASSUME DepartureInv, [Next]_dvars PROVE DepartureInv'
    OBVIOUS
  <2>1. CASE Next
    BY <2>1, PlanStep, TripStep, GateStep DEF Next
  <2>2. CASE UNCHANGED dvars
    BY <2>2 DEF dvars
  <2> QED
    BY <2>1, <2>2
<1> QED
  BY DepartureInit, <1>1, PTL DEF Spec

(* The rows of plans, trips and the gate have their types. *)
THEOREM DepartureTypes == Spec => []TypeOK
<1>1. DepartureInv => TypeOK
  OBVIOUS
<1> QED
  BY <1>1, DepartureInvariant, PTL

(* The learner leaves one way, with someone who may take the learner, and  *)
(* leaves no closed trip with anyone's fate open.                          *)
THEOREM DepartureIsSafe == Spec => []SafeDeparture
<1>1. DepartureInv => SafeDeparture
  BY DEF DepartureInv
<1> QED
  BY <1>1, DepartureInvariant, PTL

(* What the promise of LearnerCustody says of a step.  The learner who     *)
(* boarded rides by the current plan, which is therefore not replaced, and *)
(* who did not board is handed over once, by a plan that is ready.         *)
KeepsCustody == [Custody!CustodyNext]_(Custody!custody)

LEMMA CustodyStands ==
    ASSUME UNCHANGED <<boarded, authority>>, PlanState({"completed"})' = PlanState({"completed"}),
           boarded # {} \/ PlanState({"completed"}) => plan'.way = plan.way
    PROVE  KeepsCustody
BY DEF KeepsCustody, Custody!custody

LEMMA CustodyReplace ==
    ASSUME DepartureInv, NEW way \in Way, Replace(way), UNCHANGED <<boarded, authority>>
    PROVE  KeepsCustody
<1>1. plan.state # "completed" /\ plan'.state # "completed"
  BY DEF Replace, MayReplace
<1>2. boarded = {}
  <2>1. ASSUME NEW t \in boarded PROVE FALSE
    <3>1. t \in Trip /\ PlanWay({t}) /\ rider[t] # "expected"
      OBVIOUS
    <3>2. t # way
      BY <3>1 DEF Replace, MayReplace
    <3> QED
      BY <3>1, <3>2 DEF Replace, MayReplace, JourneyOpen
  <2> QED
    BY <2>1
<1> QED
  BY <1>1, <1>2, CustodyStands

LEMMA CustodyHandOver ==
    ASSUME DepartureInv, NEW o \in Terminal \union {"concern"}, HandOver(o),
           UNCHANGED <<boarded, authority>>
    PROVE  KeepsCustody
<1>1. /\ plan.state = "ready" /\ plan.way \in Way \ Trip
      /\ boarded = {}
      /\ plan.way \in Receiver => authority[plan.way] = "active"
  BY DEF HandOver, MayHandOver
<1>2. plan'.way = plan.way
  BY DEF HandOver
<1>3. CASE o \in Terminal
  <2>1. plan'.state = "completed"
    BY <1>3 DEF HandOver
  <2> QED
    BY <1>1, <1>2, <2>1
       DEF KeepsCustody, Custody!CustodyNext, Custody!Release, Custody!AtSchool
<1>4. CASE o \notin Terminal
  <2>1. plan'.state = "exception"
    BY <1>4 DEF HandOver
  <2> QED
    BY <1>1, <1>2, <2>1, CustodyStands
<1> QED
  BY <1>3, <1>4

LEMMA CustodyRide ==
    ASSUME DepartureInv, NEW t \in Trip,
           NEW s \in {"boarded", "dropped", "not_riding", "exception"}, RecordRider(t, s)
    PROVE  KeepsCustody
<1>1. plan'.way = plan.way /\ UNCHANGED authority
  BY DEF RecordRider
<1>2. ~(PlanState({"completed"}) /\ PlanWay({t}))
  BY DEF RecordRider, MayRecord
<1>3. CASE s = "boarded"
  <2>1. /\ plan.way = t /\ plan.state # "completed" /\ plan'.state # "completed"
        /\ boarded' = boarded \union {t} /\ boarded \subseteq {t}
    BY <1>3 DEF RecordRider, MayRecord
  <2> QED
    BY <1>1, <2>1
       DEF KeepsCustody, Custody!custody, Custody!CustodyNext, Custody!Board, Custody!AtSchool
<1>4. CASE s = "dropped"
  <2>1. /\ plan.way = t /\ plan.state # "completed" /\ plan'.state = "completed"
        /\ boarded' = boarded /\ t \in boarded
    BY <1>2, <1>4 DEF RecordRider, MayRecord
  <2> QED
    BY <1>1, <2>1 DEF KeepsCustody, Custody!CustodyNext, Custody!Arrive
<1>5. CASE s \in {"not_riding", "exception"}
  <2>1. boarded' = boarded
    BY <1>5 DEF RecordRider
  <2>2. PlanState({"completed"})' = PlanState({"completed"})
    BY <1>2, <1>5 DEF RecordRider
  <2> QED
    BY <1>1, <2>1, <2>2, CustodyStands
<1> QED
  BY <1>3, <1>4, <1>5

LEMMA CustodyStep ==
    ASSUME DepartureInv, [Next]_dvars
    PROVE  KeepsCustody
<1>1. ASSUME NEW w \in Way, CreatePlan(w) PROVE KeepsCustody
  BY <1>1, CustodyReplace DEF CreatePlan
<1>2. ASSUME NEW w \in Way, RequestChange(w) PROVE KeepsCustody
  BY <1>2, CustodyStands DEF RequestChange, Changeable
<1>3. CASE MarkReady \/ CancelPlan \/ DeclineRequest
  BY <1>3, CustodyStands DEF MarkReady, CancelPlan, DeclineRequest
<1>4. CASE ApproveRequest
  <2>1. request.way \in Way
    OBVIOUS
  <2> QED
    BY <1>4, <2>1, CustodyReplace DEF ApproveRequest
<1>5. ASSUME NEW a \in Receiver, GrantAuthority(a) PROVE KeepsCustody
  <2>1. Custody!Trust(a)
    BY <1>5 DEF GrantAuthority, Custody!Trust
  <2> QED
    BY <2>1 DEF KeepsCustody, Custody!CustodyNext
<1>6. ASSUME NEW a \in Receiver, RevokeAuthority(a) PROVE KeepsCustody
  <2>1. plan'.way = plan.way /\ PlanState({"completed"})' = PlanState({"completed"})
    BY <1>6 DEF RevokeAuthority
  <2>2. Custody!Distrust(a)
    BY <1>6, <2>1 DEF RevokeAuthority, Custody!Distrust
  <2> QED
    BY <2>2 DEF KeepsCustody, Custody!CustodyNext
<1>7. ASSUME NEW t \in Trip, OpenBoarding(t) \/ StartTrip(t) \/ CompleteTrip(t) \/ CancelTrip(t)
      PROVE  KeepsCustody
  BY <1>7, CustodyStands DEF OpenBoarding, StartTrip, CompleteTrip, CancelTrip, AdvanceTrip
<1>8. ASSUME NEW t \in Trip, NEW assigned \in BOOLEAN, PrepareRoster(t, assigned)
      PROVE  KeepsCustody
  <2>1. current = 0 => boarded = {} /\ plan.state = "none"
    OBVIOUS
  <2> QED
    BY <1>8, <2>1, CustodyStands DEF PrepareRoster
<1>9. ASSUME NEW o \in {"handed_over", "departed_independently", "concern"}, RecordHandover(o)
      PROVE  KeepsCustody
  BY <1>9, CustodyHandOver DEF RecordHandover
<1>10. CASE Leave
  <2>1. PICK o \in {"handed_over", "departed_independently"} : HandOver(o)
    BY <1>10 DEF Leave
  <2> QED
    BY <1>10, <2>1, CustodyHandOver DEF Leave
<1>11. CASE IssuePass \/ Enter \/ (\E n \in PlanNo : ExpirePass(n)) \/ UNCHANGED dvars
  BY <1>11, CustodyStands DEF IssuePass, Enter, ExpirePass, dvars
<1> QED
  BY <1>1, <1>2, <1>3, <1>4, <1>5, <1>6, <1>7, <1>8, <1>9, <1>10, <1>11, CustodyRide DEF Next

(* The departure keeps the promise made to the family, whatever plans are  *)
(* replaced, receivers revoked and trips put in question on the way.       *)
THEOREM DepartureKeepsCustody == Spec => ImplementsCustody
<1>1. Init => Custody!Begin
  BY DEF Init, Custody!Begin
<1>2. DepartureInv /\ [Next]_dvars => [Custody!CustodyNext]_(Custody!custody)
  BY CustodyStep DEF KeepsCustody
<1> QED
  BY <1>1, <1>2, DepartureInvariant, PTL DEF Spec, ImplementsCustody, Custody!CustodySpec

(* A completed departure is never taken back. *)
THEOREM CompletedStaysCompleted == Spec => CompletedIsFinal
<1>1. ASSUME DepartureInv, Next, plan.state = "completed"
      PROVE  UNCHANGED <<plan, current, handover>>
  <2>1. CASE \/ \E w \in Way : CreatePlan(w) \/ RequestChange(w)
             \/ MarkReady \/ CancelPlan \/ ApproveRequest \/ DeclineRequest
             \/ \E a \in Receiver : GrantAuthority(a) \/ RevokeAuthority(a)
    BY <1>1, <2>1 DEF CreatePlan, RequestChange, Changeable, MarkReady, CancelPlan,
        ApproveRequest, DeclineRequest, GrantAuthority, RevokeAuthority, Replace, MayReplace
  <2>2. ASSUME NEW t \in Trip,
               \/ OpenBoarding(t) \/ StartTrip(t) \/ CompleteTrip(t) \/ CancelTrip(t)
               \/ \E assigned \in BOOLEAN : PrepareRoster(t, assigned)
        PROVE  UNCHANGED <<plan, current, handover>>
    BY <1>1, <2>2 DEF OpenBoarding, StartTrip, CompleteTrip, CancelTrip, AdvanceTrip,
        PrepareRoster
  <2>3. ASSUME NEW t \in Trip, NEW s \in {"boarded", "dropped", "not_riding", "exception"},
               RecordRider(t, s)
        PROVE  UNCHANGED <<plan, current, handover>>
    BY <1>1, <2>3 DEF RecordRider, MayRecord
  <2>4. CASE \/ \E o \in {"handed_over", "departed_independently", "concern"} :
                    RecordHandover(o)
             \/ IssuePass \/ Leave \/ Enter \/ \E n \in PlanNo : ExpirePass(n)
    BY <1>1, <2>4 DEF RecordHandover, Leave, HandOver, MayHandOver, IssuePass, Enter, ExpirePass
  <2> QED
    BY <1>1, <2>1, <2>2, <2>3, <2>4 DEF Next
<1>2. DepartureInv /\ [Next]_dvars =>
        [PlanState({"completed"}) => UNCHANGED <<plan, current, handover>>]_dvars
  BY <1>1
<1> QED
  BY <1>2, DepartureInvariant, PTL DEF Spec, CompletedIsFinal

-----------------------------------------------------------------------------
(* Transport duty.                                                         *)

(* An open request is to someone else than the one who asks, and was made  *)
(* at a revision that a journey there is has had.                          *)
SwapsAreOfJourneys ==
    \A j \in Journey : Open(j) =>
        /\ swap[j].to # swap[j].from
        /\ swap[j].revision <= journey[j].revision
        /\ journey[j].state # "none"

DutyInv == DutyTypeOK /\ NobodyInTwoPlaces /\ SwapsAreOfJourneys

LEMMA DutyInitInv == DutyInit => DutyInv
BY DutyBoundsAssumption, NoDutyAssumption
   DEF DutyInit, DutyInv, DutyTypeOK, NobodyInTwoPlaces, SwapsAreOfJourneys, Open, NoSwap,
       Attends, Live, Active, Planned

USE DEF DutyInv, DutyTypeOK, NobodyInTwoPlaces, SwapsAreOfJourneys, Open, Attends, Live,
        Active, Planned

(* A journey whose collector and answer stay and that becomes active only  *)
(* if its collector has no other active one: assignment is undisturbed.    *)
LEMMA JourneyStep ==
    ASSUME DutyInv, NEW j \in Journey,
           \/ \E c \in Collector : \/ AssignCollector(j, c)
                                   \/ \E time \in 1..LastTime : CreateJourney(j, c, time)
           \/ RefreshJourney(j) \/ OpenJourney(j) \/ StartJourney(j)
           \/ \E answer \in {"accepted", "declined"} : Respond(j, answer)
           \/ \E state \in {"completed", "cancelled"} : CloseJourney(j, state)
    PROVE  DutyInv'
<1> USE DutyBoundsAssumption, NoDutyAssumption
<1>1. ASSUME NEW c \in Collector, AssignCollector(j, c) PROVE DutyInv'
  BY <1>1 DEF AssignCollector, Sets, Changed, NoConflict, NoSwap, Room
<1>2. ASSUME NEW c \in Collector, NEW time \in 1..LastTime, CreateJourney(j, c, time)
      PROVE  DutyInv'
  BY <1>2 DEF CreateJourney, NoConflict, Room
<1>3. ASSUME RefreshJourney(j) PROVE DutyInv'
  BY <1>3 DEF RefreshJourney, Sets, Changed, Room
<1>4. ASSUME OpenJourney(j) PROVE DutyInv'
  BY <1>4 DEF OpenJourney, NoOther, Sets, Changed, Room
<1>5. ASSUME StartJourney(j) PROVE DutyInv'
  BY <1>5 DEF StartJourney, NoOther, Sets, Changed, Room
<1>6. ASSUME NEW answer \in {"accepted", "declined"}, Respond(j, answer) PROVE DutyInv'
  BY <1>6 DEF Respond, Sets, Changed, Room
<1>7. ASSUME NEW state \in {"completed", "cancelled"}, CloseJourney(j, state) PROVE DutyInv'
  BY <1>7 DEF CloseJourney, Sets, Changed, Room
<1> QED
  BY <1>1, <1>2, <1>3, <1>4, <1>5, <1>6, <1>7

(* What an approved exchange finds: two collectors, and two journeys. *)
LEMMA ApprovedSwap ==
    ASSUME DutyInv, NEW j \in Journey, ApproveSwap(j)
    PROVE  LET s == swap[j] IN
           /\ journey[j].collector = s.from /\ s.to # s.from
           /\ journey[j].answer = "accepted" /\ journey[j].state = "planned"
           /\ s.for \in Journey =>
                /\ s.for # j /\ journey[s.for].collector = s.to
                /\ journey[s.for].state = "planned"
BY DEF ApproveSwap, UnchangedSinceRequest

LEMMA SwapStep ==
    ASSUME DutyInv, NEW j \in Journey,
           \/ \E c \in Collector, for \in Journey \union {NoJourney} : RequestSwap(j, c, for)
           \/ \E status \in {"accepted", "rejected"} : RespondSwap(j, status)
           \/ DeclineSwap(j) \/ ApproveSwap(j)
    PROVE  DutyInv'
<1> USE DutyBoundsAssumption, NoDutyAssumption
<1>1. ASSUME NEW c \in Collector, NEW for \in Journey \union {NoJourney}, RequestSwap(j, c, for)
      PROVE  DutyInv'
  BY <1>1 DEF RequestSwap, WindowOpen
<1>2. ASSUME NEW status \in {"accepted", "rejected"}, RespondSwap(j, status) PROVE DutyInv'
  BY <1>2 DEF RespondSwap, NoSwap
<1>3. ASSUME DeclineSwap(j) PROVE DutyInv'
  BY <1>3 DEF DeclineSwap, NoSwap
<1>4. ASSUME ApproveSwap(j) PROVE DutyInv'
  <2> DEFINE s == swap[j]
  <2>1. /\ journey[j].collector = s.from /\ s.to # s.from
        /\ journey[j].answer = "accepted" /\ journey[j].state = "planned"
        /\ s.for \in Journey =>
             /\ s.for # j /\ journey[s.for].collector = s.to
             /\ journey[s.for].state = "planned"
    BY <1>4, ApprovedSwap
  <2>2. DutyTypeOK' /\ SwapsAreOfJourneys'
    BY <1>4, <2>1 DEF ApproveSwap, Exchanges, Changed, Room, NoSwap
  <2>3. NobodyInTwoPlaces'
    BY <1>4, <2>1 DEF ApproveSwap, Exchanges, Changed, Room, NoConflict
  <2> QED
    BY <2>2, <2>3
<1> QED
  BY <1>1, <1>2, <1>3, <1>4

(* The inductive invariant of duties: a request that may still be decided  *)
(* is from the collector who has the journey, so what is exchanged is what *)
(* was looked at for conflicts.                                            *)
THEOREM DutyInvariant == DutySpec => []DutyInv
<1>1. DutyInv /\ [DutyNext]_tvars => DutyInv'
  <2> SUFFICES ASSUME DutyInv, [DutyNext]_tvars PROVE DutyInv'
    OBVIOUS
  <2>1. CASE WindowCloses
    BY <2>1, DutyBoundsAssumption DEF WindowCloses
  <2>2. CASE UNCHANGED tvars
    BY <2>2 DEF tvars
  <2> QED
    BY <2>1, <2>2, JourneyStep, SwapStep DEF DutyNext
<1> QED
  BY DutyInitInv, <1>1, PTL DEF DutySpec

(* Journeys and duty changes have their types. *)
THEOREM DutyTypes == DutySpec => []DutyTypeOK
<1>1. DutyInv => DutyTypeOK
  BY DEF DutyInv
<1> QED
  BY <1>1, DutyInvariant, PTL

(* No collector is expected on two journeys at one time or is on two.      *)
THEOREM NobodyIsInTwoPlaces == DutySpec => []NobodyInTwoPlaces
<1>1. DutyInv => NobodyInTwoPlaces
  BY DEF DutyInv
<1> QED
  BY <1>1, DutyInvariant, PTL

(* An accepted duty changes hands only between the two who agreed, and an  *)
(* exchange goes both ways.                                                *)
THEOREM DutiesMoveByConsent == DutySpec => MovesByConsent
<1> DEFINE Moved(k) == journey'[k].answer = "accepted" /\ journey'[k].collector # journey[k].collector
           Agreed(k, j) ==
                /\ Gives(j, k, journey[k].collector, journey'[k].collector)
                /\ \A i \in {j, swap[j].for} \ {NoJourney} :
                        journey'[i].collector # journey[i].collector
<1>1. ASSUME DutyInv, DutyNext, NEW k \in Journey, Moved(k)
      PROVE  \E j \in Journey : Agreed(k, j)
  <2>0. ASSUME NEW j \in Journey,
               \/ \E c \in Collector :
                    \/ AssignCollector(j, c) \/ \E time \in 1..LastTime : CreateJourney(j, c, time)
                    \/ \E for \in Journey \union {NoJourney} : RequestSwap(j, c, for)
               \/ RefreshJourney(j) \/ OpenJourney(j) \/ StartJourney(j)
               \/ \E answer \in {"accepted", "declined"} : Respond(j, answer)
               \/ \E state \in {"completed", "cancelled"} : CloseJourney(j, state)
               \/ \E status \in {"accepted", "rejected"} : RespondSwap(j, status)
               \/ DeclineSwap(j)
        PROVE  FALSE
    <3>1. CASE \E c \in Collector :
                    \/ AssignCollector(j, c) \/ \E time \in 1..LastTime : CreateJourney(j, c, time)
                    \/ \E for \in Journey \union {NoJourney} : RequestSwap(j, c, for)
      BY <1>1, <3>1 DEF AssignCollector, CreateJourney, RequestSwap, Sets, Changed
    <3>2. CASE RefreshJourney(j)
      BY <1>1, <3>2 DEF RefreshJourney, Sets, Changed
    <3>6. CASE OpenJourney(j)
      BY <1>1, <3>6 DEF OpenJourney, Sets, Changed
    <3>7. CASE StartJourney(j)
      BY <1>1, <3>7 DEF StartJourney, Sets, Changed
    <3>3. CASE \E answer \in {"accepted", "declined"} : Respond(j, answer)
      BY <1>1, <3>3 DEF Respond, Sets, Changed
    <3>4. CASE \E state \in {"completed", "cancelled"} : CloseJourney(j, state)
      BY <1>1, <3>4 DEF CloseJourney, Sets, Changed
    <3>5. CASE (\E status \in {"accepted", "rejected"} : RespondSwap(j, status)) \/ DeclineSwap(j)
      BY <1>1, <3>5 DEF RespondSwap, DeclineSwap
    <3> QED
      BY <2>0, <3>1, <3>2, <3>3, <3>4, <3>5, <3>6, <3>7
  <2>1. PICK j \in Journey : ApproveSwap(j)
    BY <1>1, <2>0 DEF DutyNext, WindowCloses
  <2>2. LET s == swap[j] IN
        /\ journey[j].collector = s.from /\ s.to # s.from
        /\ s.for \in Journey => s.for # j /\ journey[s.for].collector = s.to
    BY <1>1, <2>1, ApprovedSwap
  <2>3. Agreed(k, j)
    BY <1>1, <2>1, <2>2, NoDutyAssumption DEF ApproveSwap, Exchanges, Changed, Gives
  <2> QED
    BY <2>3
<1>2. DutyInv /\ [DutyNext]_tvars =>
        [\A k \in Journey : Moved(k) => \E j \in Journey : Agreed(k, j)]_tvars
  BY <1>1
<1> QED
  BY <1>2, DutyInvariant, PTL DEF DutySpec, MovesByConsent
=============================================================================
