--------------------------- MODULE TransportDuty ---------------------------
(***************************************************************************)
(* Who attends which journey: assignment by the office, acceptance by the  *)
(* collector, and requests to have a colleague cover a journey or exchange *)
(* journeys with one.  Every operation holds the lock of the school; a     *)
(* request for a duty change remembers the revisions of the journeys it    *)
(* was made for, and is decided much later.                                *)
(***************************************************************************)
EXTENDS Naturals

CONSTANTS
    Collector, Journey,
    NoCollector, NoJourney,
    LastTime,           \* bound: departure times are 1..LastTime
    MaxJourneyRevision  \* bound: changes of one journey

ASSUME DutyBoundsAssumption == LastTime \in Nat /\ MaxJourneyRevision \in Nat
ASSUME NoDutyAssumption == NoCollector \notin Collector /\ NoJourney \notin Journey

VARIABLES
    journey,    \* transport_trips: state, departure, collector, answer, revision
    swap,       \* the open duty swap request made for each journey
    closed      \* the last departure time whose duty change window has closed

tvars == <<journey, swap, closed>>

NoSwap == [status |-> "none", from |-> NoCollector, to |-> NoCollector,
           for |-> NoJourney, revision |-> 0, forRevision |-> 0]

DutyInit ==
    /\ journey = [j \in Journey |-> [state |-> "none", time |-> 0, collector |-> NoCollector,
                                     answer |-> "none", revision |-> 0]]
    /\ swap = [j \in Journey |-> NoSwap]
    /\ closed = 0

Live(j) == journey[j].state \in {"planned", "boarding", "in_progress"}
Attends(c, j) == Live(j) /\ journey[j].collector = c /\ journey[j].answer # "declined"
Planned(j) == journey[j].state = "planned"
Open(j) == swap[j].status \in {"submitted", "accepted"}
WindowOpen(j) == Planned(j) /\ journey[j].time > closed
NoConflict(c, time, except) ==
    \A k \in Journey \ except : journey[k].time = time => ~Attends(c, k)

(* Every change of a journey takes a revision. *)
Room(j) == journey[j].revision < MaxJourneyRevision
Changed(j, state, c, answer) ==
    [state |-> state, time |-> journey[j].time, collector |-> c, answer |-> answer,
     revision |-> journey[j].revision + 1]
Sets(j, state, c, answer) ==
    Room(j) /\ journey' = [journey EXCEPT ![j] = Changed(j, state, c, answer)]

-----------------------------------------------------------------------------

(* createTrip, generateTrips. *)
CreateJourney(j, c, time) ==
    /\ journey[j].state = "none" /\ Room(j)
    /\ NoConflict(c, time, {})
    /\ journey' = [journey EXCEPT ![j] = [state |-> "planned", time |-> time,
                        collector |-> c, answer |-> "pending", revision |-> 1]]
    /\ UNCHANGED <<swap, closed>>

(* assignTripCollector: what the old collector asked for is cancelled. *)
AssignCollector(j, c) ==
    /\ Planned(j)
    /\ NoConflict(c, journey[j].time, {j})
    /\ Sets(j, "planned", c, "pending")
    /\ swap' = [swap EXCEPT ![j] = IF Open(j) THEN NoSwap ELSE @]
    /\ UNCHANGED closed

(* refreshTripRoster takes a revision and changes no duty. *)
RefreshJourney(j) ==
    /\ Planned(j)
    /\ Sets(j, "planned", journey[j].collector, journey[j].answer)
    /\ UNCHANGED <<swap, closed>>

Respond(j, answer) ==
    /\ Planned(j) /\ journey[j].answer = "pending"
    /\ Sets(j, "planned", journey[j].collector, answer)
    /\ UNCHANGED <<swap, closed>>

(* Mutant: a collector may have two journeys under way. *)
OpenJourneyBeside(j) ==
    /\ Planned(j) /\ journey[j].answer = "accepted" /\ journey[j].time <= closed
    /\ Sets(j, "boarding", journey[j].collector, "accepted")
    /\ UNCHANGED <<swap, closed>>

Active(j) == journey[j].state \in {"boarding", "in_progress"}
NoOther(j) ==
    \A k \in Journey \ {j} : ~(Active(k) /\ journey[k].collector = journey[j].collector)

OpenJourney(j) ==
    /\ Planned(j) /\ journey[j].answer = "accepted" /\ journey[j].time <= closed
    /\ NoOther(j)
    /\ Sets(j, "boarding", journey[j].collector, "accepted")
    /\ UNCHANGED <<swap, closed>>

StartJourney(j) ==
    /\ journey[j].state = "boarding"
    /\ NoOther(j)
    /\ Sets(j, "in_progress", journey[j].collector, journey[j].answer)
    /\ UNCHANGED <<swap, closed>>

CloseJourney(j, state) ==
    /\ journey[j].state \in
            IF state = "completed" THEN {"in_progress"} ELSE {"planned", "boarding"}
    /\ Sets(j, state, journey[j].collector, journey[j].answer)
    /\ UNCHANGED <<swap, closed>>

(* Half an hour before the departure. *)
WindowCloses ==
    /\ closed < LastTime
    /\ closed' = closed + 1
    /\ UNCHANGED <<journey, swap>>

-----------------------------------------------------------------------------

(* A request to cover (for = NoJourney) or to exchange; one is open for a  *)
(* journey at most.                                                        *)
RequestSwap(j, to, for) ==
    /\ WindowOpen(j) /\ journey[j].answer = "accepted"
    /\ to # journey[j].collector /\ ~Open(j)
    /\ for \in Journey =>
            /\ WindowOpen(for)
            /\ journey[for].collector = to /\ journey[for].answer = "accepted"
    /\ swap' = [swap EXCEPT ![j] =
            [status |-> "submitted", from |-> journey[j].collector, to |-> to, for |-> for,
             revision |-> journey[j].revision,
             forRevision |-> IF for \in Journey THEN journey[for].revision ELSE 0]]
    /\ UNCHANGED <<journey, closed>>

RespondSwap(j, status) ==
    /\ swap[j].status = "submitted"
    /\ WindowOpen(j) /\ (swap[j].for \in Journey => WindowOpen(swap[j].for))
    /\ swap' = [swap EXCEPT ![j] = IF status = "accepted" THEN [@ EXCEPT !.status = status]
                                   ELSE NoSwap]
    /\ UNCHANGED <<journey, closed>>

(* The journeys are those the request was made for, or neither decision is *)
(* taken.                                                                  *)
UnchangedSinceRequest(j) ==
    LET s == swap[j] IN
    /\ Planned(j) /\ journey[j].revision = s.revision
    /\ s.for \in Journey =>
            /\ Planned(s.for) /\ journey[s.for].revision = s.forRevision
            /\ journey[s.for].collector = s.to

DeclineSwap(j) ==
    /\ swap[j].status = "accepted"
    /\ UnchangedSinceRequest(j)
    /\ swap' = [swap EXCEPT ![j] = NoSwap]
    /\ UNCHANGED <<journey, closed>>

(* Mutant: the other journey keeps its revision. *)
ExchangesInPlace(j) ==
    LET s == swap[j] IN
    /\ Room(j)
    /\ journey' = [k \in Journey |->
            CASE k = j -> Changed(j, "planned", s.to, "accepted")
              [] k = s.for -> [journey[k] EXCEPT !.collector = s.from]
              [] OTHER -> journey[k]]
    /\ swap' = [swap EXCEPT ![j] = NoSwap]
    /\ UNCHANGED closed

Exchanges(j) ==
    LET s == swap[j] IN
    /\ Room(j) /\ (s.for \in Journey => Room(s.for))
    /\ journey' = [k \in Journey |->
            CASE k = j -> Changed(j, "planned", s.to, "accepted")
              [] k = s.for -> Changed(k, "planned", s.from, "accepted")
              [] OTHER -> journey[k]]
    /\ swap' = [swap EXCEPT ![j] = NoSwap]
    /\ UNCHANGED closed

(* Mutant: the revisions are not compared. *)
ApproveSwapOfAnyRevision(j) ==
    LET s == swap[j] IN
    /\ s.status = "accepted"
    /\ WindowOpen(j) /\ (s.for \in Journey => WindowOpen(s.for))
    /\ NoConflict(s.to, journey[j].time, {j, s.for})
    /\ s.for \in Journey => NoConflict(s.from, journey[s.for].time, {j, s.for})
    /\ Exchanges(j)

ApproveSwap(j) ==
    LET s == swap[j] IN
    /\ s.status = "accepted"
    /\ UnchangedSinceRequest(j)
    /\ WindowOpen(j) /\ (s.for \in Journey => WindowOpen(s.for))
    /\ NoConflict(s.to, journey[j].time, {j, s.for})
    /\ s.for \in Journey => NoConflict(s.from, journey[s.for].time, {j, s.for})
    /\ Exchanges(j)

-----------------------------------------------------------------------------

DutyNext == WindowCloses \/ \E j \in Journey :
    \/ \E c \in Collector :
            \/ AssignCollector(j, c) \/ \E time \in 1..LastTime : CreateJourney(j, c, time)
            \/ \E for \in Journey \union {NoJourney} : RequestSwap(j, c, for)
    \/ RefreshJourney(j) \/ OpenJourney(j) \/ StartJourney(j)
    \/ \E answer \in {"accepted", "declined"} : Respond(j, answer)
    \/ \E state \in {"completed", "cancelled"} : CloseJourney(j, state)
    \/ \E status \in {"accepted", "rejected"} : RespondSwap(j, status)
    \/ DeclineSwap(j) \/ ApproveSwap(j)

DutySpec == DutyInit /\ [][DutyNext]_tvars

-----------------------------------------------------------------------------

(* Journeys and duty changes have their types; a request made at the       *)
(* present revision of its journey, which may thus still be decided, comes *)
(* from the collector who has the journey and accepted it.                 *)
DutyTypeOK ==
    /\ journey \in [Journey ->
            [state : {"none", "planned", "boarding", "in_progress", "completed", "cancelled"},
             time : Nat, collector : Collector \union {NoCollector},
             answer : {"none", "pending", "accepted", "declined"}, revision : Nat]]
    /\ swap \in [Journey ->
            [status : {"none", "submitted", "accepted"},
             from : Collector \union {NoCollector}, to : Collector \union {NoCollector},
             for : Journey \union {NoJourney}, revision : Nat, forRevision : Nat]]
    /\ closed \in Nat
    /\ \A j \in Journey :
            Open(j) /\ swap[j].revision = journey[j].revision =>
                /\ Planned(j) /\ journey[j].answer = "accepted"
                /\ journey[j].collector = swap[j].from

(* No collector is expected on two journeys at one time, whatever was      *)
(* assigned, declined, covered and exchanged, or is on two at all.         *)
NobodyInTwoPlaces ==
    \A c \in Collector : \A j, k \in Journey :
        /\ Attends(c, j) /\ Attends(c, k) /\ journey[j].time = journey[k].time => j = k
        /\ Active(j) /\ Active(k) /\ journey[j].collector = journey[k].collector => j = k

(* A duty moves without a fresh acceptance only from the collector who     *)
(* gives it away to the one who agreed to take it, and in an exchange both *)
(* journeys change hands.                                                  *)
Gives(j, k, c, d) ==
    /\ swap[j].status = "accepted"
    /\ \/ k = j /\ c = swap[j].from /\ d = swap[j].to
       \/ k = swap[j].for /\ c = swap[j].to /\ d = swap[j].from
MovesByConsent ==
    [][\A k \in Journey :
        journey'[k].answer = "accepted" /\ journey'[k].collector # journey[k].collector =>
            \E j \in Journey :
                /\ Gives(j, k, journey[k].collector, journey'[k].collector)
                /\ \A i \in {j, swap[j].for} \ {NoJourney} :
                        journey'[i].collector # journey[i].collector]_tvars
=============================================================================
