------------------------- MODULE ObservationRecord -------------------------
(***************************************************************************)
(* What a school promises of the observations its teachers take: a device  *)
(* holds each until the server has it or a later one takes its place; what *)
(* the server has is never without a status, comes into the register only  *)
(* then, stays with the office until it is decided, and once accepted is   *)
(* in the register and stays accepted.                                     *)
(***************************************************************************)
CONSTANT Observation

VARIABLES
    state,          \* of each observation, on its device and then at the server
    published,      \* observations that are in the register
    cases           \* observations the office has to decide

observations == <<state, published, cases>>

OnDevice == {"unseen", "held", "given up"}
Held == {c \in Observation : state[c] = "held"}

Opening ==
    /\ state = [c \in Observation |-> "unseen"]
    /\ published = {} /\ cases = {}

Loses(lost) == [c \in Observation |-> IF c \in lost THEN "given up" ELSE state[c]]

(* It may take the place of others. *)
Observe(c, lost) ==
    /\ state[c] = "unseen" /\ lost \subseteq Held
    /\ state' = [Loses(lost) EXCEPT ![c] = "held"]
    /\ UNCHANGED <<published, cases>>

GiveUp(lost) ==
    /\ lost \subseteq Held
    /\ \A c \in lost : \E d \in Observation \ {c} : state[d] # "unseen"
    /\ state' = Loses(lost)
    /\ UNCHANGED <<published, cases>>

(* One that its device gave up may still arrive. *)
Record(c) ==
    /\ state[c] \in {"held", "given up"}
    /\ state' = [state EXCEPT ![c] = "pending"]
    /\ UNCHANGED <<published, cases>>

Question(c) ==
    /\ state[c] = "pending"
    /\ state' = [state EXCEPT ![c] = "quarantined"]
    /\ cases' = cases \union {c}
    /\ UNCHANGED published

Publish(c) ==
    /\ state[c] \notin OnDevice
    /\ published' = published \union {c}
    /\ UNCHANGED <<state, cases>>

(* An acceptance under way wins over a rejection. *)
Accept(c) ==
    /\ state[c] \notin OnDevice /\ c \in published
    /\ state' = [state EXCEPT ![c] = "accepted"]
    /\ cases' \in {cases, cases \ {c}}
    /\ UNCHANGED published

Reject(c) ==
    /\ c \in cases
    /\ state' = [state EXCEPT ![c] = IF @ = "quarantined" THEN "rejected" ELSE @]
    /\ cases' = cases \ {c}
    /\ UNCHANGED published

ObservationNext ==
    \/ \E lost \in SUBSET Observation : GiveUp(lost) \/ \E c \in Observation : Observe(c, lost)
    \/ \E c \in Observation : Record(c) \/ Question(c) \/ Publish(c) \/ Accept(c) \/ Reject(c)

ObservationSpec == Opening /\ [][ObservationNext]_observations
=============================================================================
