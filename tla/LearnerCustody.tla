--------------------------- MODULE LearnerCustody ---------------------------
(***************************************************************************)
(* What the school promises a family about one learner's way home: the     *)
(* learner leaves once and one way, is given only to a receiver who is     *)
(* trusted at that moment, a journey that begins keeps the learner until   *)
(* its end, and what is over stays as it was.                              *)
(***************************************************************************)
CONSTANTS Receiver, Journey, Way

VARIABLES
    with,           \* the way the learner went; empty while at school
    over,           \* is the learner's way home over?
    trusted         \* receivers whose grant stands

custody == <<with, over, trusted>>

AtSchool == with = {} /\ ~over

Begin ==
    /\ with = {} /\ ~over
    /\ trusted = {}

Board(j) ==
    /\ AtSchool
    /\ with' = {j}
    /\ UNCHANGED <<over, trusted>>

Arrive ==
    /\ with \intersect Journey # {} /\ ~over
    /\ over' = TRUE
    /\ UNCHANGED <<with, trusted>>

(* To a receiver, or alone, or to an outside carrier. *)
Release(way) ==
    /\ AtSchool
    /\ way \in Receiver => way \in trusted
    /\ with' = {way} /\ over' = TRUE
    /\ UNCHANGED trusted

Trust(a) ==
    /\ trusted' = trusted \union {a}
    /\ UNCHANGED <<with, over>>

Distrust(a) ==
    /\ trusted' = trusted \ {a}
    /\ UNCHANGED <<with, over>>

CustodyNext ==
    \/ \E j \in Journey : Board(j)
    \/ Arrive
    \/ \E way \in Way \ Journey : Release(way)
    \/ \E a \in Receiver : Trust(a) \/ Distrust(a)

CustodySpec == Begin /\ [][CustodyNext]_custody
=============================================================================
