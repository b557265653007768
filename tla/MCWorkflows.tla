---------------------------- MODULE MCWorkflows ----------------------------
(***************************************************************************)
(* Bounded instances of the workflows of SchoolWorkflows.                  *)
(***************************************************************************)
EXTENDS SchoolWorkflows, TLC

CONSTANTS ana, ben, lesson, duty

EventTerms ==
    LET Term(m, p, c, t) == [mandatory |-> m, paid |-> p, consent |-> c, twoWay |-> t]
    IN  {Term(FALSE, TRUE, FALSE, TRUE), Term(FALSE, FALSE, TRUE, FALSE),
         Term(TRUE, TRUE, FALSE, FALSE)}

StaffDuty == {lesson, duty}
DutyOwner == (lesson :> ana) @@ (duty :> ben)

(* The workflows share the two values that may be exchanged, which keeps   *)
(* the number of permutations small.                                       *)
WorkflowSymmetry ==
    Permutations(Pay \union Student \union Page \union Journey \union Section \union Learner)
=============================================================================
