--------------------------- MODULE WorkflowProofs ---------------------------
(***************************************************************************)
(* What is proved of each workflow alone holds of a school in which all of *)
(* them go on, and of the bounded school in which one of them does.        *)
(***************************************************************************)
EXTENDS SchoolWorkflows, TransportProofs, EventFeeProofs, SchoolDayProofs

(* What a step of the school is to each workflow: a step of its own, or    *)
(* nothing.                                                                *)
EachOnItsOwn ==
    /\ [Next]_dvars /\ [DutyNext]_tvars /\ [FeeNext]_fvars /\ [EventNext]_evars
    /\ [NoticeNext]_nvars /\ [StaffNext]_scvars /\ [TimetableNext]_ttvars
    /\ [SessionNext]_sessions

LEMMA SchoolStepsAreTheirOwn == [SchoolNext]_schoolVars => EachOnItsOwn
<1> SUFFICES ASSUME [SchoolNext]_schoolVars PROVE EachOnItsOwn
  OBVIOUS
<1>1. CASE UNCHANGED schoolVars
  BY <1>1 DEF schoolVars, EachOnItsOwn
<1>2. CASE DepartureStep
  BY <1>2 DEF DepartureStep, EachOnItsOwn
<1>3. CASE DutyStep
  BY <1>3 DEF DutyStep, EachOnItsOwn
<1>4. CASE FeeStep
  BY <1>4 DEF FeeStep, EachOnItsOwn
<1>5. CASE EventStep
  BY <1>5 DEF EventStep, EachOnItsOwn
<1>6. CASE NoticeStep
  BY <1>6 DEF NoticeStep, EachOnItsOwn
<1>7. CASE StaffStep
  BY <1>7 DEF StaffStep, EachOnItsOwn
<1>8. CASE TimetableStep
  BY <1>8 DEF TimetableStep, EachOnItsOwn
<1>9. CASE LessonStep
  BY <1>9 DEF LessonStep, EachOnItsOwn
<1> QED
  BY <1>1, <1>2, <1>3, <1>4, <1>5, <1>6, <1>7, <1>8, <1>9 DEF SchoolNext

(* In a school where all workflows go on, each behaves as its own          *)
(* specification says: the step of one upsets none of the others.          *)
THEOREM SchoolKeepsItsSpecs ==
    SchoolSpec => /\ Spec /\ DutySpec /\ FeeSpec /\ EventSpec
                  /\ NoticeSpec /\ StaffSpec /\ TimetableSpec /\ SessionSpec
<1>1. SchoolInit => /\ Init /\ DutyInit /\ FeeInit /\ EventInit
                    /\ NoticeInit /\ StaffInit /\ TimetableInit /\ SessionInit
  BY DEF SchoolInit
<1> QED
  BY <1>1, SchoolStepsAreTheirOwn, PTL
     DEF EachOnItsOwn, SchoolSpec, Spec, DutySpec, FeeSpec, EventSpec, NoticeSpec, StaffSpec,
         TimetableSpec, SessionSpec

(* The bounded school is a school: its steps and its initial states are.   *)
THEOREM WorkflowsAreOfTheSchool == WorkflowSpec => SchoolSpec
<1>1. WorkflowInit => SchoolInit
  BY DEF WorkflowInit
<1>2. [WorkflowNext]_WorkflowVars => [SchoolNext]_schoolVars
  BY DEF WorkflowNext, WorkflowVars, SchoolNext
<1> QED
  BY <1>1, <1>2, PTL DEF WorkflowSpec, SchoolSpec

(* The states of every workflow are of their types.                        *)
THEOREM WorkflowsAreTyped == WorkflowSpec => []WorkflowTypeOK
<1>1. WorkflowInit => part \in Workflow
  BY DEF WorkflowInit
<1>2. part \in Workflow /\ [WorkflowNext]_WorkflowVars => (part \in Workflow)'
  BY DEF WorkflowNext, WorkflowVars
<1>3. ( /\ part \in Workflow
        /\ TypeOK /\ DutyTypeOK /\ FeeTypeOK /\ EventTypeOK
        /\ NoticeTypeOK /\ StaffTypeOK /\ TimetableTypeOK /\ SessionTypeOK )
        => WorkflowTypeOK
  BY DEF WorkflowTypeOK
<1>4. SchoolSpec => []( /\ TypeOK /\ DutyTypeOK /\ FeeTypeOK /\ EventTypeOK
                        /\ NoticeTypeOK /\ StaffTypeOK /\ TimetableTypeOK /\ SessionTypeOK )
  BY SchoolKeepsItsSpecs, DepartureTypes, DutyTypes, FeeTypes, EventTypes, NoticeIsTyped,
     StaffIsTyped, TimetableIsTyped, SessionIsTyped, PTL
<1> QED
  BY <1>1, <1>2, <1>3, <1>4, WorkflowsAreOfTheSchool, PTL DEF WorkflowSpec

(* In the whole school, for any number of pupils' receivers, collectors,   *)
(* payments, students, recipients, staff and classes: nobody is handed to  *)
(* a stranger or due in two places, the books, rosters and registers       *)
(* agree, leave was affordable and plans in force are free.                *)
THEOREM SchoolIsSafe ==
    SchoolSpec => []( /\ SafeDeparture /\ NobodyInTwoPlaces
                      /\ BooksAgree /\ PlacesAgree /\ RegisterIsTrue
                      /\ LeaveWasAffordable /\ PlansAreFree )
BY SchoolKeepsItsSpecs, DepartureIsSafe, NobodyIsInTwoPlaces, BooksAlwaysAgree,
   PlacesAlwaysAgree, RegisterStaysTrue, ApprovedLeaveIsAffordable, PublishedPlansAreFree, PTL

(* No step of the school takes back what is final: a completed departure,  *)
(* a consented duty, an answer, a decided cover, an accepted plan, a plan  *)
(* under way, a mark of the staff; nor does one overpay or overwrite.      *)
THEOREM SchoolKeepsItsWord ==
    SchoolSpec => /\ ImplementsCustody /\ CompletedIsFinal /\ MovesByConsent
                  /\ NothingIsOverpaid
                  /\ AnswersStand /\ DecidedCoverStands
                  /\ AnswerIsForThisDuty /\ StartedPlansStand
                  /\ StaffDecisionsStand /\ SavesAreSerial /\ LessonIsVersioned
BY SchoolKeepsItsSpecs, DepartureKeepsCustody, CompletedStaysCompleted, DutiesMoveByConsent, PaymentsFit,
   AnswersAreFinal, DecidedCoversStand, AnswersAreForThisDuty, StartedPlansStay,
   CheckInsReplaceNothing, UncrossedSavesAreSerial, UncrossedLessonsAreVersioned
=============================================================================
