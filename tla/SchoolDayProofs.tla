-------------------------- MODULE SchoolDayProofs --------------------------
(***************************************************************************)
(* Proofs about the plans of a day (SchoolTimetable), the notices of the   *)
(* school (SchoolNotice), the covering of absences (StaffCover) and the    *)
(* registers of lessons (SessionRegister).                                 *)
(***************************************************************************)
EXTENDS SchoolTimetable, SchoolNotice, StaffCover, SessionRegister, FiniteSetTheorems, TLAPS

(* A plan in force is free when no other class has its teacher.            *)
PlanIsFree(c) == dayPlan[c] # None => ~Clashes(c)

TimetableInv == TimetableTypeOK /\ PlansAreFree

LEMMA TimetableInitInv == TimetableInit => TimetableInv
BY PeriodAssumption
   DEF TimetableInit, TimetableInv, TimetableTypeOK, PlansAreFree, Weekly, Daily, Answer

(* What is in force is always a period. *)
LEMMA PeriodTypes ==
    TimetableTypeOK => \A c \in Section : Pattern(c) \in Weekly /\ Effective(c) \in Daily
BY PeriodAssumption DEF TimetableTypeOK, Pattern, Effective, WhenOpen, Weekly, Daily

LEMMA AnswerTypes ==
    ASSUME TimetableTypeOK, NEW c \in Section, NEW w \in Daily
    PROVE  AnswerNeeded(c, w) \in Answer
BY DEF TimetableTypeOK, AnswerNeeded, StoredAnswer, Answer

LEMMA TimetableTypeStep == TimetableTypeOK /\ [TimetableNext]_ttvars => TimetableTypeOK'
<1> SUFFICES ASSUME TimetableTypeOK, [TimetableNext]_ttvars PROVE TimetableTypeOK'
  OBVIOUS
<1> USE DEF TimetableTypeOK
<1>1. \A c \in Section : Pattern(c) \in Weekly /\ Effective(c) \in Daily
  BY PeriodTypes
<1>2. ASSUME NEW c \in Section, NEW w \in Weekly,
             CreateTimetableSlot(c, w) \/ CopyTimetableDay(c, w)
                \/ (\E d \in Section : UpdateTimetableSlot(c, d, w)) \/ SaveTimetable(c, w)
      PROVE TimetableTypeOK'
  BY <1>2 DEF CreateTimetableSlot, CopyTimetableDay, UpdateTimetableSlot, SaveTimetable,
              EditWeekly, Weekly
<1>3. ASSUME NEW c \in Section, DeleteTimetableSlot(c) \/ StartTimetable(c) \/ DiscardTimetable(c)
      PROVE TimetableTypeOK'
  BY <1>1, <1>3 DEF DeleteTimetableSlot, StartTimetable, DiscardTimetable, EditWeekly, Weekly
<1>4. ASSUME NEW c \in Section, NEW covers \in BOOLEAN, PublishTimetable(c, covers)
      PROVE TimetableTypeOK'
  BY <1>1, <1>4, PeriodAssumption DEF PublishTimetable, Weekly
<1>5. ASSUME NEW c \in Section, StartPlan(c) \/ DiscardPlan(c) PROVE TimetableTypeOK'
  BY <1>1, <1>5 DEF StartPlan, DiscardPlan
<1>6. ASSUME NEW c \in Section, NEW w \in Daily, SavePlan(c, w) PROVE TimetableTypeOK'
  <2>1. redraft[c] \in [who : Daily, baseline : Daily]
    BY <1>6 DEF SavePlan
  <2> QED
    BY <1>6, <2>1 DEF SavePlan
<1>7. ASSUME NEW c \in Section, PublishPlan(c) PROVE TimetableTypeOK'
  <2>1. redraft[c] \in [who : Daily, baseline : Daily]
    BY <1>7 DEF PublishPlan
  <2>2. AnswerNeeded(c, redraft[c].who) \in Answer
    BY <2>1, AnswerTypes
  <2> QED
    BY <1>7, <2>1, <2>2 DEF PublishPlan
<1>8. ASSUME NEW c \in Section, NEW a \in {"accepted", "declined"}, RespondToCover(c, a)
      PROVE TimetableTypeOK'
  <2>1. dayPlan[c] \in [who : Daily, answer : Answer]
    BY <1>8 DEF RespondToCover
  <2> QED
    BY <1>8, <2>1 DEF RespondToCover, Answer
<1>9. CASE CreateSchoolClosure \/ DeleteSchoolClosure \/ HourBegins
  BY <1>9 DEF CreateSchoolClosure, DeleteSchoolClosure, HourBegins
<1>10. CASE UNCHANGED ttvars
  BY <1>10 DEF ttvars
<1> QED
  BY <1>2, <1>3, <1>4, <1>5, <1>6, <1>7, <1>8, <1>9, <1>10 DEF TimetableNext

(* No clash, seen from either class: whoever gets a free period disturbs   *)
(* no plan that was free.                                                  *)
LEMMA OneClassChanges ==
    ASSUME TimetableTypeOK, TimetableTypeOK', NEW c \in Section, ~closure,
           \A d \in Section \ {c} : WhenOpen(d)' = WhenOpen(d) /\ dayPlan'[d] = dayPlan[d],
           WhenOpen(c)' \in Teacher => \A d \in Section \ {c} : WhenOpen(d) # WhenOpen(c)',
           \A d \in Section : PlanIsFree(d)
    PROVE  \A d \in Section : PlanIsFree(d)'
BY DEF PlanIsFree, Clashes

(* A step that does not change what is in force disturbs nothing. *)
LEMMA NothingInForceChanges ==
    ASSUME \A d \in Section : WhenOpen(d)' = WhenOpen(d) /\ dayPlan'[d] = dayPlan[d],
           \A d \in Section : PlanIsFree(d)
    PROVE  \A d \in Section : PlanIsFree(d)'
BY DEF PlanIsFree, Clashes

LEMMA EditKeepsPlansFree ==
    ASSUME NEW edited, EditWeekly(edited) PROVE PlansAreFree'
<1> SUFFICES ASSUME ~closure PROVE \A c \in Section : dayPlan'[c] # None => ~Clashes(c)'
  BY DEF EditWeekly, PlansAreFree
<1>1. \A c \in Section : dayPlan[c] # None => ~Conflicts(c, Effective(c))'
  BY DEF EditWeekly, protectPublishedPlans
<1>2. ~closure' /\ dayPlan' = dayPlan
  BY DEF EditWeekly
<1> QED
  BY <1>1, <1>2 DEF Conflicts, Clashes, Effective

LEMMA PlansStayFree ==
    TimetableInv /\ TimetableTypeOK' /\ [TimetableNext]_ttvars => PlansAreFree'
<1> SUFFICES ASSUME TimetableInv, TimetableTypeOK', [TimetableNext]_ttvars, ~moved'
             PROVE \A d \in Section : PlanIsFree(d)'
  BY DEF PlansAreFree, PlanIsFree
<1> USE DEF TimetableInv
<1>1. ASSUME NEW edited, EditWeekly(edited) PROVE \A d \in Section : PlanIsFree(d)'
  BY <1>1, EditKeepsPlansFree DEF PlansAreFree, PlanIsFree
<1>2. ASSUME ~moved PROVE \A d \in Section : PlanIsFree(d)
  BY <1>2 DEF PlansAreFree, PlanIsFree
<1>3. ASSUME NEW c \in Section, NEW covers \in BOOLEAN, PublishTimetable(c, covers)
      PROVE \A d \in Section : PlanIsFree(d)'
  <2>1. ~moved /\ dayPlan' = dayPlan /\ closure' = closure /\ weekly' = weekly
        /\ \A d \in Section \ {c} : dated'[d] = dated[d]
    BY <1>3 DEF PublishTimetable, TimetableTypeOK
  <2>2. \A d \in Section \ {c} : WhenOpen(d)' = WhenOpen(d)
    BY <2>1 DEF WhenOpen, Pattern
  <2>3. CASE covers
    <3>1. ~closure /\ ~Conflicts(c, Effective(c))'
      BY <1>3, <2>1, <2>3 DEF PublishTimetable
    <3>2. WhenOpen(c)' \in Teacher => \A d \in Section \ {c} : WhenOpen(d)' # WhenOpen(c)'
      BY <2>1, <3>1 DEF Conflicts, Effective
    <3> QED
      BY <1>2, <2>1, <2>2, <3>1, <3>2, OneClassChanges
  <2>4. CASE ~covers
    <3>1. dated'[c] = Pattern(c) /\ Pattern(c) # Legacy
      BY <1>3, <2>4, PeriodTypes, PeriodAssumption DEF PublishTimetable, TimetableTypeOK, Weekly
    <3>2. WhenOpen(c)' = WhenOpen(c)
      BY <2>1, <3>1 DEF WhenOpen, Pattern
    <3> QED
      BY <1>2, <2>1, <2>2, <3>2, NothingInForceChanges
  <2> QED
    BY <1>3, <2>3, <2>4
<1>4. ASSUME NEW c \in Section, PublishPlan(c) PROVE \A d \in Section : PlanIsFree(d)'
  <2> DEFINE w == redraft[c].who
  <2>1. ~moved /\ weekly' = weekly /\ dated' = dated /\ closure' = closure
        /\ dayPlan'[c].who = w /\ dayPlan'[c] # None
        /\ \A d \in Section \ {c} : dayPlan'[d] = dayPlan[d]
    <3>1. dayPlan'[c] = [who |-> w, answer |-> AnswerNeeded(c, w)]
      BY <1>4 DEF PublishPlan, TimetableTypeOK
    <3>2. w \in Daily
      BY <1>4 DEF PublishPlan, TimetableTypeOK
    <3>3. dayPlan'[c] # None
      BY <3>1, <3>2, AnswerTypes, PeriodAssumption
    <3> QED
      BY <1>4, <3>1, <3>3 DEF PublishPlan, TimetableTypeOK
  <2>2. \A d \in Section \ {c} : WhenOpen(d)' = WhenOpen(d)
    BY <2>1 DEF WhenOpen, Pattern
  <2>3. WhenOpen(c)' = w
    BY <2>1 DEF WhenOpen
  <2>4. closure => w \notin Teacher
    BY <1>4, PeriodAssumption DEF PublishPlan
  <2>5. ~closure => ~Conflicts(c, w)
    BY <1>4 DEF PublishPlan
  <2>6. w \in Teacher => \A d \in Section \ {c} : WhenOpen(d) # w
    BY <2>4, <2>5 DEF Conflicts, Effective
  <2> QED
    BY <1>2, <2>1, <2>2, <2>3, <2>6 DEF PlanIsFree, Clashes
<1>5. ASSUME NEW c \in Section, NEW a \in {"accepted", "declined"}, RespondToCover(c, a)
      PROVE \A d \in Section : PlanIsFree(d)'
  <2>1. ~moved /\ weekly' = weekly /\ dated' = dated
        /\ \A d \in Section : (dayPlan'[d] = None <=> dayPlan[d] = None)
                              /\ (dayPlan[d] # None => dayPlan'[d].who = dayPlan[d].who)
    <3>1. dayPlan[c] \in [who : Daily, answer : Answer]
      BY <1>5 DEF RespondToCover, TimetableTypeOK
    <3>2. dayPlan'[c] = [dayPlan[c] EXCEPT !.answer = a]
      BY <1>5 DEF RespondToCover, TimetableTypeOK
    <3>3. dayPlan'[c] # None
      BY <3>1, <3>2, PeriodAssumption DEF Answer
    <3> QED
      BY <1>5, <3>1, <3>2, <3>3 DEF RespondToCover, TimetableTypeOK
  <2>2. \A d \in Section : WhenOpen(d)' = WhenOpen(d)
    BY <2>1 DEF WhenOpen, Pattern
  <2> QED
    BY <1>2, <2>1, <2>2 DEF PlanIsFree, Clashes
<1>6. CASE UNCHANGED <<weekly, dated, dayPlan, moved>>
  <2>1. \A d \in Section : WhenOpen(d)' = WhenOpen(d) /\ dayPlan'[d] = dayPlan[d]
    BY <1>6 DEF WhenOpen, Pattern
  <2> QED
    BY <1>2, <1>6, <2>1, NothingInForceChanges
<1>7. ASSUME NEW c \in Section, NEW w, SavePlan(c, w) PROVE \A d \in Section : PlanIsFree(d)'
  BY <1>6, <1>7 DEF SavePlan
<1> QED
  BY <1>1, <1>3, <1>4, <1>5, <1>6, <1>7
     DEF TimetableNext, CreateTimetableSlot, CopyTimetableDay, UpdateTimetableSlot, SaveTimetable,
         DeleteTimetableSlot, StartTimetable, DiscardTimetable, StartPlan, DiscardPlan,
         CreateSchoolClosure, DeleteSchoolClosure, HourBegins, ttvars

LEMMA TimetableInvariant == TimetableSpec => []TimetableInv
<1>1. TimetableInv /\ [TimetableNext]_ttvars => TimetableInv'
  BY TimetableTypeStep, PlansStayFree DEF TimetableInv
<1> QED
  BY TimetableInitInv, <1>1, PTL DEF TimetableSpec

(* Slots, timetables, plans and drafts keep their types, and no teacher of *)
(* a plan in force is due elsewhere unless the schedule was changed while  *)
(* the date was closed: publish of day-plans and schedule-planning, and    *)
(* protectPublishedPlans.                                                  *)
THEOREM TimetableIsTyped == TimetableSpec => []TimetableTypeOK
BY TimetableInvariant, PTL DEF TimetableInv

THEOREM PublishedPlansAreFree == TimetableSpec => []PlansAreFree
BY TimetableInvariant, PTL DEF TimetableInv

(* What a step may do to the plans in force. *)
AnswersCarryOver ==
    \A c \in Section :
        dayPlan'[c] # None /\ dayPlan'[c].answer \in {"accepted", "declined"} =>
            /\ dayPlan[c] # None
            /\ dayPlan[c].who = dayPlan'[c].who
            /\ dayPlan[c].answer = dayPlan'[c].answer \/ redraft' = redraft
StartedCarryOver ==
    \A c \in Section : begun /\ ~closure /\ dayPlan[c] # None => dayPlan'[c].who = dayPlan[c].who

LEMMA OnlyPublicationAndAnswer ==
    ASSUME TimetableTypeOK, [TimetableNext]_ttvars,
           \A c \in Section : ~PublishPlan(c),
           \A c \in Section, a \in {"accepted", "declined"} : ~RespondToCover(c, a)
    PROVE  dayPlan' = dayPlan
BY DEF TimetableNext, CreateTimetableSlot, CopyTimetableDay, UpdateTimetableSlot, SaveTimetable,
       EditWeekly, DeleteTimetableSlot, StartTimetable, DiscardTimetable, PublishTimetable, StartPlan,
       DiscardPlan, SavePlan, CreateSchoolClosure, DeleteSchoolClosure, HourBegins, ttvars

LEMMA PlansCarryOver ==
    TimetableTypeOK /\ [TimetableNext]_ttvars => AnswersCarryOver /\ StartedCarryOver
<1> SUFFICES ASSUME TimetableTypeOK, [TimetableNext]_ttvars
             PROVE AnswersCarryOver /\ StartedCarryOver
  OBVIOUS
<1>1. ASSUME NEW c \in Section, PublishPlan(c) PROVE AnswersCarryOver /\ StartedCarryOver
  <2> DEFINE w == redraft[c].who
  <2>1. w \in Daily /\ (begun => w = Effective(c))
        /\ dayPlan' = [dayPlan EXCEPT ![c] = [who |-> w, answer |-> AnswerNeeded(c, w)]]
    BY <1>1 DEF PublishPlan, guardStarted, TimetableTypeOK
  <2>2. dayPlan'[c].who = w /\ dayPlan'[c].answer = AnswerNeeded(c, w)
        /\ \A d \in Section \ {c} : dayPlan'[d] = dayPlan[d]
    BY <2>1 DEF TimetableTypeOK
  <2>3. ASSUME dayPlan'[c].answer \in {"accepted", "declined"}
        PROVE  dayPlan[c] # None /\ dayPlan[c].who = w /\ dayPlan[c].answer = dayPlan'[c].answer
    <3>1. w \in Teacher /\ w = Effective(c) /\ AnswerNeeded(c, w) = StoredAnswer(c)
      BY <2>2, <2>3, PeriodAssumption DEF AnswerNeeded
    <3>2. dayPlan[c] # None /\ StoredAnswer(c) = dayPlan[c].answer
      BY <2>2, <2>3, <3>1 DEF StoredAnswer
    <3>3. ~closure
      BY <3>1, PeriodAssumption DEF Effective
    <3> QED
      BY <2>2, <3>1, <3>2, <3>3 DEF Effective, WhenOpen
  <2>4. begun /\ ~closure /\ dayPlan[c] # None => w = dayPlan[c].who
    BY <2>1 DEF Effective, WhenOpen
  <2> QED
    BY <2>2, <2>3, <2>4 DEF AnswersCarryOver, StartedCarryOver
<1>2. ASSUME NEW c \in Section, NEW a \in {"accepted", "declined"}, RespondToCover(c, a)
      PROVE AnswersCarryOver /\ StartedCarryOver
  <2>1. dayPlan[c] \in [who : Daily, answer : Answer] /\ redraft' = redraft
        /\ dayPlan[c] # None
        /\ dayPlan' = [dayPlan EXCEPT ![c].answer = a]
    BY <1>2 DEF RespondToCover, TimetableTypeOK
  <2>2. dayPlan'[c].who = dayPlan[c].who /\ \A d \in Section \ {c} : dayPlan'[d] = dayPlan[d]
    BY <2>1 DEF TimetableTypeOK
  <2> QED
    BY <2>1, <2>2 DEF AnswersCarryOver, StartedCarryOver
<1>3. CASE dayPlan' = dayPlan
  BY <1>3 DEF AnswersCarryOver, StartedCarryOver
<1> QED
  BY <1>1, <1>2, <1>3, OnlyPublicationAndAnswer

(* A teacher's answer is for this duty: a cover that was accepted or       *)
(* declined passes to a new version of the plan only with the same teacher *)
(* in the same hour (the status publish of day-plans carries over).        *)
THEOREM AnswersAreForThisDuty == TimetableSpec => AnswerIsForThisDuty
<1>1. TimetableInv /\ [TimetableNext]_ttvars => [AnswersCarryOver]_ttvars
  BY PlansCarryOver DEF TimetableInv
<1> QED
  BY <1>1, TimetableInvariant, PTL DEF TimetableSpec, AnswerIsForThisDuty, AnswersCarryOver

(* A plan of an hour that has begun keeps its teacher while the date is    *)
(* open (guardStarted, at saving and again at publication).                *)
THEOREM StartedPlansStay == TimetableSpec => StartedPlansStand
<1>1. TimetableInv /\ [TimetableNext]_ttvars => [StartedCarryOver]_ttvars
  BY PlansCarryOver DEF TimetableInv
<1> QED
  BY <1>1, TimetableInvariant, PTL DEF TimetableSpec, StartedPlansStand, StartedCarryOver

-----------------------------------------------------------------------------
(* Notices.                                                                *)

(* A notice has recipients once it is published, and only they see it.     *)
OnlyRecipientsSee ==
    /\ notice.status \in {"none", "draft"} => who = {}
    /\ \A r \in Recipient : shown[r] > 0 => r \in who

HoldsNotice(p) == visit[p].stage \in {"notice", "both"}

(* One request at a time holds the notice, and what an answer was checked  *)
(* against stays so until it is written.                                   *)
ChecksHold ==
    /\ \A p, q \in Page : HoldsNotice(p) /\ HoldsNotice(q) => p = q
    /\ \A p \in Page : HoldsNotice(p) => visit[p].for \in who
    /\ \A p \in Page : visit[p].stage = "both" =>
            /\ visit[p].kind \in {"app", "assisted"}
            /\ NoticeIs("published") /\ notice.answers
            /\ answered[visit[p].for] = "none"

NoticeInv == NoticeTypeOK /\ OnlyRecipientsSee /\ ChecksHold

LEMMA NoticeInitInv == NoticeInit => NoticeInv
BY DEF NoticeInit, NoticeInv, NoticeTypeOK, OnlyRecipientsSee, ChecksHold, HoldsNotice, NoVisit

(* A new revision invalidates nothing that referred to an older one. *)
LEMMA RevisionGrows ==
    ASSUME NoticeTypeOK,
           notice'.revision = notice.revision + 1,
           UNCHANGED <<seen, shown, answered, visit>>, who \subseteq who'
    PROVE  /\ seen' \in [Recipient -> 0..notice'.revision]
           /\ shown' \in [Recipient -> 0..notice'.revision]
           /\ answered' \in [Recipient -> {"none", "app", "assisted"}]
           /\ visit' \in [Page -> [kind : Command \union {"none", "open"},
                                   stage : {"none", "read", "row", "notice", "both"},
                                   for : who' \union {NoOne}, revision : 0..notice'.revision]]
<1> USE DEF NoticeTypeOK
<1>1. \A n \in 0..notice.revision : n \in 0..notice'.revision
  OBVIOUS
<1>2. ASSUME NEW p \in Page
      PROVE  visit'[p] \in [kind : Command \union {"none", "open"},
                            stage : {"none", "read", "row", "notice", "both"},
                            for : who' \union {NoOne}, revision : 0..notice'.revision]
  BY <1>1
<1> QED
  BY <1>1, <1>2

LEMMA TurnsToNext ==
    ASSUME NoticeTypeOK, NEW st \in {"published", "cancelled"}, Turns(st)
    PROVE  /\ notice'.revision = notice.revision + 1 /\ notice'.status = st
           /\ notice' \in [status : {"none", "draft", "published", "cancelled"}, answers : BOOLEAN,
                           revision : Nat, late : BOOLEAN]
<1>1. notice.revision + 1 \in Nat
  BY DEF NoticeTypeOK
<1> QED
  BY <1>1 DEF NoticeTypeOK, Turns

LEMMA BellsRing ==
    ASSUME NoticeTypeOK, NEW rs \in SUBSET Recipient, notice'.revision = notice.revision + 1,
           who \subseteq who', rs \subseteq who', Rings(rs)
    PROVE  bells' \subseteq (who' \intersect Online) \X (0..notice'.revision)
<1> SUFFICES ASSUME NEW b \in bells' PROVE b \in (who' \intersect Online) \X (0..notice'.revision)
  OBVIOUS
<1>1. CASE b \in bells
  <2>1. b \in (who \intersect Online) \X (0..notice.revision)
    BY <1>1 DEF NoticeTypeOK
  <2>2. b = <<b[1], b[2]>> /\ b[1] \in who \intersect Online /\ b[2] \in 0..notice.revision
    BY <2>1
  <2>3. b[2] \in 0..notice'.revision /\ b[1] \in who' \intersect Online
    BY <2>2 DEF NoticeTypeOK
  <2> QED
    BY <2>2, <2>3
<1>2. CASE b \notin bells
  <2>1. PICK r \in rs \intersect Online : b = <<r, notice.revision + 1>>
    BY <1>2 DEF Rings
  <2> QED
    BY <2>1 DEF NoticeTypeOK
<1> QED
  BY <1>1, <1>2

LEMMA NoticeTypeStep ==
    NoticeInv /\ [NoticeNext]_nvars => NoticeTypeOK' /\ OnlyRecipientsSee'
<1> SUFFICES ASSUME NoticeInv, [NoticeNext]_nvars PROVE NoticeTypeOK' /\ OnlyRecipientsSee'
  OBVIOUS
<1> USE OnlineAssumption DEF NoticeInv, NoticeTypeOK, OnlyRecipientsSee
<1>1. ASSUME NEW a \in BOOLEAN, SaveNotice(a) PROVE NoticeTypeOK' /\ OnlyRecipientsSee'
  <2>1. notice'.revision = notice.revision + 1 /\ notice'.status = "draft"
        /\ notice' \in [status : {"none", "draft", "published", "cancelled"}, answers : BOOLEAN,
                        revision : Nat, late : BOOLEAN]
        /\ UNCHANGED <<who, seen, answered, reach, shown, visit>>
    BY <1>1 DEF SaveNotice
  <2>2. who = {} /\ bells = {}
    BY <1>1 DEF SaveNotice
  <2> QED
    BY <2>1, <2>2, RevisionGrows DEF reach
<1>2. ASSUME NEW audience \in SUBSET Recipient, PublishNotice(audience) PROVE NoticeTypeOK' /\ OnlyRecipientsSee'
  <2>1. notice'.revision = notice.revision + 1 /\ notice'.status = "published" /\ who' = audience
        /\ notice' \in [status : {"none", "draft", "published", "cancelled"}, answers : BOOLEAN,
                        revision : Nat, late : BOOLEAN]
        /\ UNCHANGED <<seen, answered, shown, visit>>
    BY <1>2, TurnsToNext DEF PublishNotice
  <2>2. who = {}
    BY <1>2 DEF PublishNotice, NoticeIs
  <2>3. bells' \subseteq (who' \intersect Online) \X (0..notice'.revision)
    BY <1>2, <2>1, <2>2, BellsRing DEF PublishNotice
  <2>4. queued' \subseteq who'
    BY <1>2 DEF PublishNotice
  <2>5. \A r \in Recipient : ~(shown'[r] > 0)
    BY <2>1, <2>2
  <2> QED
    BY <2>1, <2>2, <2>3, <2>4, <2>5, RevisionGrows
<1>3. CASE CancelNotice
  <2>1. notice'.revision = notice.revision + 1 /\ notice'.status = "cancelled"
        /\ notice' \in [status : {"none", "draft", "published", "cancelled"}, answers : BOOLEAN,
                        revision : Nat, late : BOOLEAN]
        /\ UNCHANGED <<who, seen, answered, shown, visit>> /\ queued' = {}
    BY <1>3, TurnsToNext DEF CancelNotice
  <2>2. bells' \subseteq (who' \intersect Online) \X (0..notice'.revision)
    BY <1>3, <2>1, BellsRing DEF CancelNotice
  <2> QED
    BY <2>1, <2>2, RevisionGrows
<1>4. ASSUME NEW p \in Page, NEW st, RecordDelivery(p, st) PROVE NoticeTypeOK' /\ OnlyRecipientsSee'
  <2>1. visit[p].for \in who
    BY <1>4 DEF RecordDelivery, LocksBoth, ChecksHold, HoldsNotice
  <2> QED
    BY <1>4, <2>1 DEF RecordDelivery, NoVisit
<1>5. CASE DeadlinePasses
  BY <1>5 DEF DeadlinePasses, reach
<1>6. ASSUME NEW r \in Recipient, ShowNotice(r) PROVE NoticeTypeOK' /\ OnlyRecipientsSee'
  BY <1>6 DEF ShowNotice, reach
<1>7. ASSUME NEW p \in Page, NEW r \in Recipient, OpenReads(p, r)
      PROVE  NoticeTypeOK' /\ OnlyRecipientsSee'
  BY <1>7 DEF OpenReads, reach
<1>8. ASSUME NEW p \in Page, OpenLocks(p) PROVE NoticeTypeOK' /\ OnlyRecipientsSee'
  BY <1>8 DEF OpenLocks, reach
<1>9. ASSUME NEW p \in Page, OpenWrites(p) PROVE NoticeTypeOK' /\ OnlyRecipientsSee'
  <2>1. seen' \in [Recipient -> 0..notice.revision]
    BY <1>9 DEF OpenWrites
  <2> QED
    BY <1>9, <2>1 DEF OpenWrites, NoVisit
<1>10. ASSUME NEW p \in Page, NEW r \in Recipient, NEW kind \in Command, LocksNotice(p, r, kind)
       PROVE  NoticeTypeOK' /\ OnlyRecipientsSee'
  BY <1>10 DEF LocksNotice, reach
<1>11. ASSUME NEW p \in Page, RespondChecks(p) PROVE NoticeTypeOK' /\ OnlyRecipientsSee'
  BY <1>11 DEF RespondChecks, reach
<1>12. ASSUME NEW p \in Page, RespondWrites(p) PROVE NoticeTypeOK' /\ OnlyRecipientsSee'
  <2>1. answered' \in [Recipient -> {"none", "app", "assisted"}]
    BY <1>12 DEF RespondWrites, ChecksHold
  <2>2. seen' \in [Recipient -> 0..notice.revision] /\ bells' \subseteq bells
    BY <1>12 DEF RespondWrites
  <2> QED
    BY <1>12, <2>1, <2>2 DEF RespondWrites, NoVisit
<1>13. ASSUME NEW p \in Page, CommandRefuses(p) PROVE NoticeTypeOK' /\ OnlyRecipientsSee'
  BY <1>13 DEF CommandRefuses, NoVisit, reach
<1>14. ASSUME NEW p \in Page, NEW q \in Page, DeadlockAborts(p, q)
       PROVE  NoticeTypeOK' /\ OnlyRecipientsSee'
  BY <1>14 DEF DeadlockAborts, NoVisit, reach
<1>15. CASE UNCHANGED nvars
  BY <1>15 DEF nvars, reach
<1> QED
  BY <1>1, <1>2, <1>3, <1>4, <1>5, <1>6, <1>7, <1>8, <1>9, <1>10, <1>11, <1>12, <1>13, <1>14, <1>15
     DEF NoticeNext

(* A request that takes no lock of the notice, or only gives it back,      *)
(* disturbs no check.                                                      *)
LEMMA ChecksStay ==
    ASSUME NoticeInv, NEW p \in Page, UNCHANGED <<notice, who, answered>>,
           \A q \in Page \ {p} : visit'[q] = visit[q] \/ visit'[q] = NoVisit,
           visit'[p].stage # "both",
           visit'[p].stage = "notice" => NoticeFree /\ visit'[p].for \in who
    PROVE  ChecksHold'
BY DEF NoticeInv, ChecksHold, HoldsNotice, NoticeFree, NoVisit, NoticeIs

LEMMA ChecksStep == NoticeInv /\ [NoticeNext]_nvars => ChecksHold'
<1> SUFFICES ASSUME NoticeInv, [NoticeNext]_nvars PROVE ChecksHold'
  OBVIOUS
<1>0. visit \in [Page -> [kind : Command \union {"none", "open"},
                          stage : {"none", "read", "row", "notice", "both"},
                          for : who \union {NoOne}, revision : 0..notice.revision]]
  BY DEF NoticeInv, NoticeTypeOK
<1>1. CASE (\E a \in BOOLEAN : SaveNotice(a)) \/ \E audience \in SUBSET Recipient : PublishNotice(audience)
  <2>1. ~NoticeIs("published") /\ visit' = visit
    BY <1>1 DEF SaveNotice, PublishNotice, NoticeIs
  <2>2. who = {}
    BY <1>1 DEF SaveNotice, PublishNotice, NoticeIs, NoticeInv, OnlyRecipientsSee
  <2>3. \A p \in Page : ~HoldsNotice(p)
    BY <2>2 DEF NoticeInv, ChecksHold
  <2> QED
    BY <2>1, <2>3 DEF ChecksHold, HoldsNotice
<1>2. CASE CancelNotice
  BY <1>2 DEF CancelNotice, NoticeFree, ChecksHold, HoldsNotice
<1>3. CASE DeadlinePasses
  BY <1>3 DEF DeadlinePasses, NoticeInv, NoticeTypeOK, ChecksHold, HoldsNotice, NoticeIs
<1>4. CASE (\E r \in Recipient : ShowNotice(r)) \/ UNCHANGED nvars
  BY <1>4 DEF ShowNotice, nvars, NoticeInv, ChecksHold, HoldsNotice, NoticeIs
<1>5. ASSUME NEW p \in Page, NEW r \in Recipient, OpenReads(p, r) PROVE ChecksHold'
  BY <1>0, <1>5, ChecksStay DEF OpenReads
<1>6. ASSUME NEW p \in Page, OpenLocks(p) PROVE ChecksHold'
  BY <1>0, <1>6, ChecksStay DEF OpenLocks
<1>7. ASSUME NEW p \in Page, OpenWrites(p) PROVE ChecksHold'
  BY <1>0, <1>7, ChecksStay DEF OpenWrites, NoVisit
<1>8. ASSUME NEW p \in Page, NEW r \in Recipient, NEW kind \in Command, LocksNotice(p, r, kind)
      PROVE  ChecksHold'
  BY <1>0, <1>8, ChecksStay DEF LocksNotice
<1>9. ASSUME NEW p \in Page, RespondChecks(p) PROVE ChecksHold'
  <2>1. HoldsNotice(p) /\ visit[p].for \in who /\ visit[p].kind \in {"app", "assisted"}
        /\ UNCHANGED <<notice, who, answered>> /\ assertResponseAllowed(visit[p].for)
        /\ visit' = [visit EXCEPT ![p].stage = "both"]
    BY <1>0, <1>9 DEF RespondChecks, LocksBoth, HoldsNotice, NoticeInv, ChecksHold
  <2>2. visit'[p] = [visit[p] EXCEPT !.stage = "both"] /\ \A q \in Page \ {p} : visit'[q] = visit[q]
    BY <1>0, <2>1
  <2>3. visit'[p].for = visit[p].for /\ visit'[p].kind = visit[p].kind /\ visit'[p].stage = "both"
    BY <1>0, <2>2
  <2>4. \A q \in Page \ {p} : ~HoldsNotice(q)
    BY <2>1 DEF NoticeInv, ChecksHold
  <2> QED
    BY <2>1, <2>2, <2>3, <2>4 DEF ChecksHold, HoldsNotice, NoticeIs, assertResponseAllowed
<1>10. ASSUME NEW p \in Page, RespondWrites(p) PROVE ChecksHold'
  <2>1. HoldsNotice(p) /\ visit' = [visit EXCEPT ![p] = NoVisit]
    BY <1>10 DEF RespondWrites, HoldsNotice
  <2>2. \A q \in Page \ {p} : ~HoldsNotice(q) /\ visit'[q] = visit[q]
    BY <1>0, <2>1 DEF NoticeInv, ChecksHold
  <2>3. visit'[p].stage = "none"
    BY <1>0, <2>1 DEF NoVisit
  <2> QED
    BY <2>2, <2>3 DEF ChecksHold, HoldsNotice
<1>11. ASSUME NEW p \in Page, NEW st, RecordDelivery(p, st) PROVE ChecksHold'
  BY <1>0, <1>11, ChecksStay DEF RecordDelivery, NoVisit
<1>12. ASSUME NEW p \in Page, CommandRefuses(p) PROVE ChecksHold'
  BY <1>0, <1>12, ChecksStay DEF CommandRefuses, NoVisit
<1>13. ASSUME NEW p \in Page, NEW q \in Page, DeadlockAborts(p, q) PROVE ChecksHold'
  <2>1. PICK victim \in {p, q} : visit' = [visit EXCEPT ![victim] = NoVisit]
    BY <1>13 DEF DeadlockAborts
  <2> QED
    BY <1>0, <1>13, <2>1, ChecksStay DEF DeadlockAborts, NoVisit
<1> QED
  BY <1>1, <1>2, <1>3, <1>4, <1>5, <1>6, <1>7, <1>8, <1>9, <1>10, <1>11, <1>12, <1>13
     DEF NoticeNext

LEMMA NoticeInvariant == NoticeSpec => []NoticeInv
BY NoticeInitInv, NoticeTypeStep, ChecksStep, PTL DEF NoticeSpec, NoticeInv

(* The rows of a notice have their types; nobody has seen, or heard of, a  *)
(* revision it does not have, and letters go to recipients.                *)
THEOREM NoticeIsTyped == NoticeSpec => []NoticeTypeOK
BY NoticeInvariant, PTL DEF NoticeInv

AnswerMayChange ==
    \A r \in Recipient : answered'[r] # answered[r] =>
        /\ answered[r] = "none" /\ r \in who
        /\ NoticeIs("published") /\ notice.answers

(* However many devices and assistants answer, deliver and open, and       *)
(* whenever the office cancels: an answer is final, and the notice it was  *)
(* checked against is still in force when it is written, because nobody    *)
(* gets the row of the notice in between (ChecksHold).                     *)
THEOREM AnswersAreFinal == NoticeSpec => AnswersStand
<1>1. NoticeInv /\ [NoticeNext]_nvars => [AnswerMayChange]_nvars
  <2> SUFFICES ASSUME NoticeInv, NoticeNext PROVE AnswerMayChange
    OBVIOUS
  <2>1. ASSUME NEW p \in Page, RespondWrites(p) PROVE AnswerMayChange
    BY <2>1 DEF RespondWrites, NoticeInv, NoticeTypeOK, ChecksHold, HoldsNotice, AnswerMayChange
  <2>2. CASE answered' = answered
    BY <2>2 DEF AnswerMayChange
  <2> QED
    BY <2>1, <2>2
       DEF NoticeNext, SaveNotice, PublishNotice, CancelNotice, RecordDelivery, DeadlinePasses,
           ShowNotice, OpenReads, OpenLocks, OpenWrites, LocksNotice, RespondChecks,
           CommandRefuses, DeadlockAborts
<1> QED
  BY <1>1, NoticeInvariant, PTL DEF NoticeSpec, AnswersStand, AnswerMayChange

-----------------------------------------------------------------------------
(* Leave and cover.                                                        *)

Asked == {"submitted", "deciding", "approved"}

(* A request counts against the balance from the moment it is made, so     *)
(* that approvals cannot exceed it whatever they read.                     *)
LeaveFits ==
    \A s \in Staff : entitled[s] <= most[s] /\ DaysOf(s, Asked) <= most[s]

(* A task is for an approved leave; one that is being assigned is          *)
(* undecided, and not for the one who leaves.                              *)
TasksAreForLeave ==
    \A t \in Duty :
        /\ cover[t].status # "none" => leave[Owner[t]][Today] = "approved"
        /\ chosen[t] # Unassigned => cover[t].status \in Undecided /\ chosen[t] # Owner[t]

StaffInv == StaffTypeOK /\ LeaveFits /\ TasksAreForLeave

LEMMA StaffInitInv == StaffInit => StaffInv
<1> SUFFICES ASSUME StaffInit PROVE StaffInv
  OBVIOUS
<1>1. StaffTypeOK
  BY DutyAssumption DEF StaffInit, StaffTypeOK, NoCover
<1>2. ASSUME NEW s \in Staff PROVE DaysOf(s, Asked) = 0
  <2>1. {d \in Day : leave[s][d] \in Asked} = {}
    BY DEF StaffInit, Asked
  <2> QED
    BY <2>1, FS_EmptySet DEF DaysOf
<1>3. LeaveFits
  BY <1>2 DEF StaffInit, LeaveFits
<1>4. TasksAreForLeave
  BY DEF StaffInit, TasksAreForLeave, NoCover
<1> QED
  BY <1>1, <1>3, <1>4 DEF StaffInv

LEMMA SetsOfDays ==
    ASSUME NEW S \in SUBSET Day, NEW T \in SUBSET S
    PROVE  /\ IsFiniteSet(S) /\ Cardinality(S) \in Nat /\ Cardinality(T) \in Nat
           /\ Cardinality(T) <= Cardinality(S)
BY DutyAssumption, FS_Subset, FS_CardinalityType

LEMMA DaysAreCounted ==
    /\ \A s, states : DaysOf(s, states) \in Nat
    /\ \A s, states : DaysOf(s, states)' \in Nat
<1>1. ASSUME NEW s, NEW states PROVE DaysOf(s, states) \in Nat
  <2>1. {d \in Day : leave[s][d] \in states} \in SUBSET Day
    OBVIOUS
  <2> QED
    BY <2>1, SetsOfDays DEF DaysOf
<1>2. ASSUME NEW s, NEW states PROVE DaysOf(s, states)' \in Nat
  <2>1. {d \in Day : leave'[s][d] \in states} \in SUBSET Day
    OBVIOUS
  <2> QED
    BY <2>1, SetsOfDays DEF DaysOf
<1> QED
  BY <1>1, <1>2

LEMMA StaffTypeStep == StaffInv /\ [StaffNext]_scvars => StaffTypeOK'
<1> SUFFICES ASSUME StaffInv, [StaffNext]_scvars PROVE StaffTypeOK'
  OBVIOUS
<1> USE DutyAssumption, MaxDaysAssumption DEF StaffInv, StaffTypeOK
<1>1. ASSUME NEW s \in Staff, NEW n \in 0..MaxDays, Entitle(s, n) PROVE StaffTypeOK'
  BY <1>1 DEF Entitle
<1>2. ASSUME NEW s \in Staff, NEW d \in Day,
             RequestLeave(s, d) \/ EndLeaveRequest(s, d) \/ CheckLeave(s, d)
      PROVE StaffTypeOK'
  <2>1. PICK status \in {"none", "submitted", "deciding"} : SetLeave(s, d, status)
    BY <1>2 DEF RequestLeave, EndLeaveRequest, CheckLeave
  <2>2. leave' \in [Staff -> [Day -> {"none", "submitted", "deciding", "approved"}]]
    BY <2>1 DEF SetLeave
  <2> QED
    BY <1>2, <2>2 DEF RequestLeave, EndLeaveRequest, CheckLeave
<1>3. ASSUME NEW s \in Staff, NEW d \in Day, ApproveLeave(s, d) PROVE StaffTypeOK'
  BY <1>3 DEF ApproveLeave, SetLeave, NoCover, Undecided
<1>4. ASSUME NEW t \in Duty, NEW from, NEW to \in {"none", "offered", "active"}, Hold(t, from, to)
      PROVE StaffTypeOK'
  BY <1>4 DEF Hold
<1>5. ASSUME NEW t \in Duty, NEW s \in Staff, CheckReplacement(t, s) PROVE StaffTypeOK'
  BY <1>5 DEF CheckReplacement
<1>6. ASSUME NEW t \in Duty, OfferCover(t) PROVE StaffTypeOK'
  BY <1>6 DEF OfferCover, RowIsFree, TasksAreForLeave, Undecided
<1>7. ASSUME NEW t \in Duty, NEW st \in {"accepted", "declined"}, RespondCover(t, st)
      PROVE StaffTypeOK'
  BY <1>7 DEF RespondCover, Undecided
<1>8. CASE ReconcileCover
  <2>1. \A t \in Duty : cover'[t] \in [status : Undecided \union {"none", "accepted", "fallback", "expired"},
                                      by : Staff \union {Unassigned}]
    BY <1>8 DEF ReconcileCover
  <2>2. \A t \in Duty : cover'[t] = cover[t] \/ cover'[t].status \in {"fallback", "expired"}
    BY <1>8 DEF ReconcileCover
  <2>3. cover' = [t \in Duty |-> cover'[t]]
    BY <1>8 DEF ReconcileCover
  <2> QED
    BY <1>8, <2>1, <2>2, <2>3 DEF ReconcileCover
<1>9. CASE SetCoverPolicy \/ CoverClock \/ UNCHANGED scvars
  BY <1>9 DEF SetCoverPolicy, CoverClock, scvars
<1> QED
  BY <1>1, <1>2, <1>3, <1>4, <1>5, <1>6, <1>7, <1>8, <1>9
     DEF StaffNext, CreateResponsibility, RespondResponsibility, RevokeResponsibility

(* What a step may do to the requests of a day. *)
LEMMA OneRequestMoves ==
    ASSUME StaffInv, NEW s \in Staff, NEW d \in Day, NEW status \in Asked,
           leave[s][d] \in Asked, SetLeave(s, d, status)
    PROVE  \A o \in Staff : DaysOf(o, Asked)' = DaysOf(o, Asked)
<1> TAKE o \in Staff
<1>1. \A e \in Day : leave'[o][e] \in Asked <=> leave[o][e] \in Asked
  BY DEF SetLeave, StaffInv, StaffTypeOK
<1>2. {e \in Day : leave'[o][e] \in Asked} = {e \in Day : leave[o][e] \in Asked}
  BY <1>1
<1> QED
  BY <1>2 DEF DaysOf

LEMMA LeaveStep == StaffInv /\ [StaffNext]_scvars => LeaveFits'
<1> SUFFICES ASSUME StaffInv, [StaffNext]_scvars PROVE LeaveFits'
  OBVIOUS
<1> USE DEF StaffInv, StaffTypeOK, LeaveFits
<1>1. ASSUME NEW s \in Staff, NEW n \in 0..MaxDays, Entitle(s, n) PROVE LeaveFits'
  <2>1. \A o \in Staff : DaysOf(o, Asked)' = DaysOf(o, Asked) /\ DaysOf(o, Asked) \in Nat
    <3>1. leave' = leave
      BY <1>1 DEF Entitle
    <3>2. \A o \in Staff : DaysOf(o, Asked)' = DaysOf(o, Asked)
      BY <3>1 DEF DaysOf
    <3> QED
      BY <3>2, DaysAreCounted
  <2>2. \A o \in Staff : most'[o] >= most[o] /\ entitled'[o] <= most'[o] /\ most'[o] \in Nat
    BY <1>1, MaxDaysAssumption DEF Entitle
  <2> QED
    BY <2>1, <2>2
<1>2. ASSUME NEW s \in Staff, NEW d \in Day, RequestLeave(s, d) PROVE LeaveFits'
  <2> DEFINE Days == {e \in Day : leave[s][e] \in Asked}
  <2>1. leave'[s] = [leave[s] EXCEPT ![d] = "submitted"]
        /\ \A o \in Staff \ {s} : leave'[o] = leave[o]
    BY <1>2 DEF RequestLeave, SetLeave
  <2>2. {e \in Day : leave'[s][e] \in Asked} = Days \union {d}
    BY <1>2, <2>1 DEF RequestLeave, Asked
  <2>3. d \notin Days /\ IsFiniteSet(Days) /\ Cardinality(Days) \in Nat
    <3>1. Days \in SUBSET Day
      OBVIOUS
    <3> QED
      BY <1>2, <3>1, SetsOfDays DEF RequestLeave, Asked
  <2>4. DaysOf(s, Asked)' = DaysOf(s, Asked) + 1
    BY <2>2, <2>3, FS_AddElement DEF DaysOf
  <2>5. DaysOf(s, Asked) < entitled[s] /\ DaysOf(s, Asked) \in Nat
    <3>1. Asked = {"approved", "submitted", "deciding"}
      BY DEF Asked
    <3> QED
      BY <1>2, <3>1, DaysAreCounted DEF RequestLeave
  <2>6. \A o \in Staff \ {s} : DaysOf(o, Asked)' = DaysOf(o, Asked)
    BY <2>1 DEF DaysOf
  <2>7. UNCHANGED <<entitled, most>>
    BY <1>2 DEF RequestLeave
  <2> QED
    BY <2>4, <2>5, <2>6, <2>7
<1>3. ASSUME NEW s \in Staff, NEW d \in Day, EndLeaveRequest(s, d) PROVE LeaveFits'
  <2>1. ASSUME NEW o \in Staff PROVE DaysOf(o, Asked)' <= DaysOf(o, Asked)
    <3>1. {e \in Day : leave'[o][e] \in Asked} \subseteq {e \in Day : leave[o][e] \in Asked}
      BY <1>3 DEF EndLeaveRequest, SetLeave, Asked
    <3>2. {e \in Day : leave[o][e] \in Asked} \in SUBSET Day
      OBVIOUS
    <3> QED
      BY <3>1, <3>2, SetsOfDays DEF DaysOf
  <2>2. \A o \in Staff : DaysOf(o, Asked)' \in Nat /\ DaysOf(o, Asked) \in Nat
    BY DaysAreCounted
  <2> QED
    BY <1>3, <2>1, <2>2 DEF EndLeaveRequest
<1>4. ASSUME NEW s \in Staff, NEW d \in Day, CheckLeave(s, d) PROVE LeaveFits'
  <2>1. \A o \in Staff : DaysOf(o, Asked)' = DaysOf(o, Asked)
    BY <1>4, OneRequestMoves DEF CheckLeave, Asked
  <2> QED
    BY <1>4, <2>1 DEF CheckLeave
<1>5. ASSUME NEW s \in Staff, NEW d \in Day, ApproveLeave(s, d) PROVE LeaveFits'
  <2>1. \A o \in Staff : DaysOf(o, Asked)' = DaysOf(o, Asked)
    BY <1>5, OneRequestMoves DEF ApproveLeave, Asked
  <2> QED
    BY <1>5, <2>1 DEF ApproveLeave
<1>6. CASE UNCHANGED <<leave, entitled, most>>
  BY <1>6 DEF DaysOf
<1>7. ASSUME NEW t, NEW from, NEW to, Hold(t, from, to) PROVE LeaveFits'
  BY <1>6, <1>7 DEF Hold
<1>8. ASSUME NEW t, NEW s, CheckReplacement(t, s) \/ OfferCover(t) \/ RespondCover(t, s)
      PROVE LeaveFits'
  BY <1>6, <1>8 DEF CheckReplacement, OfferCover, RespondCover
<1> QED
  BY <1>1, <1>2, <1>3, <1>4, <1>5, <1>6, <1>7, <1>8
     DEF StaffNext, CreateResponsibility, RespondResponsibility, RevokeResponsibility,
         ReconcileCover, SetCoverPolicy, CoverClock, scvars

(* Approved leave stays, and a task that is being assigned is held. *)
LEMMA TaskStep == StaffInv /\ [StaffNext]_scvars => TasksAreForLeave'
<1> SUFFICES ASSUME StaffInv, [StaffNext]_scvars PROVE TasksAreForLeave'
  OBVIOUS
<1> USE DutyAssumption DEF StaffInv, StaffTypeOK, TasksAreForLeave
<1>1. ASSUME NEW s \in Staff, NEW d \in Day,
             RequestLeave(s, d) \/ EndLeaveRequest(s, d) \/ CheckLeave(s, d)
      PROVE TasksAreForLeave'
  <2>1. leave[s][d] # "approved" /\ UNCHANGED <<cover, chosen>>
        /\ \A o \in Staff, e \in Day : ~(o = s /\ e = d) => leave'[o][e] = leave[o][e]
    BY <1>1 DEF RequestLeave, EndLeaveRequest, CheckLeave, SetLeave
  <2> QED
    BY <2>1
<1>2. ASSUME NEW s \in Staff, NEW d \in Day, ApproveLeave(s, d) PROVE TasksAreForLeave'
  <2>1. leave'[s][d] = "approved"
        /\ \A o \in Staff, e \in Day : ~(o = s /\ e = d) => leave'[o][e] = leave[o][e]
    BY <1>2 DEF ApproveLeave, SetLeave
  <2>2. \A t \in Duty :
            cover'[t] # cover[t] => /\ Owner[t] = s /\ d = Today
                                    /\ cover[t].status = "none" /\ cover'[t].status = "open"
    <3> TAKE t \in Duty
    <3>1. [NoCover EXCEPT !.status = "open"].status = "open"
      BY DEF NoCover
    <3>2. cover'[t] = IF Owner[t] = s /\ d = Today /\ held[t] = "active" /\ cover[t].status = "none"
                      THEN [NoCover EXCEPT !.status = "open"] ELSE cover[t]
      BY <1>2 DEF ApproveLeave
    <3> QED
      BY <3>1, <3>2
  <2>3. chosen' = chosen
    BY <1>2 DEF ApproveLeave
  <2> QED
    <3> SUFFICES ASSUME NEW t \in Duty
                 PROVE /\ cover'[t].status # "none" => leave'[Owner[t]][Today] = "approved"
                       /\ chosen'[t] # Unassigned =>
                             cover'[t].status \in Undecided /\ chosen'[t] # Owner[t]
      BY Zenon
    <3>1. leave[Owner[t]][Today] = "approved" => leave'[Owner[t]][Today] = "approved"
      BY <2>1
    <3>2. CASE cover'[t] = cover[t]
      BY <2>3, <3>1, <3>2
    <3>3. CASE cover'[t] # cover[t]
      BY <2>1, <2>2, <2>3, <3>3 DEF Undecided
    <3> QED
      BY <3>2, <3>3
<1>3. ASSUME NEW t \in Duty, NEW s \in Staff, CheckReplacement(t, s) PROVE TasksAreForLeave'
  BY <1>3 DEF CheckReplacement
<1>4. ASSUME NEW t \in Duty, OfferCover(t) PROVE TasksAreForLeave'
  BY <1>4 DEF OfferCover, RowIsFree, Undecided
<1>5. ASSUME NEW t \in Duty, NEW st \in {"accepted", "declined"}, RespondCover(t, st)
      PROVE TasksAreForLeave'
  BY <1>5 DEF RespondCover, RowIsFree
<1>6. CASE ReconcileCover
  BY <1>6 DEF ReconcileCover, Due, RowIsFree, Undecided
<1>7. CASE UNCHANGED <<leave, cover, chosen>>
  BY <1>7
<1>8. ASSUME NEW t, NEW from, NEW to, Hold(t, from, to) PROVE TasksAreForLeave'
  BY <1>7, <1>8 DEF Hold
<1>9. ASSUME NEW s, NEW n, Entitle(s, n) PROVE TasksAreForLeave'
  BY <1>7, <1>9 DEF Entitle
<1> QED
  BY <1>1, <1>2, <1>3, <1>4, <1>5, <1>6, <1>7, <1>8, <1>9
     DEF StaffNext, CreateResponsibility, RespondResponsibility, RevokeResponsibility,
         SetCoverPolicy, CoverClock, scvars

LEMMA StaffInvariant == StaffSpec => []StaffInv
<1>1. StaffInv /\ [StaffNext]_scvars => StaffInv'
  BY StaffTypeStep, LeaveStep, TaskStep DEF StaffInv
<1> QED
  BY StaffInitInv, <1>1, PTL DEF StaffSpec

(* Requests, entitlements, duties and tasks keep their types, and the one  *)
(* who was asked to cover a duty is not its owner.                         *)
THEOREM StaffIsTyped == StaffSpec => []StaffTypeOK
BY StaffInvariant, PTL DEF StaffInv

(* Nobody is approved more leave than they were ever entitled to, though   *)
(* decideLeave reads the balance before it writes: requestLeave counted    *)
(* what is pending already.                                                *)
THEOREM ApprovedLeaveIsAffordable == StaffSpec => []LeaveWasAffordable
<1>1. StaffInv => LeaveWasAffordable
  <2> SUFFICES ASSUME StaffInv, NEW s \in Staff PROVE DaysOf(s, {"approved"}) <= most[s]
    BY DEF LeaveWasAffordable
  <2>1. {d \in Day : leave[s][d] \in {"approved"}} \subseteq {d \in Day : leave[s][d] \in Asked}
    BY DEF Asked
  <2>2. DaysOf(s, {"approved"}) <= DaysOf(s, Asked)
    <3>1. {d \in Day : leave[s][d] \in Asked} \in SUBSET Day
      OBVIOUS
    <3> QED
      BY <2>1, <3>1, SetsOfDays DEF DaysOf
  <2> QED
    BY <2>2, DaysAreCounted DEF StaffInv, StaffTypeOK, LeaveFits
<1> QED
  BY <1>1, StaffInvariant, PTL

CoverMayChange ==
    \A t \in Duty :
        /\ cover[t].status \in {"accepted", "fallback", "expired"} => cover'[t] = cover[t]
        /\ cover'[t].status = "accepted" /\ cover'[t] # cover[t] =>
                Covers(cover'[t].by, t) /\ leave[Owner[t]][Today] = "approved"

(* A decided cover stands, whatever deadline, answer or assignment arrives *)
(* late, and it is for an absence (respondCoverage, assignCoverage and the *)
(* reconciliation of the deadlines, by the lock on the task).              *)
THEOREM DecidedCoversStand == StaffSpec => DecidedCoverStands
<1>1. StaffInv /\ [StaffNext]_scvars => [CoverMayChange]_scvars
  <2> SUFFICES ASSUME StaffInv, StaffNext PROVE CoverMayChange
    OBVIOUS
  <2> USE DEF StaffInv, StaffTypeOK, TasksAreForLeave, CoverMayChange
  <2>1. ASSUME NEW s \in Staff, NEW d \in Day, ApproveLeave(s, d) PROVE CoverMayChange
    BY <2>1 DEF ApproveLeave, NoCover
  <2>2. ASSUME NEW t \in Duty, OfferCover(t) PROVE CoverMayChange
    BY <2>2 DEF OfferCover, RowIsFree, Undecided
  <2>3. ASSUME NEW t \in Duty, NEW st \in {"accepted", "declined"}, RespondCover(t, st)
        PROVE CoverMayChange
    <3>1. cover[t].status = "offered" /\ cover' = [cover EXCEPT ![t].status = st]
      BY <2>3 DEF RespondCover
    <3>2. \A u \in Duty \ {t} : cover'[u] = cover[u]
      BY <3>1
    <3>3. cover'[t].by = cover[t].by
      BY <3>1
    <3> QED
      BY <3>1, <3>2, <3>3 DEF Covers
  <2>4. CASE ReconcileCover
    BY <2>4 DEF ReconcileCover, Due, Undecided
  <2>5. CASE cover' = cover
    BY <2>5
  <2>6. ASSUME NEW t, NEW from, NEW to, Hold(t, from, to) PROVE CoverMayChange
    BY <2>5, <2>6 DEF Hold
  <2> QED
    BY <2>1, <2>2, <2>3, <2>4, <2>5, <2>6
       DEF StaffNext, Entitle, RequestLeave, EndLeaveRequest, CheckLeave, CreateResponsibility,
           RespondResponsibility, RevokeResponsibility, CheckReplacement, SetCoverPolicy, CoverClock
<1> QED
  BY <1>1, StaffInvariant, PTL DEF StaffSpec, DecidedCoverStands, CoverMayChange

-----------------------------------------------------------------------------
(* Registers of lessons.                                                   *)

(* A check-in that was accepted is a mark. *)
AcceptedAreMarked == \A s \in Learner : evidence[s] = "accepted" => entry[s] # "none"

(* While nothing has crossed: whoever is at work has read the register as  *)
(* it is, and a screen that shows its revision shows its marks.            *)
NothingIsStale ==
    ~crossed =>
        /\ call # NoCall => call.revision = session.revision
        /\ \A s \in Learner : Scanning(s) => scan[s].revision = session.revision
        /\ \A t \in Tab : /\ screen[t].revision <= session.revision
                          /\ screen[t].revision = session.revision => screen[t].marks = entry
        /\ call.step \in {"save", "marks"} =>
                /\ session.state # "locked" /\ call.tab \in Tab
                /\ screen[call.tab].revision = session.revision

SessionInv == SessionTypeOK /\ AcceptedAreMarked /\ NothingIsStale

Calls == [step : {"none", "save", "marks", "lock", "reopen"}, tab : Tab \union {NoTab},
          revision : Nat, roster : SUBSET Learner, before : [Learner -> Marks \union {"none"}]]
Scans == [step : {"none", "code", "unmarked", "marked"}, revision : Nat]

LEMMA NobodyAtWork ==
    /\ NoMarks \in [Learner -> Marks \union {"none"}]
    /\ NoCall \in Calls /\ NoCall.step = "none" /\ NoCall.tab = NoTab
    /\ NoScan \in Scans /\ NoScan.step = "none"
<1>1. NoMarks \in [Learner -> Marks \union {"none"}]
  BY DEF NoMarks
<1> QED
  BY <1>1 DEF NoCall, NoScan, Calls, Scans

LEMMA SessionInitInv == SessionInit => SessionInv
<1> SUFFICES ASSUME SessionInit PROVE SessionInv
  OBVIOUS
<1>1. SessionTypeOK
  BY NobodyAtWork DEF SessionInit, SessionTypeOK, Calls, Scans, NoMarks
<1>2. AcceptedAreMarked
  BY DEF SessionInit, AcceptedAreMarked, NoMarks
<1>3. NothingIsStale
  BY NobodyAtWork DEF SessionInit, NothingIsStale, Scanning
<1> QED
  BY <1>1, <1>2, <1>3 DEF SessionInv

LEMMA SessionTypeStep == SessionTypeOK /\ [SessionNext]_sessions => SessionTypeOK'
<1> SUFFICES ASSUME SessionTypeOK, [SessionNext]_sessions PROVE SessionTypeOK'
  OBVIOUS
<1> USE NobodyAtWork DEF SessionTypeOK, Calls, Scans, WriteLesson, Crosses
<1>1. ASSUME NEW t \in Tab, OpenScreen(t) PROVE SessionTypeOK'
  BY <1>1 DEF OpenScreen
<1>2. ASSUME NEW t \in Tab, BeginSave(t) PROVE SessionTypeOK'
  BY <1>2 DEF BeginSave, Begin
<1>3. ASSUME NEW step \in {"lock", "reopen"}, Begin(step, NoTab) PROVE SessionTypeOK'
  BY <1>3 DEF Begin
<1>4. CASE ReadMarks
  BY <1>4 DEF ReadMarks
<1>5. CASE WriteLock
  <2>1. session' \in [state : {"draft", "submitted", "locked"}, revision : Nat, auto : BOOLEAN]
    <3>1. \E state \in {"submitted", "locked"} :
            session' = [state |-> state, revision |-> call.revision + 1, auto |-> FALSE]
      BY <1>5 DEF WriteLock
    <3> QED
      BY <3>1
  <2>2. crossed' \in BOOLEAN
    BY <1>5 DEF WriteLock
  <2>3. call' = NoCall /\ UNCHANGED <<entry, evidence, class, screen, scan>>
    BY <1>5 DEF WriteLock
  <2> QED
    BY <2>1, <2>2, <2>3
<1>6. CASE AbandonCall
  BY <1>6 DEF AbandonCall
<1>7. CASE FinalizeDue
  BY <1>7 DEF FinalizeDue
<1>8. ASSUME NEW records \in [Learner -> Marks], WriteSave(records) PROVE SessionTypeOK'
  BY <1>8 DEF WriteSave
<1>9. ASSUME NEW s \in Learner, Enrol(s) PROVE SessionTypeOK'
  BY <1>9 DEF Enrol
<1>10. ASSUME NEW s \in Learner, ReadCode(s) \/ LookUpMark(s) \/ AbandonScan(s)
       PROVE SessionTypeOK'
  <2>1. scan'[s] \in Scans /\ \E v \in Scans : scan' = [scan EXCEPT ![s] = v]
    <3>1. CASE ReadCode(s)
      BY <3>1 DEF ReadCode
    <3>2. CASE LookUpMark(s)
      <4>1. PICK step \in {"unmarked", "marked"} : scan' = [scan EXCEPT ![s].step = step]
        BY <3>2 DEF LookUpMark
      <4>2. [scan[s] EXCEPT !.step = step] \in Scans
        OBVIOUS
      <4> QED
        BY <4>1, <4>2
    <3>3. CASE AbandonScan(s)
      BY <3>3 DEF AbandonScan, ScanEnds
    <3> QED
      BY <1>10, <3>1, <3>2, <3>3
  <2>2. UNCHANGED <<session, entry, evidence, class, screen, call, crossed>>
    BY <1>10 DEF ReadCode, LookUpMark, AbandonScan
  <2> QED
    BY <2>1, <2>2
<1>11. ASSUME NEW s \in Learner, RequestReview(s) PROVE SessionTypeOK'
  BY <1>11 DEF RequestReview, Submit, ScanEnds
<1>13. ASSUME NEW s \in Learner, CheckIn(s) PROVE SessionTypeOK'
  BY <1>13 DEF CheckIn, Submit, ScanEnds, Marks
<1>12. CASE UNCHANGED sessions
  BY <1>12 DEF sessions
<1> QED
  BY <1>1, <1>2, <1>3, <1>4, <1>5, <1>6, <1>7, <1>8, <1>9, <1>10, <1>11, <1>12, <1>13
     DEF SessionNext, BeginLock, BeginReopen

(* Marks are never taken away, so what was accepted stays a mark.          *)
LEMMA MarksStay ==
    SessionTypeOK /\ AcceptedAreMarked /\ [SessionNext]_sessions => AcceptedAreMarked'
<1> SUFFICES ASSUME SessionTypeOK, AcceptedAreMarked, [SessionNext]_sessions
             PROVE  AcceptedAreMarked'
  OBVIOUS
<1> USE DEF SessionTypeOK, AcceptedAreMarked, Marks
<1>1. CASE UNCHANGED <<entry, evidence>>
  BY <1>1
<1>2. ASSUME NEW records \in [Learner -> Marks], WriteSave(records) PROVE AcceptedAreMarked'
  BY <1>2 DEF WriteSave
<1>3. ASSUME NEW s \in Learner, RequestReview(s) \/ CheckIn(s) PROVE AcceptedAreMarked'
  BY <1>3 DEF RequestReview, CheckIn, Submit
<1> QED
  BY <1>1, <1>2, <1>3 DEF SessionNext, OpenScreen, BeginSave, BeginLock, BeginReopen, Begin,
     ReadMarks, WriteLock, AbandonCall, FinalizeDue, Enrol, ReadCode, LookUpMark, AbandonScan,
     sessions

(* Each write takes the revision it read one further, so that the screens  *)
(* that show the new revision are those opened after it.                   *)
LEMMA StaleStep == SessionInv /\ [SessionNext]_sessions => NothingIsStale'
<1> SUFFICES ASSUME SessionInv, [SessionNext]_sessions, ~crossed' PROVE NothingIsStale'
  BY DEF NothingIsStale
<1> USE TabAssumption, NobodyAtWork
    DEF SessionInv, SessionTypeOK, NothingIsStale, Scanning, WriteLesson, Crosses
<1>1. ASSUME NEW t \in Tab, OpenScreen(t) PROVE NothingIsStale'
  BY <1>1 DEF OpenScreen
<1>2. ASSUME NEW t \in Tab, BeginSave(t) PROVE NothingIsStale'
  BY <1>2 DEF BeginSave, Begin, Calls
<1>3. ASSUME NEW step \in {"lock", "reopen"}, Begin(step, NoTab) PROVE NothingIsStale'
  BY <1>3 DEF Begin, Calls
<1>4. CASE ReadMarks
  BY <1>4 DEF ReadMarks
<1>5. CASE WriteLock
  <2>1. ~crossed /\ \A s \in Learner : ~Scanning(s)
    BY <1>5 DEF WriteLock
  <2>2. session'.revision = call.revision + 1
    BY <1>5 DEF WriteLock
  <2>3. call' = NoCall /\ call # NoCall /\ UNCHANGED <<entry, screen, scan>>
    BY <1>5 DEF WriteLock
  <2> QED
    BY <2>1, <2>2, <2>3
<1>6. CASE AbandonCall
  BY <1>6 DEF AbandonCall
<1>7. CASE FinalizeDue
  <2>1. ~crossed /\ call = NoCall /\ \A s \in Learner : ~Scanning(s)
    BY <1>7 DEF FinalizeDue
  <2>2. session'.revision = session.revision + 1 /\ UNCHANGED <<entry, screen, call, scan>>
    BY <1>7 DEF FinalizeDue
  <2> QED
    BY <2>1, <2>2
<1>8. ASSUME NEW records \in [Learner -> Marks], WriteSave(records) PROVE NothingIsStale'
  <2>1. ~crossed /\ \A s \in Learner : ~Scanning(s)
    BY <1>8 DEF WriteSave
  <2>2. session'.revision = call.revision + 1
    BY <1>8 DEF WriteSave
  <2>3. call' = NoCall /\ call # NoCall /\ UNCHANGED <<screen, scan>>
    BY <1>8 DEF WriteSave
  <2> QED
    BY <2>1, <2>2, <2>3
<1>9. ASSUME NEW s \in Learner, Enrol(s) PROVE NothingIsStale'
  BY <1>9 DEF Enrol
<1>10. ASSUME NEW s \in Learner, ReadCode(s) \/ LookUpMark(s) \/ AbandonScan(s) \/ RequestReview(s)
       PROVE NothingIsStale'
  <2>1. /\ \A o \in Learner \ {s} : scan'[o] = scan[o]
        /\ Scanning(s)' => scan'[s].revision \in {scan[s].revision, session.revision}
        /\ scan'[s].revision = scan[s].revision => Scanning(s) \/ ~Scanning(s)'
                \/ scan'[s].revision = session.revision
    <3>1. CASE ReadCode(s)
      BY <3>1 DEF ReadCode
    <3>2. CASE LookUpMark(s)
      BY <3>2 DEF LookUpMark
    <3>3. CASE AbandonScan(s) \/ RequestReview(s)
      BY <3>3 DEF AbandonScan, RequestReview, ScanEnds
    <3> QED
      BY <1>10, <3>1, <3>2, <3>3
  <2>2. UNCHANGED <<session, entry, class, screen, call, crossed>>
    BY <1>10 DEF ReadCode, LookUpMark, AbandonScan, RequestReview
  <2> QED
    BY <2>1, <2>2
<1>11. ASSUME NEW s \in Learner, CheckIn(s) PROVE NothingIsStale'
  <2>1. ~crossed /\ call = NoCall /\ \A o \in Learner \ {s} : ~Scanning(o)
    BY <1>11 DEF CheckIn
  <2>2. session'.revision = scan[s].revision + 1 /\ Scanning(s)
    BY <1>11 DEF CheckIn
  <2>3. scan' = [scan EXCEPT ![s] = NoScan] /\ UNCHANGED <<screen, call>>
    BY <1>11 DEF CheckIn, ScanEnds
  <2> QED
    BY <2>1, <2>2, <2>3
<1>12. CASE UNCHANGED sessions
  BY <1>12 DEF sessions
<1> QED
  BY <1>1, <1>2, <1>3, <1>4, <1>5, <1>6, <1>7, <1>8, <1>9, <1>10, <1>11, <1>12
     DEF SessionNext, BeginLock, BeginReopen

(* The inductive invariant of a register. *)
LEMMA SessionInvariant == SessionSpec => []SessionInv
<1>1. SessionInv /\ [SessionNext]_sessions => SessionInv'
  BY SessionTypeStep, MarksStay, StaleStep DEF SessionInv
<1> QED
  BY <1>1, SessionInitInv, PTL DEF SessionSpec

(* The register of a lesson, its screens, calls and check-ins have their   *)
(* types.                                                                  *)
THEOREM SessionIsTyped == SessionSpec => []SessionTypeOK
<1>1. SessionInv => SessionTypeOK
  BY DEF SessionInv
<1> QED
  BY <1>1, SessionInvariant, PTL

(* For any pupils and tabs: a check-in never replaces a mark of the staff. *)
THEOREM CheckInsReplaceNothing == SessionSpec => StaffDecisionsStand
<1> DEFINE Stands ==
        \A s \in Learner :
            /\ entry[s] # "none" /\ entry'[s] # entry[s] => call.step = "marks"
            /\ evidence'[s] = "accepted" => entry'[s] # "none"
<1>1. SessionInv /\ [SessionNext]_sessions =>
            \A s \in Learner : entry[s] # "none" /\ entry'[s] # entry[s] => call.step = "marks"
  <2> SUFFICES ASSUME SessionInv, [SessionNext]_sessions, entry' # entry, call.step # "marks",
                      NEW s \in Learner, entry[s] # "none"
               PROVE  entry'[s] = entry[s]
    OBVIOUS
  <2>1. PICK c \in Learner : CheckIn(c)
    BY DEF SessionNext, OpenScreen, BeginSave, BeginLock, BeginReopen, Begin, ReadMarks,
           WriteSave, WriteLock, AbandonCall, FinalizeDue, Enrol, ReadCode, LookUpMark,
           AbandonScan, RequestReview, sessions
  <2> QED
    BY <2>1 DEF CheckIn, SessionInv, SessionTypeOK
<1>2. SessionInv /\ [SessionNext]_sessions =>
            \A s \in Learner : evidence'[s] = "accepted" => entry'[s] # "none"
  BY MarksStay DEF SessionInv, AcceptedAreMarked
<1>3. SessionInv /\ [SessionNext]_sessions => [Stands]_sessions
  BY <1>1, <1>2
<1> QED
  BY <1>3, SessionInvariant, PTL DEF SessionSpec, StaffDecisionsStand

(* For any pupils and tabs: a save changes an open register and overwrites *)
(* only what its screen shows, while nothing has crossed.                  *)
THEOREM UncrossedSavesAreSerial == SessionSpec => SavesAreSerial
<1> DEFINE Serial ==
        ~crossed /\ call.step = "marks" /\ session' # session /\ call' = NoCall =>
            /\ session.state # "locked" /\ session'.revision = session.revision + 1
            /\ entry = screen[call.tab].marks
<1>1. SessionInv /\ SessionNext => Serial
  <2> SUFFICES ASSUME SessionInv, SessionNext, ~crossed, call.step = "marks",
                      session' # session, call' = NoCall
               PROVE  /\ session.state # "locked" /\ session'.revision = session.revision + 1
                      /\ entry = screen[call.tab].marks
    OBVIOUS
  <2>1. call # NoCall
    BY DEF NoCall
  <2>2. PICK records \in [Learner -> Marks] : WriteSave(records)
    BY <2>1 DEF SessionNext, OpenScreen, BeginSave, BeginLock, BeginReopen, Begin, ReadMarks,
           WriteLock, AbandonCall, FinalizeDue, CheckIn, Enrol, ReadCode, LookUpMark,
           AbandonScan, RequestReview
  <2>3. session'.revision = call.revision + 1
    BY <2>2 DEF WriteSave, WriteLesson
  <2> QED
    BY <2>1, <2>3 DEF SessionInv, NothingIsStale
<1>2. SessionInv /\ [SessionNext]_sessions => [Serial]_sessions
  BY <1>1
<1> QED
  BY <1>2, SessionInvariant, PTL DEF SessionSpec, SavesAreSerial

(* A lesson's register is versioned until two calls cross: every write     *)
(* takes the revision after the one it changes, and a final register is    *)
(* opened by the office alone.                                             *)
THEOREM UncrossedLessonsAreVersioned == SessionSpec => LessonIsVersioned
<1> DEFINE Versioned ==
        ~crossed =>
            /\ <<session, entry>>' # <<session, entry>> => session'.revision = session.revision + 1
            /\ session.state = "locked" => session'.state = "locked" \/ call.step = "reopen"
<1>1. SessionInv /\ SessionNext => Versioned
  <2> SUFFICES ASSUME SessionInv, SessionNext, ~crossed PROVE Versioned
    OBVIOUS
  <2> USE DEF WriteLesson
  <2>1. /\ call # NoCall => call.revision = session.revision
        /\ \A s \in Learner : Scanning(s) => scan[s].revision = session.revision
        /\ call.step = "marks" => session.state # "locked"
    BY DEF SessionInv, NothingIsStale
  <2>2. NoCall.step = "none"
    BY NobodyAtWork
  <2>3. ASSUME NEW records \in [Learner -> Marks], WriteSave(records) PROVE Versioned
    <3>1. call # NoCall
      BY <2>2, <2>3 DEF WriteSave
    <3> QED
      BY <2>1, <2>3, <3>1 DEF WriteSave
  <2>4. CASE WriteLock
    <3>1. call # NoCall
      BY <2>2, <2>4 DEF WriteLock
    <3> QED
      BY <2>1, <2>4, <3>1 DEF WriteLock
  <2>5. CASE FinalizeDue
    BY <2>5 DEF FinalizeDue
  <2>6. ASSUME NEW s \in Learner, CheckIn(s) PROVE Versioned
    BY <2>1, <2>6 DEF CheckIn, Scanning
  <2>7. CASE UNCHANGED <<session, entry>>
    BY <2>7
  <2> QED
    BY <2>3, <2>4, <2>5, <2>6, <2>7
       DEF SessionNext, OpenScreen, BeginSave, BeginLock, BeginReopen, Begin, ReadMarks,
           AbandonCall, Enrol, ReadCode, LookUpMark, AbandonScan, RequestReview
<1>2. SessionInv /\ [SessionNext]_sessions => [Versioned]_sessions
  BY <1>1
<1> QED
  BY <1>2, SessionInvariant, PTL DEF SessionSpec, LessonIsVersioned
=============================================================================
