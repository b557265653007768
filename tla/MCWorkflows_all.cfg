SPECIFICATION WorkflowSpec
CONSTANTS
    Receiver = {aunt}
    Trip = {bus}
    Alone = Alone
    External = External
    MaxPlans = 2
    Collector = {o1, o2}
    Journey = {p1, p2}
    NoCollector = NoCollector
    NoJourney = NoJourney
    LastTime = 2
    MaxJourneyRevision = 4
    Desk = {d1}
    Claim = {c1}
    Order = {o1, o2}
    Pay = {p1, p2}
    Nobody = Nobody
    Amount = 2
    Student = {p1, p2}
    Terms <- EventTerms
    Recipient = {r1, r2}
    Online = {r1}
    Page = {p1, p2}
    NoOne = NoOne
    MaxNoticeRevision = 2
    ana = ana
    ben = ben
    lesson = lesson
    duty = duty
    Staff = {ana, ben}
    Day = {1, 2}
    Today = 1
    Duty <- StaffDuty
    Class = {lesson}
    Owner <- DutyOwner
    Unassigned = Unassigned
    MaxDays = 1
    Section = {p1, p2}
    Teacher = {t1}
    NoTeacher = NoTeacher
    NoPeriod = NoPeriod
    Cancelled = Cancelled
    Legacy = Legacy
    None = None
    MaxTimetables = 1
    MaxDrafts = 1
    Learner = {p1, p2}
    Tab = {b1}
    NoTab = NoTab
    MaxSessionRevision = 3
SYMMETRY WorkflowSymmetry
CHECK_DEADLOCK FALSE
INVARIANTS WorkflowTypeOK SafeDeparture NobodyInTwoPlaces BooksAgree PlacesAgree
    RegisterIsTrue LeaveWasAffordable PlansAreFree
PROPERTIES ImplementsCustody MovesByConsent NothingIsOverpaid AnswersStand DecidedCoverStands
    StartedPlansStand StaffDecisionsStand SavesAreSerial
