SPECIFICATION DaySpec
CONSTANTS
    Student = {s1}
    User = {p1, p2}
    Mark = {Absent, Excused}
    Absent = Absent
    Excused = Excused
    Unmarked = Unmarked
    NoUser = NoUser
    Single = {FALSE}
    Reason = {TRUE}
    Automatic = {FALSE}
    MaxRevision = 3
    Section = {p1, p2}
    Teacher = {t1, t2}
    NoTeacher = NoTeacher
    NoPeriod = NoPeriod
    Cancelled = Cancelled
    Legacy = Legacy
    None = None
    MaxTimetables = 1
    MaxDrafts = 1
SYMMETRY DaySymmetry
CHECK_DEADLOCK FALSE
PROPERTIES NoLostUpdate AnswerIsForThisDuty
