SPECIFICATION TimetableSpec
CONSTANTS
    Section = {a1, b1}
    Teacher = {t1}
    NoTeacher = NoTeacher
    NoPeriod = NoPeriod
    Cancelled = Cancelled
    Legacy = Legacy
    None = None
    MaxTimetables = 1
    MaxDrafts = 1
INVARIANT PublishedPlansStayValid
