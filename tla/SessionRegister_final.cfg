SPECIFICATION SessionSpec
CONSTANTS
    Learner = {s1}
    Tab = {t1}
    NoTab = NoTab
    MaxSessionRevision = 4
PROPERTY FinalStaysFinal
CHECK_DEADLOCK FALSE
