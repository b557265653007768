SPECIFICATION Spec
CONSTANTS
    Absent = Absent
    Excused = Excused
    Unmarked = Unmarked
    NoUser = NoUser
    Student = {s1, s2}
    User = {u1}
    Mark = {Absent, Excused}
    Single = {TRUE, FALSE}
    Reason = {TRUE, FALSE}
    Automatic = {TRUE, FALSE}
    MaxRevision = 4
SYMMETRY Symmetry
CHECK_DEADLOCK FALSE
INVARIANTS TypeOK RosterComplete TrailRetraces
PROPERTIES NoLostUpdate ImplementsVersionedRecord
