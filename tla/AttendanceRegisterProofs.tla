---------------------- MODULE AttendanceRegisterProofs ----------------------
(***************************************************************************)
(* Proofs about AttendanceRegister, for any class, any number of sessions  *)
(* and any bound on the revisions.                                         *)
(*                                                                         *)
(* The argument rests on one fact: a revision names the marks.  Every      *)
(* transaction that changes a mark takes the next revision, so whoever     *)
(* read marks at the revision now in force still knows them.               *)
(***************************************************************************)
EXTENDS AttendanceRegister, TLAPS

(* Marks read at a revision are those in force if that revision still is. *)
UpToDate(sheet, revision) ==
    /\ revision <= register.revision
    /\ revision = register.revision => \A s \in DOMAIN sheet : sheet[s] = mark[s]

PagesKnown ==
    \A u \in User :
        /\ UpToDate(page[u].marks, page[u].asOf)
        /\ page[u].revision <= register.revision

ResultsKnown == \A u \in User : UpToDate(stored[u].marks, stored[u].revision)

(* A request carries the revision of its page, and once checked it has seen *)
(* its roster no earlier than that.                                        *)
CallsKnown ==
    \A u \in User :
        /\ call[u].stage # "idle" => call[u].expected = page[u].revision
        /\ call[u].stage = "checked" =>
            /\ call[u].expected <= call[u].seenAt
            /\ UpToDate(call[u].seen, call[u].seenAt)
            /\ DOMAIN call[u].records \subseteq DOMAIN call[u].seen
            /\ ~call[u].single => DOMAIN call[u].records = DOMAIN call[u].seen

TrailBounded == \A e \in trail : e.revision <= register.revision

(* What concerns the rows, and what concerns the sessions. *)
RowsInv == RosterComplete /\ Accountable /\ TrailRetraces /\ TrailBounded
SessionsInv == PagesKnown /\ CallsKnown /\ ResultsKnown

(* The inductive invariant. *)
RegisterInv == TypeOK /\ RowsInv /\ SessionsInv

-----------------------------------------------------------------------------
(* A sheet gives each pupil of some roster a mark, and nothing else does. *)
LEMMA Sheets ==
    ASSUME NEW S, NEW sheet
    PROVE  sheet \in Sheet(S) <=>
                \E roster \in SUBSET Student : sheet \in [roster -> S]
  BY DEF Sheet

(* The empty sheet and the roster as a query reads it are sheets. *)
LEMMA SheetsRead ==
    ASSUME TypeOK
    PROVE  /\ NoMarks \in Sheet(Marks) /\ NoMarks \in Sheet(Mark)
           /\ DOMAIN NoMarks = {}
           /\ CurrentSheet \in Sheet(Marks)
           /\ DOMAIN CurrentSheet = enrolled
           /\ \A s \in enrolled : CurrentSheet[s] = mark[s]
<1>1. NoMarks \in [{} -> Marks] /\ NoMarks \in [{} -> Mark] /\ DOMAIN NoMarks = {}
  BY DEF NoMarks
<1>2. CurrentSheet \in [enrolled -> Marks] /\ enrolled \in SUBSET Student
  BY DEF CurrentSheet, TypeOK
<1>3. \A s \in enrolled : CurrentSheet[s] = mark[s]
  BY DEF CurrentSheet
<1> QED
  BY <1>1, <1>2, <1>3 DEF Sheet

(* What a request records are marks of the pupils it names. *)
LEMMA RecordsAreMarks ==
    ASSUME TypeOK, NEW u \in User
    PROVE  /\ DOMAIN call[u].records \subseteq Student
           /\ \A s \in DOMAIN call[u].records : call[u].records[s] \in Mark
           /\ DOMAIN call[u].seen \subseteq Student
           /\ \A s \in DOMAIN call[u].seen : call[u].seen[s] \in Marks
<1>1. call[u].records \in Sheet(Mark) /\ call[u].seen \in Sheet(Marks)
  BY DEF TypeOK, CallType
<1>2. PICK roster \in SUBSET Student : call[u].records \in [roster -> Mark]
  BY <1>1 DEF Sheet
<1>3. PICK seen \in SUBSET Student : call[u].seen \in [seen -> Marks]
  BY <1>1 DEF Sheet
<1> QED
  BY <1>2, <1>3

LEMMA InitInv == Init => RegisterInv
<1> SUFFICES ASSUME Init PROVE RegisterInv
  OBVIOUS
<1>1. NoMarks \in Sheet(Marks) /\ NoMarks \in Sheet(Mark) /\ DOMAIN NoMarks = {}
  <2>1. NoMarks \in [{} -> Marks] /\ NoMarks \in [{} -> Mark] /\ DOMAIN NoMarks = {}
    BY DEF NoMarks
  <2> QED
    BY <2>1 DEF Sheet
<1>2. 0 \in Revision
  BY MaxRevisionAssumption DEF Revision
<1>3. BlankPage \in PageType /\ IdleCall \in CallType /\ NoResult \in ResultType
  BY <1>1, <1>2 DEF BlankPage, IdleCall, NoResult, PageType, CallType, ResultType
<1>4. TypeOK
  BY <1>2, <1>3 DEF Init, TypeOK, RegisterType, EntryType, Marks
<1>5. RowsInv
  BY DEF Init, RowsInv, RosterComplete, Accountable, TrailRetraces, TrailBounded, Entries
<1>6. SessionsInv
  BY <1>1 DEF Init, SessionsInv, PagesKnown, CallsKnown, ResultsKnown, UpToDate,
              BlankPage, IdleCall, NoResult
<1> QED
  BY <1>4, <1>5, <1>6 DEF RegisterInv

-----------------------------------------------------------------------------
(* The writers of the rows                                                 *)

(* A transaction leaves the revision alone, and the marks with it, or takes *)
(* a later one.                                                            *)
RevisionNamesMarks ==
    /\ register'.revision \in Revision
    /\ register.revision <= register'.revision
    /\ register.revision = register'.revision => mark' = mark

(* Then what was up to date stays so, or is known to be old. *)
LEMMA KnowledgeLasts ==
    ASSUME TypeOK, RevisionNamesMarks, NEW sheet, NEW r \in Revision,
           UpToDate(sheet, r)
    PROVE  UpToDate(sheet, r)'
<1>1. r \in Nat /\ register.revision \in Nat /\ register'.revision \in Nat
  BY MaxRevisionAssumption DEF TypeOK, RegisterType, Revision, RevisionNamesMarks
<1>2. r <= register'.revision
  BY <1>1 DEF UpToDate, RevisionNamesMarks
<1>3. ASSUME r = register'.revision, NEW s \in DOMAIN sheet
      PROVE  sheet[s] = mark'[s]
  <2>1. r = register.revision /\ mark' = mark
    BY <1>1, <1>3 DEF UpToDate, RevisionNamesMarks
  <2> QED
    BY <2>1 DEF UpToDate
<1> QED
  BY <1>2, <1>3 DEF UpToDate

(* The office changes nothing a session knows for current. *)
LEMMA SessionsUndisturbed ==
    ASSUME TypeOK, SessionsInv, RevisionNamesMarks, UNCHANGED <<page, call, stored>>
    PROVE  SessionsInv'
<1>1. ASSUME NEW u \in User
      PROVE  /\ page[u].asOf \in Revision /\ page[u].revision \in Revision
             /\ call[u].seenAt \in Revision /\ stored[u].revision \in Revision
  BY DEF TypeOK, PageType, CallType, ResultType
<1>2. register.revision \in Nat /\ register'.revision \in Nat
  BY MaxRevisionAssumption DEF TypeOK, RegisterType, Revision, RevisionNamesMarks
<1>3. PagesKnown'
  <2> SUFFICES ASSUME NEW u \in User
               PROVE  UpToDate(page[u].marks, page[u].asOf)' /\ page'[u].revision <= register'.revision
    BY DEF PagesKnown
  <2>1. UpToDate(page[u].marks, page[u].asOf)'
    BY <1>1, KnowledgeLasts DEF SessionsInv, PagesKnown
  <2>2. page[u].revision \in Nat
    BY <1>1, MaxRevisionAssumption DEF Revision
  <2>3. page'[u].revision <= register'.revision
    BY <1>2, <2>2 DEF SessionsInv, PagesKnown, RevisionNamesMarks
  <2> QED
    BY <2>1, <2>3
<1>4. ResultsKnown'
  BY <1>1, KnowledgeLasts DEF SessionsInv, ResultsKnown
<1>5. CallsKnown'
  <2> SUFFICES ASSUME NEW u \in User, call[u].stage = "checked"
               PROVE  UpToDate(call[u].seen, call[u].seenAt)'
    BY DEF CallsKnown, SessionsInv
  <2> QED
    BY <1>1, KnowledgeLasts DEF SessionsInv, CallsKnown
<1> QED
  BY <1>3, <1>4, <1>5 DEF SessionsInv

(* The entries a transaction adds. *)
NewEntries(S, to) ==
    {[student |-> s, from |-> mark[s], to |-> to[s],
      revision |-> register.revision + 1] : s \in S}

(* A transaction that takes the next revision for some pupils, gives them  *)
(* marks and writes an entry for each continues their chains.              *)
LEMMA TrailGrows ==
    ASSUME TypeOK, TrailRetraces, TrailBounded,
           NEW S \in SUBSET Student, NEW to \in [S -> Mark],
           register.revision + 1 \in Revision,
           register'.revision = register.revision + 1,
           trail' = trail \union NewEntries(S, to),
           mark' = [s \in Student |-> IF s \in S THEN to[s] ELSE mark[s]]
    PROVE  trail' \subseteq EntryType /\ TrailRetraces' /\ TrailBounded'
<1> DEFINE r == register.revision + 1
           New == NewEntries(S, to)
<1>1. register.revision \in Nat
  BY MaxRevisionAssumption DEF TypeOK, RegisterType, Revision
<1>2. \A e \in trail : e \in EntryType /\ e.revision \in Nat /\ e.revision < r
  BY <1>1, MaxRevisionAssumption DEF TypeOK, EntryType, Revision, TrailBounded
<1>3. \A e \in New : /\ e.student \in S /\ e.revision = r /\ e.from = mark[e.student]
                     /\ e.to = to[e.student] /\ e \in EntryType
  BY DEF NewEntries, EntryType, TypeOK
<1>4. \A e, f \in New : e.student = f.student => e = f
  BY DEF NewEntries
<1>5. ASSUME NEW s \in S PROVE \E e \in New : e.student = s
  <2>1. [student |-> s, from |-> mark[s], to |-> to[s], revision |-> r] \in New
    BY DEF NewEntries
  <2> QED
    BY <2>1
<1>6. trail' = trail \union New
  OBVIOUS
<1> HIDE DEF New
<1>7. trail' \subseteq EntryType
  BY <1>2, <1>3, <1>6
<1>8. TrailBounded'
  BY <1>1, <1>2, <1>3, <1>6 DEF TrailBounded
<1>9. \A e \in trail : Before(e)' = Before(e)
  BY <1>1, <1>2, <1>3, <1>6 DEF Before, Entries
<1>10. \A e \in New : Before(e)' = Entries(e.student)
  BY <1>1, <1>2, <1>3, <1>6 DEF Before, Entries
<1>11. ASSUME NEW e \in trail', NEW f \in trail',
              e.student = f.student, e.revision = f.revision
       PROVE  e = f
  <2>1. CASE e \in trail /\ f \in trail
    BY <1>11, <2>1 DEF TrailRetraces
  <2>2. CASE e \in New /\ f \in New
    BY <1>4, <1>11, <2>2
  <2>3. CASE ~(e \in trail /\ f \in trail) /\ ~(e \in New /\ f \in New)
    BY <1>1, <1>2, <1>3, <1>6, <1>11, <2>3
  <2> QED
    BY <2>1, <2>2, <2>3
<1>12. ASSUME NEW e \in trail', Before(e)' = {}
       PROVE  e.from = Unmarked
  <2>1. CASE e \in trail
    BY <1>9, <1>12, <2>1 DEF TrailRetraces
  <2>2. CASE e \in New
    <3>1. Entries(e.student) = {} /\ e.student \in Student
      BY <1>3, <1>10, <1>12, <2>2
    <3> QED
      BY <1>3, <2>2, <3>1 DEF TrailRetraces
  <2> QED
    BY <1>6, <2>1, <2>2
<1>13. ASSUME NEW e \in trail', NEW f \in trail', Precedes(f, e)'
       PROVE  e.from = f.to
  <2>1. CASE e \in trail
    <3>1. f \in Before(e) /\ f \in trail /\ Precedes(f, e)
      BY <1>9, <1>13, <2>1 DEF Precedes, Before, Entries
    <3> QED
      BY <2>1, <3>1 DEF TrailRetraces
  <2>2. CASE e \in New
    <3>1. e.student \in Student /\ e.from = mark[e.student]
      BY <1>3, <2>2
    <3>2. /\ f \in Entries(e.student)
          /\ \A g \in Entries(e.student) : g.revision <= f.revision
      BY <1>10, <1>13, <2>2 DEF Precedes
    <3>3. PICK g \in Entries(e.student) :
                /\ \A h \in Entries(e.student) : h.revision <= g.revision
                /\ g.to = mark[e.student]
      BY <3>1, <3>2 DEF TrailRetraces
    <3>4. f \in trail /\ g \in trail /\ f.student = g.student /\ f.revision = g.revision
      BY <1>2, <3>2, <3>3 DEF Entries
    <3> QED
      BY <3>1, <3>3, <3>4 DEF TrailRetraces
  <2> QED
    BY <1>6, <2>1, <2>2
<1>14. ASSUME NEW s \in Student
       PROVE  \/ Entries(s)' = {} /\ mark'[s] = Unmarked
              \/ \E e \in Entries(s)' :
                    /\ \A f \in Entries(s)' : f.revision <= e.revision
                    /\ e.to = mark'[s]
  <2>1. CASE s \in S
    <3>1. PICK e \in New : e.student = s
      BY <1>5, <2>1
    <3>2. e \in Entries(s)' /\ e.to = mark'[s] /\ e.revision = r
      BY <1>3, <1>6, <2>1, <3>1 DEF Entries
    <3>3. \A f \in Entries(s)' : f.revision <= r
      BY <1>1, <1>2, <1>3, <1>6 DEF Entries
    <3> QED
      BY <3>2, <3>3
  <2>2. CASE s \notin S
    <3>1. Entries(s)' = Entries(s) /\ mark'[s] = mark[s]
      BY <1>3, <1>6, <2>2 DEF Entries
    <3> QED
      BY <3>1 DEF TrailRetraces
  <2> QED
    BY <2>1, <2>2
<1>15. TrailRetraces'
  BY <1>11, <1>12, <1>13, <1>14 DEF TrailRetraces
<1> QED
  BY <1>7, <1>8, <1>15

(* Nothing happens to the rows. *)
LEMMA RowsUndisturbed ==
    ASSUME RowsInv, UNCHANGED rows
    PROVE  RowsInv' /\ (TypeOK => RevisionNamesMarks)
<1>1. RowsInv'
  BY DEF rows, RowsInv, RosterComplete, Accountable, TrailRetraces, TrailBounded,
         Precedes, Before, Entries
<1>2. TypeOK => RevisionNamesMarks
  BY MaxRevisionAssumption
     DEF rows, RevisionNamesMarks, TypeOK, RegisterType, Revision
<1> QED
  BY <1>1, <1>2

-----------------------------------------------------------------------------
(* The steps of the office                                                 *)

(* Lock, reopening and finalization move the register between submitted    *)
(* and locked and take the next revision.                                  *)
LEMMA FreezeStep ==
    ASSUME RegisterInv, NEW state \in {"submitted", "locked"},
           register.state \in {"submitted", "locked"},
           register.revision < MaxRevision,
           register' = [register EXCEPT !.state = state, !.revision = @ + 1, !.due = FALSE],
           UNCHANGED <<mark, trail, enrolled, strays, sessions>>
    PROVE  RegisterInv'
<1> USE DEF RegisterInv
<1>1. /\ register \in RegisterType /\ register.revision \in Nat
      /\ register.revision + 1 \in Revision
  BY MaxRevisionAssumption DEF TypeOK, RegisterType, Revision
<1>2. /\ register' \in RegisterType /\ register'.state = state
      /\ register'.revision = register.revision + 1 /\ register'.by = register.by
  BY <1>1 DEF RegisterType
<1>3. TypeOK'
  BY <1>2 DEF TypeOK, sessions
<1>4. RevisionNamesMarks
  BY <1>1, <1>2 DEF RevisionNamesMarks
<1>5. SessionsInv'
  BY <1>4, SessionsUndisturbed DEF sessions
<1>6. RosterComplete' /\ Accountable'
  BY <1>2 DEF RowsInv, RosterComplete, Accountable
<1>7. TrailRetraces'
  BY DEF RowsInv, TrailRetraces, Precedes, Before, Entries
<1>8. TrailBounded'
  <2>1. \A e \in trail : e.revision \in Nat /\ e.revision <= register.revision
    BY MaxRevisionAssumption DEF TypeOK, EntryType, Revision, RowsInv, TrailBounded
  <2> QED
    BY <1>1, <1>2, <2>1 DEF TrailBounded
<1> QED
  BY <1>3, <1>5, <1>6, <1>7, <1>8 DEF RowsInv

LEMMA EnrolStep ==
    ASSUME RegisterInv, NEW s \in Student, Enrol(s)
    PROVE  RegisterInv'
<1> USE DEF RegisterInv
<1>1. /\ register \in RegisterType /\ register.revision \in Nat
      /\ register.state = "submitted" => register.revision + 1 \in Revision
  BY MaxRevisionAssumption DEF TypeOK, RegisterType, Revision, Enrol
<1>2. /\ register' \in RegisterType
      /\ register.revision <= register'.revision
      /\ register'.state \notin {"submitted", "locked"}
  <2>1. CASE register.state = "submitted"
    <3>1. register' = [register EXCEPT !.state = "draft", !.by = NoUser,
                                       !.revision = register.revision + 1]
      BY <2>1 DEF Enrol
    <3>2. /\ register' = [state |-> "draft", revision |-> register.revision + 1,
                          by |-> NoUser, due |-> register.due]
          /\ register.due \in BOOLEAN
      BY <1>1, <3>1 DEF RegisterType
    <3>3. register' \in RegisterType /\ register'.state = "draft"
      BY <1>1, <2>1, <3>2 DEF RegisterType
    <3>4. register.revision <= register'.revision
      BY <1>1, <3>2
    <3> QED
      BY <3>3, <3>4
  <2>2. CASE register.state # "submitted"
    <3>1. register' = register /\ register.state # "locked"
      BY <2>2 DEF Enrol
    <3> QED
      BY <1>1, <2>2, <3>1
  <2> QED
    BY <2>1, <2>2
<1>3. TypeOK'
  BY <1>2 DEF TypeOK, sessions, Enrol
<1>4. RevisionNamesMarks
  <2>1. mark' = mark
    BY DEF Enrol
  <2> QED
    BY <1>2, <2>1 DEF RevisionNamesMarks, RegisterType
<1>5. SessionsInv'
  BY <1>4, SessionsUndisturbed DEF sessions, Enrol
<1>6. RosterComplete' /\ Accountable'
  BY <1>2 DEF RosterComplete, Accountable
<1>7. TrailRetraces'
  BY DEF RowsInv, TrailRetraces, Precedes, Before, Entries, Enrol
<1>8. TrailBounded'
  <2>1. \A e \in trail : e.revision \in Nat /\ e.revision <= register.revision
    BY MaxRevisionAssumption DEF TypeOK, EntryType, Revision, RowsInv, TrailBounded
  <2>2. register'.revision \in Nat /\ trail' = trail
    BY <1>2, MaxRevisionAssumption DEF RegisterType, Revision, Enrol
  <2> QED
    BY <1>1, <1>2, <2>1, <2>2 DEF TrailBounded
<1> QED
  BY <1>3, <1>5, <1>6, <1>7, <1>8 DEF RowsInv

LEMMA EnrolBySisStep ==
    ASSUME RegisterInv, NEW s \in Student, EnrolBySis(s)
    PROVE  RegisterInv'
<1> USE DEF RegisterInv
<1>1. TypeOK'
  BY DEF TypeOK, sessions, EnrolBySis
<1>2. RevisionNamesMarks
  BY MaxRevisionAssumption
     DEF RevisionNamesMarks, TypeOK, RegisterType, Revision, EnrolBySis
<1>3. SessionsInv'
  BY <1>2, SessionsUndisturbed DEF sessions, EnrolBySis
<1>4. RowsInv'
  BY DEF RowsInv, RosterComplete, Accountable, TrailRetraces, TrailBounded, Precedes,
         Before, Entries, EnrolBySis
<1> QED
  BY <1>1, <1>3, <1>4

LEMMA ApproveLeaveStep ==
    ASSUME RegisterInv, NEW s \in Student, ApproveLeave(s)
    PROVE  RegisterInv'
<1> USE DEF RegisterInv
<1>1. /\ register \in RegisterType /\ register.revision \in Nat
      /\ register.revision + 1 \in Revision
  BY MaxRevisionAssumption DEF TypeOK, RegisterType, Revision, ApproveLeave
<1>2. /\ register' \in RegisterType /\ register'.revision = register.revision + 1
      /\ register'.by = register.by
      /\ register'.state \in {"submitted", "locked"} => register'.state = register.state
  <2> DEFINE state == IF register.state = "none" THEN "draft" ELSE register.state
  <2>1. register' = [register EXCEPT !.state = state, !.revision = register.revision + 1]
    BY DEF ApproveLeave
  <2>2. state \in {"none", "draft", "submitted", "locked"}
        /\ (state \in {"submitted", "locked"} => state = register.state)
    BY <1>1 DEF RegisterType
  <2> HIDE DEF state
  <2> QED
    BY <1>1, <2>1, <2>2 DEF RegisterType
<1>2a. /\ mark' \in [Student -> Marks]
       /\ \A x \in Student : mark[x] # Unmarked => mark'[x] # Unmarked
  BY MarkAssumption, UnmarkedAssumption DEF ApproveLeave, TypeOK, Marks
<1>3. RevisionNamesMarks
  BY <1>1, <1>2 DEF RevisionNamesMarks
<1>4. SessionsInv'
  BY <1>3, SessionsUndisturbed DEF sessions, ApproveLeave
<1>5. RosterComplete' /\ Accountable'
  BY <1>2, <1>2a DEF RowsInv, RosterComplete, Accountable, ApproveLeave, TypeOK
<1>6. trail' \subseteq EntryType /\ TrailRetraces' /\ TrailBounded'
  <2> DEFINE to == [x \in {s} |-> Excused]
  <2>1. to \in [{s} -> Mark] /\ to[s] = Excused
    BY MarkAssumption
  <2> HIDE DEF to
  <2>2. trail' = trail \union NewEntries({s}, to)
    BY <2>1 DEF ApproveLeave, NewEntries
  <2>3. mark' = [x \in Student |-> IF x \in {s} THEN to[x] ELSE mark[x]]
    BY <2>1 DEF ApproveLeave, TypeOK
  <2> QED
    BY <1>1, <1>2, <2>1, <2>2, <2>3, TrailGrows DEF RowsInv
<1>7. TypeOK'
  BY <1>2, <1>2a, <1>6 DEF TypeOK, sessions, ApproveLeave
<1> QED
  BY <1>4, <1>5, <1>6, <1>7 DEF RowsInv

-----------------------------------------------------------------------------
(* The steps of a session other than the save                              *)

(* A step that leaves the rows alone has to account for its session only:  *)
(* the page p, the request c and the stored result r it ends with.         *)
LEMMA SessionStep ==
    ASSUME RegisterInv, UNCHANGED rows, NEW u \in User,
           NEW p \in PageType, NEW c \in CallType, NEW r \in ResultType,
           page' = [page EXCEPT ![u] = p],
           call' = [call EXCEPT ![u] = c],
           stored' = [stored EXCEPT ![u] = r],
           entitled' \subseteq User,
           UpToDate(p.marks, p.asOf), p.revision <= register.revision,
           UpToDate(r.marks, r.revision),
           c.stage # "idle" => c.expected = p.revision,
           c.stage = "checked" =>
                /\ c.expected <= c.seenAt
                /\ UpToDate(c.seen, c.seenAt)
                /\ DOMAIN c.records \subseteq DOMAIN c.seen
                /\ ~c.single => DOMAIN c.records = DOMAIN c.seen
    PROVE  RegisterInv'
<1> USE DEF RegisterInv
<1>1. TypeOK'
  BY DEF TypeOK, rows
<1>2. RowsInv'
  BY RowsUndisturbed
<1>3. \A v \in User : /\ page'[v] = IF v = u THEN p ELSE page[v]
                      /\ call'[v] = IF v = u THEN c ELSE call[v]
                      /\ stored'[v] = IF v = u THEN r ELSE stored[v]
  BY DEF TypeOK
<1>4. register' = register /\ mark' = mark
  BY DEF rows
<1>5. ASSUME NEW sheet, NEW x, UpToDate(sheet, x) PROVE UpToDate(sheet, x)'
  BY <1>4, <1>5 DEF UpToDate
<1>6. ASSUME NEW v \in User
      PROVE  /\ UpToDate(page[v].marks, page[v].asOf)'
             /\ page'[v].revision <= register'.revision
             /\ UpToDate(stored[v].marks, stored[v].revision)'
  <2>1. CASE v = u
    BY <1>3, <1>4, <2>1 DEF UpToDate
  <2>2. CASE v # u
    BY <1>3, <1>4, <2>2 DEF UpToDate, SessionsInv, PagesKnown, ResultsKnown
  <2> QED
    BY <2>1, <2>2
<1>7. CallsKnown'
  <2> SUFFICES ASSUME NEW v \in User
               PROVE  /\ call'[v].stage # "idle" => call'[v].expected = page'[v].revision
                      /\ call'[v].stage = "checked" =>
                            /\ call'[v].expected <= call'[v].seenAt
                            /\ UpToDate(call[v].seen, call[v].seenAt)'
                            /\ DOMAIN call'[v].records \subseteq DOMAIN call'[v].seen
                            /\ ~call'[v].single => DOMAIN call'[v].records = DOMAIN call'[v].seen
    BY DEF CallsKnown
  <2>1. CASE v = u
    BY <1>3, <1>4, <2>1 DEF UpToDate
  <2>2. CASE v # u
    BY <1>3, <1>4, <2>2 DEF UpToDate, SessionsInv, CallsKnown
  <2> QED
    BY <2>1, <2>2
<1> QED
  BY <1>1, <1>2, <1>6, <1>7 DEF SessionsInv, PagesKnown, ResultsKnown

(* What the invariant says of one session. *)
LEMMA OneSession ==
    ASSUME RegisterInv, NEW u \in User
    PROVE  /\ page[u] \in PageType /\ call[u] \in CallType /\ stored[u] \in ResultType
           /\ register \in RegisterType /\ register.revision \in Nat
           /\ UpToDate(page[u].marks, page[u].asOf)
           /\ page[u].revision <= register.revision
           /\ UpToDate(stored[u].marks, stored[u].revision)
           /\ page = [page EXCEPT ![u] = page[u]]
           /\ call = [call EXCEPT ![u] = call[u]]
           /\ stored = [stored EXCEPT ![u] = stored[u]]
           /\ entitled \subseteq User
  BY MaxRevisionAssumption
     DEF RegisterInv, TypeOK, RegisterType, Revision, SessionsInv, PagesKnown, ResultsKnown

(* Nothing on the screen and nothing under way is always up to date. *)
LEMMA BlankSession ==
    ASSUME RegisterInv
    PROVE  /\ BlankPage \in PageType /\ IdleCall \in CallType /\ NoResult \in ResultType
           /\ UpToDate(BlankPage.marks, BlankPage.asOf)
           /\ BlankPage.revision <= register.revision
           /\ UpToDate(NoResult.marks, NoResult.revision)
           /\ IdleCall.stage = "idle"
<1>1. NoMarks \in Sheet(Marks) /\ NoMarks \in Sheet(Mark) /\ DOMAIN NoMarks = {}
  BY SheetsRead DEF RegisterInv
<1>2. 0 \in Revision /\ 0 <= register.revision
  BY MaxRevisionAssumption DEF RegisterInv, TypeOK, RegisterType, Revision
<1> QED
  BY <1>1, <1>2 DEF BlankPage, IdleCall, NoResult, PageType, CallType, ResultType, UpToDate

LEMMA OpenScreenStep ==
    ASSUME RegisterInv, NEW u \in User, OpenScreen(u)
    PROVE  RegisterInv'
<1>1. /\ page' = [page EXCEPT ![u] = BlankPage]
      /\ call' = [call EXCEPT ![u] = IdleCall]
      /\ stored' = [stored EXCEPT ![u] = NoResult]
      /\ UNCHANGED rows /\ entitled' \subseteq User
  BY OneSession DEF OpenScreen
<1> QED
  BY <1>1, SessionStep, BlankSession

(* A step that changes the page of an idle session only. *)
LEMMA PageStep ==
    ASSUME RegisterInv, UNCHANGED <<rows, entitled, call, stored>>, NEW u \in User,
           NEW p \in PageType, page' = [page EXCEPT ![u] = p], call[u].stage = "idle",
           UpToDate(p.marks, p.asOf), p.revision <= register.revision
    PROVE  RegisterInv'
<1> DEFINE c == call[u]
           r == stored[u]
<1>1. /\ call' = [call EXCEPT ![u] = c] /\ stored' = [stored EXCEPT ![u] = r]
      /\ UNCHANGED rows /\ entitled' \subseteq User
      /\ c \in CallType /\ r \in ResultType /\ c.stage = "idle"
      /\ UpToDate(r.marks, r.revision)
  BY OneSession
<1> HIDE DEF c, r
<1> QED
  BY <1>1, SessionStep

(* A step that changes the request of a session only. *)
LEMMA CallStep ==
    ASSUME RegisterInv, UNCHANGED <<rows, entitled, page, stored>>, NEW u \in User,
           NEW c \in CallType, call' = [call EXCEPT ![u] = c],
           c.stage # "idle" => c.expected = page[u].revision,
           c.stage = "checked" =>
                /\ c.expected <= c.seenAt
                /\ UpToDate(c.seen, c.seenAt)
                /\ DOMAIN c.records \subseteq DOMAIN c.seen
                /\ ~c.single => DOMAIN c.records = DOMAIN c.seen
    PROVE  RegisterInv'
<1> DEFINE p == page[u]
           r == stored[u]
<1>1. /\ page' = [page EXCEPT ![u] = p] /\ stored' = [stored EXCEPT ![u] = r]
      /\ UNCHANGED rows /\ entitled' \subseteq User
      /\ p \in PageType /\ r \in ResultType
      /\ UpToDate(p.marks, p.asOf) /\ p.revision <= register.revision
      /\ UpToDate(r.marks, r.revision)
      /\ c.stage # "idle" => c.expected = p.revision
  BY OneSession
<1> HIDE DEF p, r
<1> QED
  BY <1>1, SessionStep

LEMMA ReadRosterStep ==
    ASSUME RegisterInv, NEW u \in User, ReadRoster(u)
    PROVE  RegisterInv'
<1> DEFINE p == [page[u] EXCEPT !.read = @ \union {"roster"}, !.marks = CurrentSheet,
                                !.asOf = register.revision]
<1>1. p \in PageType /\ p.marks = CurrentSheet /\ p.asOf = register.revision
      /\ p.revision = page[u].revision
  BY OneSession, SheetsRead DEF PageType, RegisterType, RegisterInv
<1>2. page' = [page EXCEPT ![u] = p]
  BY DEF ReadRoster
<1>3. UpToDate(p.marks, p.asOf)
  BY <1>1, OneSession, SheetsRead DEF UpToDate, RegisterInv
<1>4. p.revision <= register.revision
  BY <1>1, OneSession
<1>5. call[u].stage = "idle" /\ UNCHANGED <<rows, entitled, call, stored>>
  BY DEF ReadRoster
<1> HIDE DEF p
<1> QED
  BY <1>1, <1>2, <1>3, <1>4, <1>5, PageStep

LEMMA ReadRegisterStep ==
    ASSUME RegisterInv, NEW u \in User, ReadRegister(u)
    PROVE  RegisterInv'
<1> DEFINE p == [page[u] EXCEPT !.read = @ \union {"register"},
                                !.revision = register.revision]
<1>1. p \in PageType /\ p.marks = page[u].marks /\ p.asOf = page[u].asOf
      /\ p.revision = register.revision
  BY OneSession DEF PageType, RegisterType
<1>2. page' = [page EXCEPT ![u] = p]
  BY DEF ReadRegister
<1>3. UpToDate(p.marks, p.asOf) /\ p.revision <= register.revision
  BY <1>1, OneSession
<1>4. call[u].stage = "idle" /\ UNCHANGED <<rows, entitled, call, stored>>
  BY DEF ReadRegister
<1> HIDE DEF p
<1> QED
  BY <1>1, <1>2, <1>3, <1>4, PageStep

LEMMA SubmitStep ==
    ASSUME RegisterInv, NEW u \in User, NEW records \in Sheet(Mark),
           NEW single \in BOOLEAN, NEW reason \in BOOLEAN,
           Submit(u, records, single, reason)
    PROVE  RegisterInv'
<1> DEFINE c == [stage |-> "sent", records |-> records, single |-> single,
                 reason |-> reason, expected |-> page[u].revision,
                 seen |-> NoMarks, seenAt |-> 0]
           p == page[u]
<1>1. NoMarks \in Sheet(Marks) /\ 0 \in Revision
  BY SheetsRead, MaxRevisionAssumption DEF RegisterInv, Revision
<1>2. c \in CallType /\ c.stage = "sent" /\ c.expected = p.revision
  BY <1>1, OneSession DEF CallType, PageType
<1>3. /\ call' = [call EXCEPT ![u] = c] /\ stored' = [stored EXCEPT ![u] = NoResult]
      /\ page' = page /\ UNCHANGED rows /\ entitled' = entitled
  BY DEF Submit
<1>4. /\ page' = [page EXCEPT ![u] = p] /\ entitled' \subseteq User /\ p \in PageType
      /\ UpToDate(p.marks, p.asOf) /\ p.revision <= register.revision
  BY <1>3, OneSession
<1>5. NoResult \in ResultType /\ UpToDate(NoResult.marks, NoResult.revision)
  BY BlankSession
<1> HIDE DEF c, p
<1> QED
  BY <1>2, <1>3, <1>4, <1>5, SessionStep

(* A request that ends or starts over keeps its records and its revision. *)
LEMMA EndedStep ==
    ASSUME RegisterInv, NEW u \in User, NEW stage \in {"sent", "saved", "refused"},
           call[u].stage # "idle", call' = Ended(u, stage),
           UNCHANGED <<rows, entitled, page, stored>>
    PROVE  RegisterInv'
<1> DEFINE c == [call[u] EXCEPT !.stage = stage, !.seen = NoMarks, !.seenAt = 0]
<1>1. NoMarks \in Sheet(Marks) /\ 0 \in Revision
  BY SheetsRead, MaxRevisionAssumption DEF RegisterInv, Revision
<1>2. c \in CallType /\ c.stage = stage /\ c.expected = call[u].expected
  BY <1>1, OneSession DEF CallType
<1>3. call' = [call EXCEPT ![u] = c]
  BY OneSession DEF Ended, CallType
<1>4. call[u].expected = page[u].revision
  BY DEF RegisterInv, SessionsInv, CallsKnown
<1> HIDE DEF c
<1> QED
  BY <1>2, <1>3, <1>4, CallStep

LEMMA PreflightStep ==
    ASSUME RegisterInv, NEW u \in User, Preflight(u)
    PROVE  RegisterInv'
<1> DEFINE c == [call[u] EXCEPT !.stage = "checked", !.seen = CurrentSheet,
                                !.seenAt = register.revision]
<1>1. /\ c \in CallType /\ c.stage = "checked" /\ c.expected = call[u].expected
      /\ c.seen = CurrentSheet /\ c.seenAt = register.revision
      /\ c.records = call[u].records /\ c.single = call[u].single
  BY OneSession, SheetsRead DEF CallType, RegisterType, RegisterInv
<1>2. call' = [call EXCEPT ![u] = c] /\ UNCHANGED <<rows, entitled, page, stored>>
  BY DEF Preflight
<1>3. call[u].expected = page[u].revision /\ page[u].revision <= register.revision
  BY OneSession DEF Preflight, RegisterInv, SessionsInv, CallsKnown
<1>4. UpToDate(c.seen, c.seenAt)
  BY <1>1, SheetsRead, OneSession DEF UpToDate, RegisterInv
<1>5. /\ DOMAIN c.records \subseteq DOMAIN c.seen
      /\ ~c.single => DOMAIN c.records = DOMAIN c.seen
  BY <1>1, SheetsRead DEF RegisterInv, Preflight, FitsRoster
<1> HIDE DEF c
<1> QED
  BY <1>1, <1>2, <1>3, <1>4, <1>5, CallStep

LEMMA PreflightRefusesStep ==
    ASSUME RegisterInv, NEW u \in User, PreflightRefuses(u)
    PROVE  RegisterInv'
<1> DEFINE c == [call[u] EXCEPT !.stage = "refused"]
<1>1. c \in CallType /\ c.stage = "refused" /\ c.expected = call[u].expected
  BY OneSession DEF CallType
<1>2. call' = [call EXCEPT ![u] = c] /\ UNCHANGED <<rows, entitled, page, stored>>
  BY DEF PreflightRefuses
<1>3. call[u].expected = page[u].revision
  BY DEF PreflightRefuses, RegisterInv, SessionsInv, CallsKnown
<1> HIDE DEF c
<1> QED
  BY <1>1, <1>2, <1>3, CallStep

LEMMA ReceiveAnswerStep ==
    ASSUME RegisterInv, NEW u \in User, ReceiveAnswer(u)
    PROVE  RegisterInv'
<1> DEFINE p == [read |-> {"roster", "register"}, marks |-> stored[u].marks,
                 asOf |-> stored[u].revision, revision |-> stored[u].revision]
<1>1. p \in PageType /\ UpToDate(p.marks, p.asOf) /\ p.revision <= register.revision
  BY OneSession DEF PageType, ResultType, UpToDate
<1>2. /\ page' = [page EXCEPT ![u] = p]
      /\ call' = [call EXCEPT ![u] = IdleCall]
      /\ stored' = [stored EXCEPT ![u] = NoResult]
      /\ UNCHANGED rows /\ entitled' \subseteq User
  BY OneSession DEF ReceiveAnswer
<1> HIDE DEF p
<1> QED
  BY <1>1, <1>2, BlankSession, SessionStep

LEMMA RevokeStep ==
    ASSUME RegisterInv, NEW u \in User, Revoke(u)
    PROVE  RegisterInv'
<1>1. TypeOK'
  BY DEF RegisterInv, TypeOK, Revoke, rows
<1>2. RowsInv' /\ RevisionNamesMarks
  BY RowsUndisturbed DEF RegisterInv, Revoke
<1>3. SessionsInv'
  BY <1>2, SessionsUndisturbed DEF RegisterInv, Revoke
<1> QED
  BY <1>1, <1>2, <1>3 DEF RegisterInv

-----------------------------------------------------------------------------
(* The save                                                                *)

(* The register a save leaves. *)
LEMMA RegisterSaved ==
    ASSUME RegisterInv, NEW u \in User, NEW automatic \in BOOLEAN, Save(u, automatic)
    PROVE  /\ register' \in RegisterType
           /\ register'.revision = NextRevision(u) /\ NextRevision(u) \in Revision
           /\ \/ AdvancesRevision(u) /\ NextRevision(u) = register.revision + 1
              \/ ~AdvancesRevision(u) /\ NextRevision(u) = register.revision
           /\ register'.state # "locked"
           /\ call[u].single =>
                register'.by = register.by /\
                (register'.state = "submitted" => register.state = "submitted")
           /\ ~call[u].single => register'.by = u
<1>1. register \in RegisterType /\ register.revision \in Nat /\ register.state # "locked"
  BY OneSession DEF Save, Admissible
<1>2. /\ \/ AdvancesRevision(u) /\ NextRevision(u) = register.revision + 1
         \/ ~AdvancesRevision(u) /\ NextRevision(u) = register.revision
      /\ NextRevision(u) <= MaxRevision
  BY <1>1 DEF NextRevision, Save
<1>3. NextRevision(u) \in Revision
  BY <1>1, <1>2, MaxRevisionAssumption DEF Revision
<1>4. CASE call[u].single
  <2> DEFINE state == IF register.state = "none" THEN "draft" ELSE register.state
  <2>1. register' = [register EXCEPT !.state = state, !.revision = NextRevision(u)]
    BY <1>4 DEF Save, RegisterAfter
  <2>2. /\ state \in {"none", "draft", "submitted", "locked"} /\ state # "locked"
        /\ state = "submitted" => register.state = "submitted"
    BY <1>1 DEF RegisterType
  <2> HIDE DEF state
  <2> QED
    BY <1>1, <1>2, <1>3, <1>4, <2>1, <2>2 DEF RegisterType
<1>5. CASE ~call[u].single
  <2>1. register' = [state |-> "submitted", revision |-> NextRevision(u),
                     by |-> u, due |-> automatic]
    BY <1>5 DEF Save, RegisterAfter
  <2> QED
    BY <1>2, <1>3, <1>5, <2>1 DEF RegisterType
<1> QED
  BY <1>4, <1>5

(* The marks a save leaves, and that they are the old ones unless it takes *)
(* the next revision.                                                      *)
LEMMA MarksSaved ==
    ASSUME RegisterInv, NEW u \in User, NEW automatic \in BOOLEAN, Save(u, automatic)
    PROVE  /\ mark' \in [Student -> Marks]
           /\ \A s \in DOMAIN call[u].records : mark'[s] = call[u].records[s]
           /\ \A s \in Student \ DOMAIN call[u].records : mark'[s] = mark[s]
           /\ \A s \in Student : mark[s] # Unmarked => mark'[s] # Unmarked
           /\ RevisionNamesMarks
<1>1. /\ DOMAIN call[u].records \subseteq Student
      /\ \A s \in DOMAIN call[u].records : call[u].records[s] \in Mark
      /\ mark \in [Student -> Marks]
  BY RecordsAreMarks DEF RegisterInv, TypeOK
<1>2. mark' = [s \in Student |->
                  IF s \in DOMAIN call[u].records THEN call[u].records[s] ELSE mark[s]]
  BY DEF Save
<1>3. mark' \in [Student -> Marks]
  BY <1>1, <1>2 DEF Marks
<1>4. /\ \A s \in DOMAIN call[u].records : mark'[s] = call[u].records[s]
      /\ \A s \in Student \ DOMAIN call[u].records : mark'[s] = mark[s]
  BY <1>1, <1>2
<1>5. \A s \in Student : mark[s] # Unmarked => mark'[s] # Unmarked
  BY <1>1, <1>4, UnmarkedAssumption
<1>6. ~AdvancesRevision(u) => mark' = mark
  BY <1>1, <1>2 DEF AdvancesRevision, Changed
<1>7. RevisionNamesMarks
  BY <1>6, RegisterSaved, OneSession, MaxRevisionAssumption DEF RevisionNamesMarks
<1> QED
  BY <1>3, <1>4, <1>5, <1>7

LEMMA SaveStep ==
    ASSUME RegisterInv, NEW u \in User, NEW automatic \in BOOLEAN, Save(u, automatic)
    PROVE  RegisterInv'
<1>1. /\ register \in RegisterType /\ register.revision \in Nat
      /\ call[u] \in CallType /\ stored[u] \in ResultType
  BY OneSession
<1>2. /\ DOMAIN call[u].records \subseteq Student
      /\ \A s \in DOMAIN call[u].records : call[u].records[s] \in Mark
      /\ DOMAIN call[u].seen \subseteq Student
      /\ \A s \in DOMAIN call[u].seen : call[u].seen[s] \in Marks
  BY RecordsAreMarks DEF RegisterInv
<1>3. (* The preflight saw the roster and the marks in force. *)
      /\ DOMAIN call[u].seen = enrolled
      /\ \A s \in DOMAIN call[u].seen : call[u].seen[s] = mark[s]
      /\ ~call[u].single => DOMAIN call[u].records = enrolled
  <2>1. /\ call[u].stage = "checked" /\ register.revision = call[u].expected
        /\ DOMAIN call[u].seen = enrolled
    BY DEF Save, Admissible
  <2>2. /\ call[u].expected <= call[u].seenAt
        /\ UpToDate(call[u].seen, call[u].seenAt)
        /\ ~call[u].single => DOMAIN call[u].records = DOMAIN call[u].seen
    BY <2>1 DEF RegisterInv, SessionsInv, CallsKnown
  <2>3. call[u].seenAt \in Nat
    BY <1>1, MaxRevisionAssumption DEF CallType, Revision
  <2>4. call[u].seenAt = register.revision
    BY <1>1, <2>1, <2>2, <2>3 DEF UpToDate
  <2> QED
    BY <2>1, <2>2, <2>4 DEF UpToDate
<1>4. (* The result is a sheet of the marks the save leaves. *)
      /\ ResultMarks(u) \in Sheet(Marks)
      /\ DOMAIN ResultMarks(u) = DOMAIN call[u].seen
      /\ \A s \in DOMAIN ResultMarks(u) : ResultMarks(u)[s] = mark'[s]
  <2>1. ResultMarks(u) \in [DOMAIN call[u].seen -> Marks]
    BY <1>2 DEF ResultMarks, Marks
  <2>2. \A s \in DOMAIN call[u].seen : ResultMarks(u)[s] = mark'[s]
    BY <1>2, <1>3, MarksSaved DEF ResultMarks
  <2> QED
    BY <1>2, <2>1, <2>2 DEF Sheet
<1>5. RosterComplete' /\ Accountable'
  <2>1. CASE call[u].single
    <3>1. strays' = strays /\ enrolled' = enrolled /\ enrolled \subseteq Student
      BY <2>1 DEF Save, RegisterInv, TypeOK
    <3>2. register'.by = register.by /\ register'.state # "locked"
          /\ (register'.state = "submitted" => register.state = "submitted")
      BY <2>1, RegisterSaved
    <3> QED
      BY <3>1, <3>2, MarksSaved
         DEF RegisterInv, RowsInv, RosterComplete, Accountable
  <2>2. CASE ~call[u].single
    <3>1. enrolled' = enrolled /\ DOMAIN call[u].records = enrolled
      BY <1>3, <2>2 DEF Save
    <3>2. \A s \in enrolled : mark'[s] # Unmarked
      BY <1>2, <3>1, MarksSaved, UnmarkedAssumption
    <3>3. register'.by = u
      BY <2>2, RegisterSaved
    <3> QED
      BY <3>1, <3>2, <3>3, NoUserAssumption DEF RosterComplete, Accountable
  <2> QED
    BY <2>1, <2>2
<1>6. trail' \subseteq EntryType /\ TrailRetraces' /\ TrailBounded'
  <2>1. CASE AdvancesRevision(u)
    <3> DEFINE to == [s \in Changed(u) |-> call[u].records[s]]
    <3>1. Changed(u) \in SUBSET Student /\ to \in [Changed(u) -> Mark]
      BY <1>2 DEF Changed
    <3>2. NextRevision(u) = register.revision + 1 /\ register'.revision = register.revision + 1
          /\ register.revision + 1 \in Revision
      BY <2>1, RegisterSaved
    <3>3. trail' = trail \union NewEntries(Changed(u), to)
      BY <3>2 DEF Save, NewEntries
    <3>4. mark' = [s \in Student |-> IF s \in Changed(u) THEN to[s] ELSE mark[s]]
      <4>1. mark' = [s \in Student |->
                IF s \in DOMAIN call[u].records THEN call[u].records[s] ELSE mark[s]]
        BY DEF Save
      <4> QED
        BY <4>1 DEF Changed
    <3> HIDE DEF to
    <3> QED
      BY <3>1, <3>2, <3>3, <3>4, TrailGrows DEF RegisterInv, RowsInv
  <2>2. CASE ~AdvancesRevision(u)
    <3>1. trail' = trail
      BY <2>2 DEF Save, AdvancesRevision
    <3>2. register'.revision = register.revision /\ mark' = mark
      BY <1>1, <2>2, RegisterSaved, MarksSaved DEF RevisionNamesMarks
    <3> QED
      BY <3>1, <3>2 DEF RegisterInv, TypeOK, RowsInv, TrailRetraces, TrailBounded,
                        Precedes, Before, Entries
  <2> QED
    BY <2>1, <2>2
<1>7. (* What is left is the session: its request and its result. *)
      TypeOK' /\ SessionsInv'
  <2> DEFINE c == [call[u] EXCEPT !.stage = "saved", !.seen = NoMarks, !.seenAt = 0]
             r == [marks |-> ResultMarks(u), revision |-> NextRevision(u)]
  <2>1. NoMarks \in Sheet(Marks) /\ 0 \in Revision
    BY SheetsRead, MaxRevisionAssumption DEF RegisterInv, Revision
  <2>2. c \in CallType /\ c.stage = "saved" /\ c.expected = call[u].expected
    BY <1>1, <2>1 DEF CallType
  <2>3. r \in ResultType /\ r.marks = ResultMarks(u) /\ r.revision = NextRevision(u)
    BY <1>4, RegisterSaved DEF ResultType
  <2>4. call' = [call EXCEPT ![u] = c] /\ stored' = [stored EXCEPT ![u] = r] /\ page' = page
    BY <1>1 DEF Save, Ended, CallType
  <2> HIDE DEF c, r
  <2>5. \A v \in User : /\ call'[v] = IF v = u THEN c ELSE call[v]
                        /\ stored'[v] = IF v = u THEN r ELSE stored[v]
    BY <2>4 DEF RegisterInv, TypeOK
  <2>6. TypeOK'
    <3>1. call' \in [User -> CallType] /\ stored' \in [User -> ResultType]
      BY <2>2, <2>3, <2>4 DEF RegisterInv, TypeOK
    <3>2. /\ page' \in [User -> PageType] /\ enrolled' \subseteq Student
          /\ entitled' \subseteq User /\ strays' \subseteq Student
      BY DEF RegisterInv, TypeOK, Save
    <3> QED
      BY <1>6, <3>1, <3>2, RegisterSaved, MarksSaved DEF TypeOK
  <2>7. ASSUME NEW v \in User
        PROVE  /\ page[v].asOf \in Revision /\ page[v].revision \in Revision
               /\ call[v].seenAt \in Revision /\ stored[v].revision \in Revision
    BY DEF RegisterInv, TypeOK, PageType, CallType, ResultType
  <2>8. PagesKnown'
    <3> SUFFICES ASSUME NEW v \in User
                 PROVE  UpToDate(page[v].marks, page[v].asOf)' /\ page'[v].revision <= register'.revision
      BY DEF PagesKnown
    <3>1. UpToDate(page[v].marks, page[v].asOf)'
      BY <2>4, <2>7, KnowledgeLasts, MarksSaved DEF RegisterInv, SessionsInv, PagesKnown
    <3>2. page[v].revision \in Nat /\ register'.revision \in Nat
          /\ register.revision <= register'.revision /\ page[v].revision <= register.revision
      BY <2>7, MaxRevisionAssumption, MarksSaved, OneSession DEF Revision, RevisionNamesMarks
    <3> QED
      BY <1>1, <2>4, <3>1, <3>2
  <2>9. ResultsKnown'
    <3> SUFFICES ASSUME NEW v \in User PROVE UpToDate(stored[v].marks, stored[v].revision)'
      BY DEF ResultsKnown
    <3>1. CASE v = u
      <4>1. stored'[v].marks = ResultMarks(u) /\ stored'[v].revision = register'.revision
        BY <2>3, <2>5, <3>1, RegisterSaved
      <4>2. register'.revision \in Nat
        BY RegisterSaved, MaxRevisionAssumption DEF Revision
      <4> QED
        BY <1>4, <4>1, <4>2 DEF UpToDate
    <3>2. CASE v # u
      <4>1. stored'[v] = stored[v]
        BY <2>5, <3>2
      <4> QED
        BY <2>7, <4>1, KnowledgeLasts, MarksSaved DEF RegisterInv, SessionsInv, ResultsKnown
    <3> QED
      BY <3>1, <3>2
  <2>10. CallsKnown'
    <3> SUFFICES ASSUME NEW v \in User
                 PROVE  /\ call'[v].stage # "idle" => call'[v].expected = page'[v].revision
                        /\ call'[v].stage = "checked" =>
                            /\ call'[v].expected <= call'[v].seenAt
                            /\ UpToDate(call[v].seen, call[v].seenAt)'
                            /\ DOMAIN call'[v].records \subseteq DOMAIN call'[v].seen
                            /\ ~call'[v].single => DOMAIN call'[v].records = DOMAIN call'[v].seen
      BY DEF CallsKnown
    <3>1. CASE v = u
      BY <2>2, <2>4, <2>5, <3>1 DEF RegisterInv, SessionsInv, CallsKnown, Save
    <3>2. CASE v # u
      <4>1. call'[v] = call[v] /\ page'[v] = page[v]
        BY <2>4, <2>5, <3>2
      <4>2. call[v].stage = "checked" => UpToDate(call[v].seen, call[v].seenAt)'
        BY <2>7, <4>1, KnowledgeLasts, MarksSaved DEF RegisterInv, SessionsInv, CallsKnown
      <4> QED
        BY <4>1, <4>2 DEF RegisterInv, SessionsInv, CallsKnown
    <3> QED
      BY <3>1, <3>2
  <2> QED
    BY <2>6, <2>8, <2>9, <2>10 DEF SessionsInv
<1> QED
  BY <1>5, <1>6, <1>7 DEF RegisterInv, RowsInv
-----------------------------------------------------------------------------
(* Every step                                                              *)

LEMMA NextInv == RegisterInv /\ [Next]_vars => RegisterInv'
<1> SUFFICES ASSUME RegisterInv, [Next]_vars PROVE RegisterInv'
  OBVIOUS
<1>1. CASE \E u \in User : Session(u)
  <2>1. PICK u \in User : Session(u)
    BY <1>1
  <2>2. CASE \E records \in Sheet(Mark), single \in Single, reason \in Reason :
                Submit(u, records, single, reason)
    BY <2>2, ChoicesAssumption, SubmitStep
  <2>3. CASE Retry(u)
    BY <2>3, EndedStep DEF Retry
  <2>4. CASE \E automatic \in Automatic : Save(u, automatic)
    BY <2>4, ChoicesAssumption, SaveStep
  <2>5. CASE SaveAgain(u)
    BY <2>5, EndedStep DEF SaveAgain
  <2>6. CASE SaveRefuses(u)
    BY <2>6, EndedStep DEF SaveRefuses
  <2> QED
    BY <2>1, <2>2, <2>3, <2>4, <2>5, <2>6, OpenScreenStep, ReadRosterStep,
       ReadRegisterStep, PreflightStep, PreflightRefusesStep, ReceiveAnswerStep
       DEF Session
<1>2. CASE \E s \in Student : Enrol(s) \/ EnrolBySis(s) \/ ApproveLeave(s)
  BY <1>2, EnrolStep, EnrolBySisStep, ApproveLeaveStep
<1>3. CASE LockRegister
  BY <1>3, FreezeStep DEF LockRegister
<1>4. CASE ReopenRegister
  BY <1>4, FreezeStep DEF ReopenRegister
<1>5. CASE FinalizeDue
  BY <1>5, FreezeStep DEF FinalizeDue
<1>6. CASE \E u \in User : Revoke(u)
  BY <1>6, RevokeStep
<1>7. CASE UNCHANGED vars
  <2>1. UNCHANGED rows /\ UNCHANGED <<entitled, page, call, stored>>
    BY <1>7 DEF vars, rows
  <2>2. RowsInv' /\ RevisionNamesMarks
    BY <2>1, RowsUndisturbed DEF RegisterInv
  <2>3. SessionsInv'
    BY <2>1, <2>2, SessionsUndisturbed DEF RegisterInv
  <2>4. TypeOK'
    BY <2>1 DEF RegisterInv, TypeOK, rows
  <2> QED
    BY <2>2, <2>3, <2>4 DEF RegisterInv
<1> QED
  BY <1>1, <1>2, <1>3, <1>4, <1>5, <1>6, <1>7 DEF Next, Office

(* The inductive invariant holds in every reachable state.                 *)
THEOREM RegisterInvariant == Spec => []RegisterInv
  BY InitInv, NextInv, PTL DEF Spec

(* Every row, page and request keeps its type.                             *)
THEOREM TypeCorrect == Spec => []TypeOK
<1>1. RegisterInv => TypeOK
  BY DEF RegisterInv
<1> QED
  BY <1>1, RegisterInvariant, PTL

(* A submitted or locked register has a mark for every pupil it was        *)
(* submitted for: no enrollment slips in between the reading of the roster *)
(* and the save that submits it.                                           *)
THEOREM SubmittedIsComplete == Spec => []RosterComplete
<1>1. RegisterInv => RosterComplete
  BY DEF RegisterInv, RowsInv
<1> QED
  BY <1>1, RegisterInvariant, PTL

(* A submitted or locked register has a user who answers for it, so the    *)
(* finalization timer skips none.                                          *)
THEOREM SubmittedIsSigned == Spec => []Accountable
<1>1. RegisterInv => Accountable
  BY DEF RegisterInv, RowsInv
<1> QED
  BY <1>1, RegisterInvariant, PTL

(* The audit trail of every pupil is one unbroken chain that ends at the   *)
(* mark in force.                                                          *)
THEOREM TrailIsAChain == Spec => []TrailRetraces
<1>1. RegisterInv => TrailRetraces
  BY DEF RegisterInv, RowsInv
<1> QED
  BY <1>1, RegisterInvariant, PTL

-----------------------------------------------------------------------------
(* No lost update                                                          *)

(* Only the save makes a checked request a saved one. *)
LEMMA OnlySavesLand ==
    ASSUME TypeOK, [Next]_vars, NEW u \in User, Lands(u)
    PROVE  \E automatic \in BOOLEAN : Save(u, automatic)
<1>0. /\ call[u].stage = "checked" /\ ~Answered(u) /\ call'[u].stage = "saved"
      /\ call \in [User -> CallType]
  BY DEF Lands, TypeOK
<1>1. CASE \E v \in User : Session(v)
  <2>1. PICK v \in User : Session(v)
    BY <1>1
  <2>2. CASE v # u
    <3>1. call'[u] = call[u]
      BY <1>0, <2>1, <2>2
         DEF Session, OpenScreen, ReadRoster, ReadRegister, Submit, Retry, Preflight,
             PreflightRefuses, Save, SaveAgain, SaveRefuses, ReceiveAnswer, Ended
    <3> QED
      BY <1>0, <3>1
  <2>3. CASE v = u
    <3>1. ~(OpenScreen(u) \/ ReadRoster(u) \/ ReadRegister(u))
      BY <1>0 DEF OpenScreen, MayOpen, ReadRoster, ReadRegister
    <3>2. ~(Preflight(u) \/ PreflightRefuses(u) \/ ReceiveAnswer(u) \/ SaveAgain(u))
      BY <1>0 DEF Preflight, PreflightRefuses, ReceiveAnswer, SaveAgain
    <3>3. ~\E records \in Sheet(Mark), single \in Single, reason \in Reason :
                Submit(u, records, single, reason)
      BY <1>0 DEF Submit
    <3>4. ~(Retry(u) \/ SaveRefuses(u))
      <4>1. ASSUME NEW stage \in {"sent", "refused"}
            PROVE  call' # Ended(u, stage)
        <5>1. Ended(u, stage)[u].stage = stage
          BY <1>0 DEF Ended, CallType
        <5> QED
          BY <1>0, <5>1
      <4> QED
        BY <4>1 DEF Retry, SaveRefuses
    <3> QED
      BY <2>1, <2>3, <3>1, <3>2, <3>3, <3>4, ChoicesAssumption DEF Session
  <2> QED
    BY <2>2, <2>3
<1>2. CASE Office
  BY <1>0, <1>2
     DEF Office, Enrol, EnrolBySis, ApproveLeave, LockRegister, ReopenRegister,
         FinalizeDue, Revoke, sessions
<1>3. CASE UNCHANGED vars
  BY <1>0, <1>3 DEF vars
<1> QED
  BY <1>1, <1>2, <1>3 DEF Next

LEMMA LandingStep ==
    ASSUME RegisterInv, [Next]_vars, NEW u \in User, Lands(u), Whole(u)
    PROVE  KeepsOthersMarks(u)
<1>1. PICK automatic \in BOOLEAN : Save(u, automatic)
  BY OnlySavesLand DEF RegisterInv
<1>2. call[u].stage = "checked" /\ register.revision = call[u].expected
  BY <1>1 DEF Save, Admissible
<1>3. call[u].expected = page[u].revision /\ UpToDate(page[u].marks, page[u].asOf)
  BY <1>2 DEF RegisterInv, SessionsInv, PagesKnown, CallsKnown
<1>4. \A s \in DOMAIN page[u].marks : page[u].marks[s] = mark[s]
  BY <1>2, <1>3 DEF Whole, UpToDate
<1>5. \A s \in DOMAIN call[u].records : mark'[s] = call[u].records[s]
  BY <1>1, MarksSaved
<1> QED
  BY <1>4, <1>5 DEF KeepsOthersMarks

(* A save from a page whose halves agree overwrites no mark its user has   *)
(* not seen, whatever ran between the reading of the page and the save.    *)
THEOREM NothingIsLost == Spec => NoLostUpdate
<1>1. RegisterInv /\ [Next]_vars =>
        [\A u \in User : Lands(u) /\ Whole(u) => KeepsOthersMarks(u)]_vars
  BY LandingStep
<1> QED
  BY <1>1, RegisterInvariant, PTL DEF Spec, NoLostUpdate

-----------------------------------------------------------------------------
(* Refinement                                                              *)

(* What a step does to the rows a reader sees: nothing, or a step of the   *)
(* record.                                                                 *)
LEMMA RecordStep ==
    ASSUME RegisterInv, [Next]_vars
    PROVE  [Record!Next]_(Record!vars)
<1>0. register \in RegisterType /\ mark \in [Student -> Marks]
  BY DEF RegisterInv, TypeOK
<1>1. ASSUME UNCHANGED <<register, mark>> PROVE [Record!Next]_(Record!vars)
  BY <1>1 DEF Record!vars
<1>2. CASE \E u \in User : Session(u)
  <2>1. PICK u \in User : Session(u)
    BY <1>2
  <2>2. CASE \E automatic \in Automatic : Save(u, automatic)
    <3>1. PICK automatic \in BOOLEAN : Save(u, automatic)
      BY <2>2, ChoicesAssumption
    <3>2. /\ register.state # "locked" /\ register'.state # "locked"
          /\ mark' \in [Student -> Marks]
          /\ register'.revision = register.revision => mark' = mark
      BY <3>1, RegisterSaved, MarksSaved DEF Save, Admissible, RevisionNamesMarks
    <3>3. \/ register'.revision = register.revision + 1
          \/ register'.revision = register.revision
      BY <3>1, RegisterSaved
    <3> QED
      BY <3>2, <3>3 DEF Record!Next, Record!Write, Record!vars
  <2>3. CASE ~\E automatic \in Automatic : Save(u, automatic)
    <3>1. UNCHANGED <<register, mark>>
      BY <2>1, <2>3
         DEF Session, OpenScreen, ReadRoster, ReadRegister, Submit, Retry, Preflight,
             PreflightRefuses, SaveAgain, SaveRefuses, ReceiveAnswer, rows
    <3> QED
      BY <1>1, <3>1
  <2> QED
    BY <2>2, <2>3
<1>3. CASE \E s \in Student : Enrol(s)
  <2>1. PICK s \in Student : Enrol(s)
    BY <1>3
  <2>2. CASE register.state = "submitted"
    <3>1. /\ register' = [register EXCEPT !.state = "draft", !.by = NoUser,
                                          !.revision = register.revision + 1]
          /\ mark' = mark
      BY <2>1, <2>2 DEF Enrol
    <3>2. register'.state = "draft" /\ register'.revision = register.revision + 1
      BY <1>0, <3>1 DEF RegisterType
    <3> QED
      BY <1>0, <2>2, <3>1, <3>2 DEF Record!Next, Record!Write
  <2>3. CASE register.state # "submitted"
    BY <1>1, <2>1, <2>3 DEF Enrol
  <2> QED
    BY <2>2, <2>3
<1>4. CASE \E s \in Student : EnrolBySis(s)
  BY <1>1, <1>4 DEF EnrolBySis
<1>5. CASE \E s \in Student : ApproveLeave(s)
  <2>1. PICK s \in Student : ApproveLeave(s)
    BY <1>5
  <2>2. mark' \in [Student -> Marks]
    BY <1>0, <2>1, MarkAssumption DEF ApproveLeave, Marks
  <2> DEFINE state == IF register.state = "none" THEN "draft" ELSE register.state
  <2>3. register' = [register EXCEPT !.state = state, !.revision = register.revision + 1]
        /\ register.state # "locked"
    BY <2>1 DEF ApproveLeave
  <2>4. state # "locked"
    BY <2>3
  <2> HIDE DEF state
  <2>5. register'.state # "locked" /\ register'.revision = register.revision + 1
    BY <1>0, <2>3, <2>4 DEF RegisterType
  <2> QED
    BY <2>2, <2>3, <2>5 DEF Record!Next, Record!Write
<1>6. ASSUME NEW state,
             register' = [register EXCEPT !.state = state, !.revision = @ + 1, !.due = FALSE]
      PROVE  register'.state = state /\ register'.revision = register.revision + 1
  BY <1>0, <1>6 DEF RegisterType
<1>7. CASE LockRegister \/ FinalizeDue
  <2>1. /\ register.state = "submitted" /\ mark' = mark
        /\ register' = [register EXCEPT !.state = "locked", !.revision = @ + 1, !.due = FALSE]
    BY <1>7 DEF LockRegister, FinalizeDue
  <2>2. register'.state = "locked" /\ register'.revision = register.revision + 1
    BY <1>6, <2>1
  <2> QED
    BY <2>1, <2>2 DEF Record!Next, Record!Finalize
<1>8. CASE ReopenRegister
  <2>1. /\ register.state = "locked" /\ mark' = mark
        /\ register' = [register EXCEPT !.state = "submitted", !.revision = @ + 1, !.due = FALSE]
    BY <1>8 DEF ReopenRegister
  <2>2. register'.state = "submitted" /\ register'.revision = register.revision + 1
    BY <1>6, <2>1
  <2> QED
    BY <2>1, <2>2 DEF Record!Next, Record!Reopen
<1>9. CASE \E u \in User : Revoke(u)
  BY <1>1, <1>9 DEF Revoke, rows
<1>10. CASE UNCHANGED vars
  BY <1>1, <1>10 DEF vars
<1> QED
  BY <1>2, <1>3, <1>4, <1>5, <1>7, <1>8, <1>9, <1>10 DEF Next, Office

(* The register is a versioned record: one revision names one state of the *)
(* marks, and a locked register does not change.                           *)
THEOREM RegisterImplementsRecord == Spec => ImplementsVersionedRecord
<1>1. Init => Record!Init
  BY DEF Init, Record!Init, Marks
<1>2. RegisterInv /\ [Next]_vars => [Record!Next]_(Record!vars)
  BY RecordStep
<1> QED
  BY <1>1, <1>2, RegisterInvariant, PTL DEF Spec, ImplementsVersionedRecord, Record!Spec
=============================================================================
