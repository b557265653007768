# Eduvera in TLA+

A verification project for the Eduvera (OmniSchool) repository: TLA+ models of
its core protocols and workflows, TLC configurations that check them on small
instances, and TLAPS proofs that hold for every instance. Every definition of a
model is a translation of the code that `PROJECT.json` maps it to.

Run inside this directory, for instance:

    tlc -workers 2 -config MCEventOutbox_safety.cfg MCEventOutbox
    tlc -workers 2 -config MCWorkflows_all.cfg MCWorkflows
    tlapm EventOutboxProofs.tla
    tlapm WorkflowProofs.tla

## 1. The system and its components

Eduvera is a NestJS backend on PostgreSQL, a React front end and a Python
service for photo attendance. All durable state is in PostgreSQL; several API
instances may run. What an instance keeps in memory is the live-update
machinery of `SchoolEventService`; what a browser keeps is its event stream, the
pages it saves from, and a queue of attendance it could not send.

| Component | State | Operations | Hard behaviours | What makes it correct |
|---|---|---|---|---|
| Event outbox (`school-event.service.ts`, migrations 004 and 006) | rows of `event_outbox`, `event_delivery_cursor`, `event_maintenance_leases` | enqueue, claim, publish, record a failure, clean up | several workers, leases that lapse, rows that always fail, lost acknowledgements, lost processes, retention | sequences in commit order without a gap, no row published twice, nothing lost, a floor that covers what was deleted |
| Event delivery (`school-event.service.ts`) | LISTEN connection, `brokerReady`, `brokerWatermark`, drain promise, reconnect timer, `StreamClient`s | connect, drain, open a stream, replay, full sync, recover, dispatch | every await is an interleaving point; notifications are lost across reconnections; buffers overflow | no browser is moved past an event it was not told of; every event arrives; a lost broker comes back |
| Daily register (`school.service.ts:2153-3225`) | register, marks, trail, submissions | screen, save, lock, reopen, finalise, leave, enrolment | stale pages, finalisation racing a correction, roster changes, retries | no lost update, complete rosters, locked registers do not change |
| Attendance continuity (`school.service.ts:2728-3177`, `attendanceOfflineStore.ts`, `AttendanceContinuitySync.tsx`) | captures, cases, the device's queue | capture, upload, quarantine, decide | uploads repeated or interrupted between transactions, two deciders | an observation is never lost, and where it is said to be, it is |
| Session registers (`attendance-model.service.ts`) | register of a lesson, marks, evidence | save, finalise, reopen, check in with a code | a timer and check-ins that do not take the lock of a save | no mark of the staff is replaced by a check-in |
| Departure and gate (`departure-coordination.service.ts`, `gate.service.ts`) | plans, requests, receivers, trips, riders, handovers, passes | plan, change, board, hand over, leave | requests decided late, receivers revoked, trips closed | a pupil leaves once, with someone who may take the pupil then |
| Transport duties (same service) | journeys, collectors, swaps | assign, answer, swap, open, close | swaps decided after the journeys changed | nobody is due in two places; duties move by consent |
| Fees and Razorpay (`operations.service.ts`, `razorpay.service.ts`, `fee-review.service.ts`) | invoice, payments, orders, claims, credits, refunds | pay, claim, order, webhook, poll, credit, refund | repeated and late webhooks, balances read before a lock is granted | a payment counts once and fits; the ledger adds up |
| Campus events (`campus-events.service.ts`) | event, answers, bills, consent, register | publish, answer, consent, record, lock, complete, cancel | authority revoked under another lock, registers reopened | roster and bills follow the answers; the register stays true |
| Notices (`notices.service.ts`) | notice, recipients, deliveries | publish, open, answer, cancel | an answer from several devices; two lock orders | an answer is given once and in time |
| Staff operations (`staff-operations.service.ts`) | leave, balances, responsibilities, covers | ask, decide, offer, assign, answer, expire | checks made before a write, a timer that decides | leave was affordable; a decided cover stands |
| Timetable and day plans (`day-plan.service.ts`, `schedule.ts`, `schedule-planning.service.ts`) | slots, dated timetables, plans, closures | edit, draft, publish, answer, close | plans that a later edit contradicts, closures that hide both | nobody is due in two classes; answers are for this duty |
| Event bridge, event producers, photo attendance, chat, accounts, invitations, roles, governance, institutions, people, agent, assessments, insights, calendar, care, company | rows changed by single statements or short transactions, external services | CRUD | few, see section 6 | authorisation, mostly |

The components interact through PostgreSQL. A command (a register saved, a
leave approved, a notice published) inserts its events in its own transaction;
a worker of some instance numbers and publishes them and notifies every
instance; each instance drains the log and sends frames to its streams; the
browser's bridge turns a frame into refetches. Captures and approved leave end
in the daily register; a campus event's bills and credits are invoices.

## 2. Modules

| Module | Models | Role |
|---|---|---|
| `DeliveryLog` | `event_delivery_cursor` and the published rows, as their readers see them | abstract: an append-only log with a floor |
| `EventOutbox` | claim, publish, failure and cleanup statements, leases and workers | implements `DeliveryLog` |
| `EventStream` | LISTEN connection, drain and streams of one instance, its browsers | reads `DeliveryLog`, which it extends |
| `VersionedRecord` | what a register promises whoever reads it with a revision | abstract: versions name contents, a frozen record does not change |
| `AttendanceRegister` | the daily register of one class and date, its writers and the pages they save from | implements `VersionedRecord` |
| `ObservationRecord` | what the school promises of an observation a teacher took | abstract: held until recorded, then with a status for ever |
| `AttendanceCapture` | device, queue, uploads and reconciliation of one class and date | implements `ObservationRecord` |
| `LearnerCustody` | what the school promises a family about one way home | abstract: once, one way, to a trusted receiver |
| `Departure` | one pupil's plans, requests, trips, handovers, passes and gate on one date | implements `LearnerCustody` |
| `TransportDuty` | journeys, collectors and duty swaps | |
| `FeeLedger` | one invoice | |
| `CampusEvent` | one event with one session | |
| `SchoolNotice` | one notice and its recipients | |
| `StaffCover` | leave, responsibilities and covers of one hour | |
| `SchoolTimetable` | one hour of one date | |
| `SessionRegister` | the register of one lesson | |
| `SchoolWorkflows` | the eight modules above side by side | composition |
| `EventOutboxProofs`, `EventStreamProofs`, `AttendanceRegisterProofs`, `AttendanceCaptureProofs`, `TransportProofs`, `EventFeeProofs`, `SchoolDayProofs`, `WorkflowProofs` | | inductive invariants and theorems |
| `MCEventOutbox`, `MCEventStream`, `MCAttendanceRegister`, `MCAttendanceCapture`, `MCWorkflows`, `MCClassDay` | | model values and symmetry for TLC; `MCClassDay` puts a register beside a timetable |

How they compose:

- `EventOutbox` and `EventStream` meet in `DeliveryLog`: the outbox implements
  it, and every step of the streams is, of the log, one of its steps.
- The workflows insert events in their own transactions. Each insert is an
  `Enqueue` of `EventOutbox`, which lets any row appear at any time, so the
  workflows leave events out.
- `AttendanceCapture` sees the register as its revision: a save takes the next
  one if it expects the present one. `AttendanceRegister` has the rest.
- `CampusEvent` and `FeeLedger` meet at the invoice. The event says what is owed
  and credited, the ledger what is paid on it and returned.
- `SchoolWorkflows` interleaves the other workflows (`SchoolSpec`). They share
  no state, so that each can be checked alone: in `WorkflowSpec` one of them
  (`part`) goes on while the rest wait where they begin. `WorkflowProofs` carries
  what is proved of each to the whole school.

### EventOutbox

One action is one SQL statement or one lock wait of one. `row[e]` is the row of
event `e` (`state` absent, pending, published, dead or deleted; its claimant,
lease, backoff, attempts and sequence); `worker[i]` is `publishPending` of
instance `i`: the batch it claimed, whether it is at the batch or at one row of
it, and the statement it is in. `publishClaimedEvents` is one statement in the
code and three actions here, because it waits on locks between them:
`LockCandidates` (rows, `FOR UPDATE SKIP LOCKED`), `ReserveRange` (the
cursor's row), `CommitPublication` (or `CommitUnacknowledged`: it committed,
but the worker sees an error; or `FailPublication`). What `pg_notify` and the
`notifications` insert do belongs to the commit. Clocks are three actions that
say that a lease, a backoff or a retention period has passed, in any order.
`Poison` events always fail to publish. The sequence of a row is a number
because readers compare it.

### EventStream

One action is what Node runs between two awaits. A pool query is three
actions: it is sent with its arguments, PostgreSQL answers from the log as it
is then, and the code resumes with an answer that may be stale. It may also
fail. `conn` holds the `connectBroker` calls and their sockets (several may be
alive), `tasks[c]` the `openStream` and recovery calls in flight for browser
`c`, `drain` the drain promise, `stream[c]` the `StreamClient`, `browser[c]`
the EventSource and the set of places it was told of. `sync.required` tells a
browser of everything up to its id, since the browser then refetches.
Notifications of one connection are coalesced, as `queueBrokerDrain` does.
`crossed` is a history variable: the browsers for which two calls were in
flight at once (finding 1), so that the other properties can say precisely
what holds.

### AttendanceRegister

`register` is the row of `attendance_registers` (`state` none, draft, submitted
or locked; `revision`; `by` is `submitted_by`, `due` says that
`auto_finalize_at` is set), `mark` the `attendance_records` of the pupils,
`trail` the `attendance_record_revisions`, `enrolled` the roster. A mark stands
for a status with its remarks. Per browser session, `page` is the screen it
edits, `call` the save it has under way and `stored` the
`attendance_submissions` row under the key of that save.

A transaction is one action, since the transactions are serialised by the
advisory lock on class and date and by `FOR UPDATE` on the class section and
the register. What is not serialised is split:

- the screen is two queries in `Promise.all` (`ReadRoster`, `ReadRegister`), in
  either order, with anything in between. `page.asOf` records the revision at
  which the marks were read, which the response does not contain;
- a request first reads the screen again and checks its records against it
  (`Preflight`), and only then takes the locks (`Save`, `SaveAgain`,
  `SaveRefuses`). What the preflight saw is kept in `call.seen`, because the
  answer is built from it;
- the answer may not arrive: a committed save (`stage = "saved"`) may be
  received (`ReceiveAnswer`), sent again under its key (`Retry`) or forgotten
  (`OpenScreen`).

`Submit` sends any marks for the pupils of the page: all of them, or one from
the student view (`single`). `Enrol` is an admission or an import, `EnrolBySis`
an enrollment by the SIS, `LockRegister`, `ReopenRegister` and `FinalizeDue` the
principal and the timer, `ApproveLeave` the effect of an approval on one date,
`Revoke` the loss of the right to record. No transaction ends an enrollment,
so `enrolled` only grows. `strays` is a history variable: the pupils the SIS
enrolled behind a submitted or locked register, so that
`RosterComplete` can say what holds (see section 5).

### AttendanceCapture

`batch[c]` and `review[c]` are the rows of capture `c`, `submitted` the
submissions under its key, `slot[u]` the one queue entry a device has for the
class and date. A request (`call[r]`) is live, a sync of the queue, the
decision of a case, or an orphan nobody waits for. `saveAttendanceContinuityBatch`
is three transactions, `decideAttendanceReconciliation` two, and a request may
die between any of them (`Die`, `MaxFaults`); several requests may carry one
capture. `published` and `forgotten` are histories: what reached the register,
and what a device gave up for another capture (finding 2). A request that the
server refuses as invalid (a 4xx) is shown to its user and is no step.

For `ObservationRecord` a capture is held while it is in the queue or somebody
waits for the answer to it (`Holds`), and then it is where its batch says.

### Departure and TransportDuty

Every operation takes the lock of the school before it reads, so each is one
step; a request with an old `expected_revision` is refused and is no step.
`Departure` numbers the revisions of a pupil's plan (`current`); a plan names a
receiver, a trip or an unescorted way. What can go wrong is in the order of
steps: a request decided after boarding, a receiver revoked with a pass issued, a
roster prepared again. In `TransportDuty` a swap remembers the revisions of the
journeys it was made for and is decided much later.

For `LearnerCustody` the pupil is with the trip boarded or the way of the
completed plan; gate passes and plan revisions are steps it does not see.

### FeeLedger and CampusEvent

A payment at the desk or through the gateway holds the lock of the school and
reads the balance in the statement that waits for the row of the invoice, so it
may read an older balance than the one it posts to (`reader`, `ReadForDesk`,
`ReadForOrder`); credits and refunds lock the invoice only, and the triggers of
the ledger tables look again. Verification, webhooks and polling are one
action that may come at any time after the status it reports.

Every operation on a campus event locks its row and is one step, cancelling and
completing included with what their triggers credit. Granting and revoking the
authority to consent lock the relationship instead, at any time.

### SchoolNotice, StaffCover, SchoolTimetable, SessionRegister

`SchoolNotice` splits its requests at their row locks: opening (`OpenReads`,
`OpenLocks`, `OpenWrites`) and answering (`LocksNotice`, `RespondChecks`,
`RespondWrites`), where an answer is checked once both rows are locked and written
in a later step that looks at nothing again. Recording a delivery takes the same
two locks. Which rows are locked follows from where each request stands
(`NoticeFree`, `RowFree`). An opening holds the recipient and needs the notice, an
answer the other way round, and the database aborts one of the two
(`DeadlockAborts`).
`StaffCover` splits the decision of a request and the assignment of a cover
between the check, made without a lock, and the write. `SchoolTimetable` has one
step for each command, all of which hold the schedule lock; effective schedules
and the answers of teachers are operators over slots, timetables, plans and
closure. `SessionRegister` splits what holds the advisory lock between read and
write, because the timer and check-ins do not take it; `crossed` is the history
of a write that fell between.

## 3. Runs

| Run | Question | Bounds |
|---|---|---|
| `outbox_safety` | what holds of rows, sequences and floor; does the outbox implement the log? | 3 events, one poison, 2 workers, batches of 2, 2 attempts, one fault, crash and overrun |
| `outbox_liveness` | is everything published or buried? | 2 events, one poison, 2 workers, a broker drop as well |
| `stream_reconnect` | gaps, lost wake-ups, stranded streams while connections break | 3 events, batches, replays and buffers of 1, one broker drop and one stream break |
| `stream_liveness` | does everyone hear of everything, and does a lost broker come back? | one event, 2 drops, one failing query or dial |
| `stream_crossing` | finding 1 | 2 events, one drop, one break |
| `register_office` | complete rosters, the audit trail, lost updates; does the register implement the record? | 2 pupils, one session, 2 marks, 4 revisions, every kind of save |
| `class_day` | do two sessions overwrite each other in a register; does an answer to a plan ever count for another teacher? | register: 1 pupil, 2 sessions, whole registers with a reason, 3 revisions; timetable: 2 classes, 2 teachers, one dated timetable, one open draft |
| `capture_races` | are captures accounted for, do they implement `ObservationRecord`, is every one settled? | 1 device, 2 captures, 2 requests, 2 revisions, one correction, one request that dies |
| `capture_newer` | finding 2 | the same with two faults |
| `workflows` | types, safety and action properties of the eight workflows; does a departure implement `LearnerCustody`? | see below |
| `timetable_reopened` | finding 3 | 2 classes, one teacher |
| `session_final` | finding 4 | one pupil, one tab, 4 revisions |

Bounds of `workflows`: a departure has one trip, one receiver and two plans, so
that one may be replaced; duties have two collectors and two journeys at two
times, each changed up to four times (created, accepted, swapped, opened); an
invoice of 2 is paid in parts by a desk, a claim and two orders; an event has
two students and three sets of terms that together have every term both ways; a
notice has two recipients, one with an account, and two pages, and is edited
once; two members of staff have one day of leave a year and two days to take it
on; two classes share a teacher, as many as one teacher due in both needs; a
lesson has two pupils, a tab and three revisions. That an answer passes from one
teacher to another needs two of them: `class_day` checks the same timetable with
two classes and two teachers, beside the register with two sessions. The two share
no state, and a behaviour of `MCClassDay` is about one of them (`topic`).

Why the bounds suffice: two workers are what a race for rows, leases or the
cursor needs, and three events are a batch of two plus a row outside it; with
`MaxAttempts = 2` a poison row is retried and then buried. In `EventStream` a
limit of one makes every second event overflow a buffer, end a batch or exceed
a replay; two connections are an old and a new broker. Streams do not
interact, so one browser is enough. The `CONSTRAINT Uncrossed` of
`stream_reconnect` cuts off states in which two calls crossed on a stream: its
properties exclude such browsers by name. `stream_liveness` has one event: that
the next one is not overlooked is what `NothingIsForgotten` says with three.

A revision is what bounds `AttendanceRegister`: `MaxRevision` stands in the
guard of every transaction that takes one. Four let a register be submitted,
locked, reopened and corrected, or submitted, returned to draft by an
enrollment, excused by leave and submitted again. Two sessions need three: one
opens a page, the other writes twice. Two pupils are one the save is about and
one it is not, two marks are one that leave replaces (`Absent`) and one that it
writes (`Excused`). In `class_day` a single pupil, whole registers and
saves with a reason suffice, because a lost update concerns one pupil; its
`Single`, `Reason` and `Automatic` name what is left out.

Two captures are one that waits and a newer one; two requests are two uploads
that race, or an upload and a decision; `MaxCorrected` lets the register move on
once behind a capture.

Clocks are values: `phase`, `hour`, `begun`, `closed` and the deadline of a notice
only move forward, at any moment. `SchoolTimetable` ends with its date.
Symmetry is used over values every part of a run treats alike; in `workflows` and
`class_day` the two exchangeable values of several sets are the same two model
values, and the teachers of `class_day` are exchanged by themselves. Everything proved holds for all values of these constants.

Deadlock checking is off in every run: events, drops, revisions, plans and
payments are bounded, so the models really may stop.

Fairness. `EventOutbox`: every worker keeps running (`setInterval`), brokers are
dialed again, leases and backoffs run out, and PostgreSQL grants a row lock that
is released again and again to each waiter (strong fairness of `ReserveRange`).
`EventStream`: the program does not stop while it can go on, and an EventSource
that is retrying tries. `AttendanceCapture`: the server goes on with the
requests it has and answers them, and the device's sync, which fires every 30
seconds and when it comes online, is not put off for ever while there is
something to send (strong fairness of `Sync`). The others assume none and have
no liveness property: whether a register is ever submitted, a request decided
or a bill paid is up to people.

## 4. What is proved

Each theorem holds for all values of the constants under the assumptions their
modules state (finite sets, distinct values, natural bounds). An invariant that
a run checks is a conjunct of the inductive invariant named here or follows
from it, and TLC has checked the invariants on the instances above.

**`EventOutboxProofs`**

- `OutboxInvariant`. That committed sequences are dense is not inductive alone:
  a statement that holds the cursor lock has computed a range `last+1..last+n`
  for rows it locked earlier. `CursorLocked` says that at most one worker holds
  the cursor and that its range starts where the log ends, `RowsConsistent` what
  the fields of a row in each state are, and `PublishersDisjoint` that locked
  rows have one owner.
- `TypeCorrect`, `SequencesAreDense`, `NoRowPublishedTwiceAtOnce`,
  `FloorIsSafe`, `LogStaysWhole`: its parts.
- `SettledRowsStaySettled`, `AttemptsAreCharged`: action properties that
  follow from it and one step.
- `OutboxImplementsLog`: refinement of `DeliveryLog`, each publication one
  `AppendBatch` of a batch and each cleanup one `Trim`.

**`EventStreamProofs`**

- `StreamInvHolds`: `StreamInv` is the log's invariant, the types, `BrokerInv` (a
  lost broker is being dialed, or a timer or a dialing call will), and
  `ClientServed` for every browser on which no two calls crossed: what has been
  sent, buffered and read by the calls in flight covers the log up to the place
  each of them claims. This relates an answer that may be stale to the buffer
  filled since it was asked for, which is why it needs all parts at once.
- `StreamIsTyped`, `NoBrowserIsMovedPast`, `LiveStreamsAreCurrent`,
  `NothingIsEverForgotten`: consequences of it, with retention at work while the
  broker is ready, lost or being dialed.
- `StreamsStayServed`: while no query has failed (`budget.faults = MaxFaults`),
  every stream that replays or buffers has a call in flight that ends it. A
  failed full sync really strands a stream (section 5), hence the hypothesis.
- `CursorsNeverMoveBack`: `CursorsOnlyAdvance`, the place a browser presents
  when it reconnects never goes back.
- `StreamsReadTheLog`: every behaviour of `EventStream` is, of the log, one of
  `DeliveryLog`. With `OutboxImplementsLog` the two components fit: whatever the
  streams assume of publication the outbox provides, and they do nothing to it.

**`AttendanceRegisterProofs`**

- `RegisterInvariant`. The argument is that a revision names the marks: every
  transaction that changes a mark takes the next revision
  (`RevisionNamesMarks`), so whoever read marks at the revision now in force
  still knows them (`UpToDate`, `KnowledgeLasts`). `PagesKnown`, `CallsKnown` and
  `ResultsKnown` say this of the pages, of what the preflight of each request saw
  and of the stored answers; `CallsKnown` also ties a request to the revision of
  its page. `RosterComplete` is inductive only with it: the save that submits
  covers the roster its preflight saw, which the lock finds unchanged.
  `TrailRetraces` needs `TrailBounded`, that no entry is of a later revision
  than the register.
- The types, `RosterComplete` and `TrailRetraces` as its parts.
- `NothingIsLost`: no lost update, from the invariant and `OnlySavesLand`. A
  save that lands expects the revision of its page and finds it in force, so
  the marks of a page whose halves agree are those in force.
- `RegisterImplementsRecord`: refinement of `VersionedRecord`. Saves,
  enrollments and leave are its `Write`, lock and finalization its `Finalize`.

**`AttendanceCaptureProofs`**

- `CaptureInvariant`: `CapturesAreAccountedFor` is inductive with
  `CasesFollowBatches` (a case is opened with the quarantine of its batch and
  closed once that is settled), `RequestsAreTrue` (what a request did is in the
  rows) and `QueuesAreOwn`.
- `CaptureIsTyped`, `CapturesStayAccountedFor`, `AcceptanceSticks`.
- `CapturesKeepObservations`: refinement of `ObservationRecord`. It needs three
  more facts, `RecordedWereTaken`, `ReviewsAreRecorded` and `GivenUpForAnother`
  (`KeepingInv`), and that a device never holds again what it let go of
  (`NothingIsHeldAgain`); then each of the three transactions of an upload, each
  of the two of a decision, and each step of a device is one step of the record
  or none, wherever the request they belong to ends.

**`TransportProofs`**

- `DepartureInvariant`: `SafeDeparture` is inductive with `CompletedByHandover` (a
  plan is completed when its handover is terminal) and `RidersBoarded`.
- `DepartureIsSafe`, `CompletedStaysCompleted`.
- `DepartureKeepsCustody`: refinement of `LearnerCustody`. Boarding is `Board`, a
  drop `Arrive`, a handover or a movement at the gate `Release`; replacing a plan
  is nothing, because it is refused once the pupil has gone.
- `DutyInvariant` (with `SwapsAreOfJourneys`), `NobodyIsInTwoPlaces`,
  `DutiesMoveByConsent`. The last rests on revisions: a swap that is decided finds
  the revisions it was made for, so the collectors who agreed still have the
  journeys.

**`EventFeeProofs`**

- `FeeInvariant` (with `CreditIsWhole`, `ReaderKnows`: what the reader of a
  balance read is at least what is due while it holds the school's lock, and
  `LettersAreOfPayments`), `BooksAlwaysAgree`, `PaymentsFit`.
- `EventInvariant` (with `NothingBefore`, `LockedIsComplete`, `CompletedIsLocked`,
  `NoShowsAreLate`), `PlacesAlwaysAgree`, `RegisterStaysTrue`.

**`SchoolDayProofs`**: `PublishedPlansAreFree`, `AnswersAreForThisDuty` and
`StartedPlansStay` of the timetable; `AnswersAreFinal` of notices, which needs
`ChecksHold`: at most one request holds the notice, and what an answer was checked
against stays true until it is written, because everybody who could change it needs
that lock; `ApprovedLeaveIsAffordable` and `DecidedCoversStand` of
staff, which need that an approval under way still fits (`LeaveFits`) and that
tasks are for leave; `CheckInsReplaceNothing`, `UncrossedSavesAreSerial` and
`UncrossedLessonsAreVersioned` of lessons, from `NothingIsStale`: until a write
crosses another call, whatever a call or a check-in has read is in force. The
last one says that finding 4 needs such a crossing.

**`WorkflowProofs`**: a step of the whole school is, of each workflow, a step of
its own or nothing (`SchoolStepsAreTheirOwn`), hence `SchoolKeepsItsSpecs`, and
with the theorems above `SchoolIsSafe` and `SchoolKeepsItsWord`. The bounded
school of the run is a school (`WorkflowsAreOfTheSchool`), and `WorkflowsAreTyped`.

Proved and not run: `CursorsOnlyAdvance`, `LiveClientsAreCurrent`,
`AcceptedSticks`, `CompletedIsFinal`, `LessonIsVersioned`; the refinements and
invariants that are run say as much or more on the instances.

Only model-checked: the liveness properties (`HealthyArePublished`,
`PoisonIsBuried`, `EveryoneIsTold`, `BrokerComesBack`, `PendingIsSettled`), which
are out of the prover's reach because they rest on fairness, and the four
violations. Every invariant and action property of a passing run is proved.

## 5. Findings

Each is a violation run; `PROJECT.json` quotes the line it contradicts.

1. `stream_crossing`: `connectBroker`'s recovery and an `openStream` call may
   both work on one stream. The first to finish makes it live; the drain moves
   it past events that only the other call had read.
2. `capture_newer`: when an upload of an older capture is answered, the device
   removes the queue entry of the class and date, whichever capture it holds by
   then; a newer one is lost.
3. `timetable_reopened`: an edit made while a date is closed is not compared
   with the plans the closure hides, and deleting the closure compares nothing:
   a teacher is due in two classes.
4. `session_final`: the timer finalizes a lesson's register between the read and
   the write of a save, which opens it again without a reason.

More things the models show, which the properties allow for or name as
exceptions, and no run is about:

- Streams. When the full sync of `finishReplay` fails under `openStream`, the
  stream buffers for ever. The catch block of an older `connectBroker` call
  clears `brokerReady` of its healthy successor. A socket that ends while the
  watermark is read leaves `brokerReady` true without a listener until the timer
  dials again. A browser refused with 503 or 429 keeps a dead EventSource until
  its page makes a new one; if it is the leader tab, it keeps the lock and its
  followers stay stale.
- Daily register. A page read while another save commits shows the old marks
  under the new revision, and a save from it overwrites the correction. The
  retry of a committed save is refused, not answered, once a pupil was
  enrolled. The SIS (enroll, create a student, roll over) enrolls into a class
  without looking at its registers, unlike an admission or an import (`strays`).
- Captures. One that was rejected while its acceptance died after saving the
  register stays published.
- Lessons. Two check-ins may share a revision, or one may take it back; a locked
  register gets the entry of a pupil enrolled late; a save that read no mark may
  replace the one of a check-in, without a reason and with nothing as the
  previous status; evidence recorded after a switch to automatic stays pending.
- Covers. One replacement may be offered two covers of one hour
  (`staff-operations.service.ts:770`), since the check sees accepted ones only.
- Timetable. Edits of weekly slots look at weekly slots only and may change a
  period that has started; closing a date lets a started period be dropped.
- Assessments read the status of a batch without a lock when comments are
  updated, and cut a comment's marker with `slice(0, 500)`. A photo enrollment
  that was stored by the provider while the profile's update failed leaves a
  count of 0 and refuses the same photo as a duplicate. Both were read, not
  modelled.

## 6. Not modelled

- `event_user_is_authorized`, recipients and payloads: the audience of an event
  is a constant. Authorization is a guard of users nobody is in the models.
- Heartbeats, session expiry, `SSE_MAX_CONNECTIONS`, graceful shutdown,
  metrics.
- Retention in `EventStream` runs at any time, and stays behind the watermark of
  an instance that listens and behind the place that a drain or a dialing call in
  flight counts from (`Outstanding`: seven days against one query); it does
  overtake streams that replay and browsers that are away.
- In the registers: photos as the source of a save, the day policy and the term
  (each only refuses a save), remarks apart from the status, totals and audit
  events derived from a save. `OpenScreen` does not ask for the right to view
  separately from the right to record.
- In the workflows: visitors, location samples, routes; raising invoices in
  bulk and the delivery of e-mails; events of several sessions, staff
  assignments, comments and exports; the choice of an audience; leave over
  several days and units; the preparation of a year, hours that overlap in part.
- The components `PROJECT.json` lists as `not_modelled`, with their reasons:
  read models and inboxes (requests, insights, analytics), CRUD (people,
  institutions, roles, care, company), state machines under one row lock
  (approved leave, assessments), clients of external services (chat, assistant,
  calendar, photo attendance).

## 7. Plan

In this order:

1. Abstract specifications for the invoice (an account that takes each payment
   once), the cover and the notice, and proofs that the workflows implement
   them, as the departure and the captures do.
2. `EventBridge`: leader election and relay between tabs, on top of `EventStream`'s
   browser.
3. `performLeaveAction` with its effect on several registers; the invitation
   queue, which leases rows as the outbox does; governance records.
4. Photo enrollment and photo jobs across the two services.
