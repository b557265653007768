---------------------------- MODULE EventOutbox ----------------------------
(***************************************************************************)
(* The publishing side of SchoolEventService: the event_outbox rows, the   *)
(* singleton event_delivery_cursor row and the worker of every API         *)
(* instance.                                                               *)
(*                                                                         *)
(* A business transaction inserts a row.  A worker claims a batch under a  *)
(* lease, publishes the batch in one statement and, when that statement    *)
(* fails, publishes its rows one at a time, charging a failed attempt to   *)
(* the row that failed.  The publishing statement is not atomic here: it   *)
(* locks its rows, then waits for the lock of the cursor row, then commits *)
(* or rolls back, and other instances run in between.                      *)
(*                                                                         *)
(* Clocks are abstracted: a lease is live or lapsed, a row is due or       *)
(* backing off, retained or expired, and time may change each of them.     *)
(* Notification rows and NOTIFY belong to the publishing statement and     *)
(* commit with it.                                                         *)
(***************************************************************************)
EXTENDS Naturals, FiniteSets, Functions

CONSTANTS
    Event,          \* the rows that may be enqueued, numbered by created_at
    Instance,       \* API instances
    Poison,         \* events whose publishing statement always fails
    BatchSize,      \* EVENT_BATCH_SIZE
    CleanupSize,    \* EVENT_CLEANUP_BATCH_SIZE
    MaxAttempts,    \* MAX_EVENT_ATTEMPTS
    MaxFaults,      \* bound: statements that fail for no fault of their rows
    MaxCrashes,     \* bound: instances that crash and restart
    MaxDrops,       \* bound: times an instance loses its event broker
    MaxOverruns,    \* bound: leases that lapse under a running worker
    NoInstance      \* nobody holds the cursor row

ASSUME EventAssumption == Event \subseteq Nat /\ IsFiniteSet(Event)
ASSUME PoisonAssumption == Poison \subseteq Event
ASSUME SizesAssumption == {BatchSize, CleanupSize, MaxAttempts} \subseteq Nat \ {0}
ASSUME BoundsAssumption == {MaxFaults, MaxCrashes, MaxDrops, MaxOverruns} \subseteq Nat
ASSUME NoInstanceAssumption == NoInstance \notin Instance

VARIABLES
    row,        \* event_outbox
    last,       \* event_delivery_cursor.last_sequence, as committed
    floor,      \* event_delivery_cursor.replay_floor
    holder,     \* instance whose transaction has the cursor row locked
    worker,     \* volatile state of the worker of each instance
    budget      \* what is left of the bounds

vars == <<row, last, floor, holder, worker, budget>>

(* A process chooses a fresh workerId when it starts. *)
WorkerId == Instance \X Nat
NoWorker == <<NoInstance, 0>>

Steps == {"idle", "lock", "reserve", "commit", "record"}

RowType ==
    [state : {"absent", "pending", "published", "dead", "deleted"},
     owner : WorkerId \union {NoWorker},
     lease : {"none", "live", "lapsed"},
     attempts : 0..MaxAttempts,
     due : BOOLEAN,
     expired : BOOLEAN,
     seq : Nat]

WorkerType ==
    [ready : BOOLEAN,           \* brokerReady
     life : Nat,                \* distinguishes its successive processes
     step : Steps,
     isolating : BOOLEAN,       \* publishing one row at a time after a failure
     todo : SUBSET Event,       \* claimed rows not yet dealt with
     rows : SUBSET Event,       \* rows of the attempt under way
     base : Nat]                \* last_sequence as read under the cursor lock

BudgetType ==
    [faults : Nat, overruns : Nat, drops : Nat, crashes : Nat]

TypeOK ==
    /\ row \in [Event -> RowType]
    /\ last \in Nat
    /\ floor \in Nat
    /\ holder \in Instance \union {NoInstance}
    /\ worker \in [Instance -> WorkerType]
    /\ budget \in BudgetType

Me(i) == <<i, worker[i].life>>

AbsentRow ==
    [state |-> "absent", owner |-> NoWorker, lease |-> "none", attempts |-> 0,
     due |-> FALSE, expired |-> FALSE, seq |-> 0]

StartedWorker(life) ==
    [ready |-> FALSE, life |-> life, step |-> "idle", isolating |-> FALSE,
     todo |-> {}, rows |-> {}, base |-> 0]

Init ==
    /\ row = [e \in Event |-> AbsentRow]
    /\ last = 0
    /\ floor = 0
    /\ holder = NoInstance
    /\ worker = [i \in Instance |-> StartedWorker(0)]
    /\ budget = [faults |-> MaxFaults, overruns |-> MaxOverruns,
                 drops |-> MaxDrops, crashes |-> MaxCrashes]

-----------------------------------------------------------------------------
(* Business transactions and claims                                        *)

(* INSERT ... ON CONFLICT (idempotency_key) DO NOTHING, in the transaction
   of the command the event reports. *)
Enqueue(e) ==
    /\ row[e].state = "absent"
    /\ row' = [row EXCEPT ![e] = [@ EXCEPT !.state = "pending", !.due = TRUE]]
    /\ UNCHANGED <<last, floor, holder, worker, budget>>

InStatement(i) == worker[i].step \in {"reserve", "commit"}
Locked(e) == \E i \in Instance : InStatement(i) /\ e \in worker[i].rows

(* Rows a claim may take; FOR UPDATE SKIP LOCKED leaves out the others. *)
Claimable ==
    {e \in Event : /\ row[e].state = "pending"
                   /\ row[e].due
                   /\ row[e].lease # "live"
                   /\ ~Locked(e)}

(* A full batch of S, or the whole of S when it is smaller. *)
Batches(S, size) ==
    {B \in SUBSET S : /\ B # {}
                      /\ \/ Cardinality(B) = size
                         \/ B = S /\ Cardinality(S) < size}

(* publishPending: nothing to do while a publication runs or the broker is
   down; a claim that finds no row changes nothing. *)
ClaimPendingEvents(i) ==
    /\ worker[i].step = "idle"
    /\ worker[i].ready
    /\ \E batch \in Batches(Claimable, BatchSize) :
         /\ row' = [e \in Event |->
                      IF e \in batch
                        THEN [row[e] EXCEPT !.owner = Me(i), !.lease = "live"]
                        ELSE row[e]]
         /\ worker' = [worker EXCEPT ![i] = [@ EXCEPT !.step = "lock", !.todo = batch]]
    /\ UNCHANGED <<last, floor, holder, budget>>

-----------------------------------------------------------------------------
(* The publishing statement                                                *)

(* Mutant: the statement no longer checks published_at and dead_lettered_at. *)
CandidatesEvenPublished(i, target) ==
    {e \in target : row[e].owner = Me(i) /\ ~Locked(e)}

(* The rows of the attempt that are still this worker's to publish. *)
Candidates(i, target) ==
    {e \in target : /\ row[e].state = "pending"
                    /\ row[e].owner = Me(i)
                    /\ ~Locked(e)}

(* The whole batch first; after a failure, one row at a time. *)
Targets(i) ==
    IF worker[i].isolating THEN {{e} : e \in worker[i].todo} ELSE {worker[i].todo}

(* Worker w has dealt with the rows of an attempt; an isolated publication
   goes on with the rows that are left. *)
Done(w, attempted) ==
    [w EXCEPT !.todo = w.todo \ attempted,
              !.rows = {},
              !.base = 0,
              !.step = IF w.todo \subseteq attempted THEN "idle" ELSE "lock",
              !.isolating = ~(w.todo \subseteq attempted)]

(* An attempt whose rows were all lost to other workers publishes nothing. *)
LockCandidates(i) ==
    /\ worker[i].step = "lock"
    /\ \E target \in Targets(i) :
         worker' = [worker EXCEPT ![i] =
                      IF Candidates(i, target) = {}
                        THEN Done(@, target)
                        ELSE [@ EXCEPT !.step = "reserve", !.rows = Candidates(i, target)]]
    /\ UNCHANGED <<row, last, floor, holder, budget>>

(* Mutant: the range comes from an unlocked read of the cursor. *)
ReserveWithoutLock(i) ==
    /\ worker[i].step = "reserve"
    /\ holder' = i
    /\ worker' = [worker EXCEPT ![i] = [@ EXCEPT !.step = "commit", !.base = last]]
    /\ UNCHANGED <<row, last, floor, budget>>

(* UPDATE of the singleton cursor row: waits for the transaction that has
   it locked, and keeps it locked until this one ends. *)
ReserveRange(i) ==
    /\ worker[i].step = "reserve"
    /\ holder = NoInstance
    /\ holder' = i
    /\ worker' = [worker EXCEPT ![i] = [@ EXCEPT !.step = "commit", !.base = last]]
    /\ UNCHANGED <<row, last, floor, budget>>

(* row_number() OVER (ORDER BY created_at, id) within the reserved range. *)
Numberings(S, base) ==
    {num \in Bijection(S, (base + 1)..(base + Cardinality(S))) :
        \A d, e \in S : d < e => num[d] < num[e]}

(* What the commit of the statement makes visible. *)
PublishRows(i) ==
    /\ \E num \in Numberings(worker[i].rows, worker[i].base) :
         row' = [e \in Event |->
                   IF e \in worker[i].rows
                     THEN [row[e] EXCEPT !.state = "published", !.lease = "none",
                                         !.attempts = @ + 1, !.seq = num[e]]
                     ELSE row[e]]
    /\ last' = worker[i].base + Cardinality(worker[i].rows)

(* The whole batch was attempted, or the one row being isolated. *)
AfterAttempt(w) == Done(w, IF w.isolating THEN w.rows ELSE w.todo)

(* Mutant: a batch that fails is given up, its rows are not isolated. *)
GiveUpBatch(w) == [w EXCEPT !.step = "idle", !.rows = {}, !.base = 0, !.todo = {}]

(* The statement raised an error: isolate the batch, or charge the row. *)
AfterError(w) ==
    IF w.isolating
      THEN [w EXCEPT !.step = "record", !.base = 0]
      ELSE [w EXCEPT !.step = "lock", !.rows = {}, !.base = 0, !.isolating = TRUE]

CommitPublication(i) ==
    /\ worker[i].step = "commit"
    /\ worker[i].rows \intersect Poison = {}
    /\ PublishRows(i)
    /\ holder' = NoInstance
    /\ worker' = [worker EXCEPT ![i] = AfterAttempt(@)]
    /\ UNCHANGED <<floor, budget>>

(* The commit is durable but its acknowledgement is lost: the worker takes
   the error path with rows that are already published. *)
CommitUnacknowledged(i) ==
    /\ worker[i].step = "commit"
    /\ worker[i].rows \intersect Poison = {}
    /\ budget.faults > 0
    /\ PublishRows(i)
    /\ holder' = NoInstance
    /\ worker' = [worker EXCEPT ![i] = AfterError(@)]
    /\ budget' = [budget EXCEPT !.faults = @ - 1]
    /\ UNCHANGED floor

(* The statement fails before it has locked anything. *)
FailToStart(i) ==
    /\ worker[i].step = "lock"
    /\ budget.faults > 0
    /\ \E target \in Targets(i) :
         worker' = [worker EXCEPT ![i] =
                      IF worker[i].isolating
                        THEN [@ EXCEPT !.step = "record", !.rows = target]
                        ELSE [@ EXCEPT !.isolating = TRUE]]
    /\ budget' = [budget EXCEPT !.faults = @ - 1]
    /\ UNCHANGED <<row, last, floor, holder>>

(* The statement fails and rolls back, because of a row or by bad luck. *)
FailPublication(i) ==
    /\ InStatement(i)
    /\ \/ /\ worker[i].step = "commit"
          /\ worker[i].rows \intersect Poison # {}
          /\ UNCHANGED budget
       \/ /\ budget.faults > 0
          /\ budget' = [budget EXCEPT !.faults = @ - 1]
    /\ holder' = IF holder = i THEN NoInstance ELSE holder
    /\ worker' = [worker EXCEPT ![i] = AfterError(@)]
    /\ UNCHANGED <<row, last, floor>>

-----------------------------------------------------------------------------
(* Failure accounting                                                      *)

(* Mutant: the failure is recorded whoever claims the row by now. *)
ChargeableByAnyone(i) == {e \in worker[i].rows : row[e].state = "pending"}

(* recordPublishFailure acts on a row that is still unpublished and still
   claimed by this worker, and on no other. *)
Chargeable(i) ==
    {e \in worker[i].rows : row[e].state = "pending" /\ row[e].owner = Me(i)}

(* Mutant: the limit is tested before this attempt is counted. *)
ChargedOnceMore(r) ==
    [r EXCEPT !.attempts = @ + 1, !.owner = NoWorker, !.lease = "none", !.due = FALSE,
              !.state = IF r.attempts >= MaxAttempts THEN "dead" ELSE @]

(* Mutant: the attempt is not counted. *)
ReleasedUncounted(r) ==
    [r EXCEPT !.owner = NoWorker, !.lease = "none", !.due = FALSE]

(* The claim is released, the row backs off, and after MAX_EVENT_ATTEMPTS
   it is dead-lettered. *)
Charged(r) ==
    [r EXCEPT !.attempts = @ + 1, !.owner = NoWorker, !.lease = "none", !.due = FALSE,
              !.state = IF r.attempts + 1 >= MaxAttempts THEN "dead" ELSE @]

RecordPublishFailure(i) ==
    /\ worker[i].step = "record"
    /\ row' = [e \in Event |-> IF e \in Chargeable(i) THEN Charged(row[e]) ELSE row[e]]
    /\ worker' = [worker EXCEPT ![i] = AfterAttempt(@)]
    /\ UNCHANGED <<last, floor, holder, budget>>

(* The UPDATE itself fails: logged, and the row keeps its claim. *)
FailToRecord(i) ==
    /\ worker[i].step = "record"
    /\ budget.faults > 0
    /\ worker' = [worker EXCEPT ![i] = AfterAttempt(@)]
    /\ budget' = [budget EXCEPT !.faults = @ - 1]
    /\ UNCHANGED <<row, last, floor, holder>>

-----------------------------------------------------------------------------
(* Retention                                                               *)

ExpiredRows == {e \in Event : row[e].state = "published" /\ row[e].expired}

(* Mutant: the floor becomes the highest deleted sequence, not the GREATEST
   of it and the floor. *)
CleanupResettingFloor ==
    /\ holder = NoInstance
    /\ \E gone \in Batches(ExpiredRows, CleanupSize) :
         /\ row' = [e \in Event |->
                      IF e \in gone THEN [row[e] EXCEPT !.state = "deleted"] ELSE row[e]]
         /\ floor' \in {row[e].seq : e \in gone}
         /\ \A e \in gone : row[e].seq <= floor'
    /\ UNCHANGED <<last, holder, worker, budget>>

(* One bounded batch; the floor moves in the same statement, after the
   cursor row is free. *)
CleanupExpiredEvents ==
    /\ holder = NoInstance
    /\ \E gone \in Batches(ExpiredRows, CleanupSize) :
         /\ row' = [e \in Event |->
                      IF e \in gone THEN [row[e] EXCEPT !.state = "deleted"] ELSE row[e]]
         /\ floor' \in {floor} \union {row[e].seq : e \in gone}
         /\ \A n \in {floor} \union {row[e].seq : e \in gone} : n <= floor'
    /\ UNCHANGED <<last, holder, worker, budget>>

-----------------------------------------------------------------------------
(* Time, the broker and restarts                                           *)

(* Nobody alive is still working on the row its claim names. *)
Abandoned(e) ==
    \A i \in Instance : row[e].owner = Me(i) => e \notin worker[i].todo

(* Thirty seconds after the claim. A lease may lapse under a worker that
   is merely slow, at most MaxOverruns times. *)
LeaseLapses(e) ==
    /\ row[e].lease = "live"
    /\ \/ Abandoned(e) /\ UNCHANGED budget
       \/ /\ ~Abandoned(e)
          /\ budget.overruns > 0
          /\ budget' = [budget EXCEPT !.overruns = @ - 1]
    /\ row' = [row EXCEPT ![e] = [@ EXCEPT !.lease = "lapsed"]]
    /\ UNCHANGED <<last, floor, holder, worker>>

BackoffElapses(e) ==
    /\ row[e].state = "pending"
    /\ ~row[e].due
    /\ row' = [row EXCEPT ![e] = [@ EXCEPT !.due = TRUE]]
    /\ UNCHANGED <<last, floor, holder, worker, budget>>

(* Seven days after creation.  It matters from publication on, however
   late that came: a row may expire as soon as it is published. *)
RetentionElapses(e) ==
    /\ row[e].state = "published"
    /\ ~row[e].expired
    /\ row' = [row EXCEPT ![e] = [@ EXCEPT !.expired = TRUE]]
    /\ UNCHANGED <<last, floor, holder, worker, budget>>

BrokerConnects(i) ==
    /\ ~worker[i].ready
    /\ worker' = [worker EXCEPT ![i] = [@ EXCEPT !.ready = TRUE]]
    /\ UNCHANGED <<row, last, floor, holder, budget>>

BrokerDrops(i) ==
    /\ worker[i].ready
    /\ budget.drops > 0
    /\ worker' = [worker EXCEPT ![i] = [@ EXCEPT !.ready = FALSE]]
    /\ budget' = [budget EXCEPT !.drops = @ - 1]
    /\ UNCHANGED <<row, last, floor, holder>>

(* The process dies: PostgreSQL rolls its statement back, its claims stay
   until they lapse, and the next process has another workerId. *)
CrashAndRestart(i) ==
    /\ budget.crashes > 0
    /\ worker' = [worker EXCEPT ![i] = StartedWorker(worker[i].life + 1)]
    /\ holder' = IF holder = i THEN NoInstance ELSE holder
    /\ budget' = [budget EXCEPT !.crashes = @ - 1]
    /\ UNCHANGED <<row, last, floor>>

-----------------------------------------------------------------------------
WorkerStep(i) ==
    \/ ClaimPendingEvents(i)
    \/ LockCandidates(i)
    \/ ReserveRange(i)
    \/ CommitPublication(i)
    \/ FailPublication(i)
    \/ RecordPublishFailure(i)

Next ==
    \/ \E e \in Event : Enqueue(e)
    \/ \E i \in Instance : WorkerStep(i)
    \/ \E i \in Instance : CommitUnacknowledged(i)
    \/ \E i \in Instance : FailToStart(i)
    \/ \E i \in Instance : FailToRecord(i)
    \/ CleanupExpiredEvents
    \/ \E e \in Event : LeaseLapses(e)
    \/ \E e \in Event : BackoffElapses(e)
    \/ \E e \in Event : RetentionElapses(e)
    \/ \E i \in Instance : BrokerConnects(i)
    \/ \E i \in Instance : BrokerDrops(i)
    \/ \E i \in Instance : CrashAndRestart(i)

Spec == Init /\ [][Next]_vars

(* The worker runs on an interval timer, the broker is redialled until it
   answers, and time passes.  The wait for the cursor row is fair between
   the few transactions that want it. *)
Fairness ==
    /\ \A i \in Instance : WF_vars(WorkerStep(i)) /\ SF_vars(ReserveRange(i))
    /\ \A i \in Instance : WF_vars(BrokerConnects(i))
    /\ \A e \in Event : WF_vars(LeaseLapses(e) /\ Abandoned(e))
    /\ \A e \in Event : WF_vars(BackoffElapses(e))

FairSpec == Spec /\ Fairness

-----------------------------------------------------------------------------
(* Properties                                                              *)

Delivered == {e \in Event : row[e].state \in {"published", "deleted"}}

(* The sequences handed out are exactly 1..last_sequence, each to one
   event: a reader that has drained up to last_sequence has missed none,
   whatever transactions were open, rolled back or lost. *)
DeliveredIsDense ==
    /\ {row[e].seq : e \in Delivered} = 1..last
    /\ \A d, e \in Delivered : row[d].seq = row[e].seq => d = e

(* Two instances never publish the same row: what a statement has locked
   is pending, is claimed by the instance running it and is locked by no
   other, even when its lease lapsed before the statement ended. *)
PublishersDisjoint ==
    \A i \in Instance : InStatement(i) =>
        \A e \in worker[i].rows :
            /\ row[e].state = "pending"
            /\ row[e].owner = Me(i)
            /\ \A j \in Instance \ {i} : InStatement(j) => e \notin worker[j].rows

(* replay() may trust the floor: an event whose row is gone lies at or
   below it, and the floor never passes the published cursor. *)
FloorCoversDeleted ==
    /\ floor <= last
    /\ \A e \in Event : row[e].state = "deleted" => row[e].seq <= floor

(* A reader whose cursor is at or above the floor and who reads up to
   last_sequence finds every event in between, each once, whatever is
   published and deleted meanwhile. *)
LogIsWhole == DeliveredIsDense /\ FloorCoversDeleted

(* Once published, an event keeps its sequence for good and is never
   published again; once dead-lettered, it is never published. *)
SettledForever ==
    [][\A e \in Event :
         /\ row[e].state \in {"published", "deleted"} =>
              row'[e].seq = row[e].seq /\ row'[e].state \in {row[e].state, "deleted"}
         /\ row[e].state = "dead" => row'[e] = row[e]]_vars

(* A failed attempt is charged to a row only by the worker whose claim the
   row still carries, never by one whose lease lapsed and was taken over. *)
ChargedByItsClaimant ==
    [][\A e \in Event :
         row'[e].attempts # row[e].attempts =>
           \E i \in Instance : row[e].owner = Me(i) /\ e \in worker[i].rows]_vars

(* The outbox is an implementation of the log its readers rely on. *)
Log == INSTANCE DeliveryLog
         WITH position <- [e \in Event |-> row[e].seq]

ImplementsDeliveryLog == Log!LogSpec

(* "One poison event cannot block a batch": every other event enqueued is
   published, and a poison event ends up in the dead letters. *)
HealthyArePublished ==
    \A e \in Event \ Poison : row[e].state = "pending" ~> e \in Delivered

PoisonIsBuried ==
    \A e \in Poison : row[e].state = "pending" ~> row[e].state = "dead"
=============================================================================
