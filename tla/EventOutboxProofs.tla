------------------------- MODULE EventOutboxProofs -------------------------
(***************************************************************************)
(* Proofs about EventOutbox, for any set of events and instances, any      *)
(* batch sizes and any number of faults, crashes, drops and overruns.      *)
(***************************************************************************)
EXTENDS EventOutbox, FiniteSetTheorems, TLAPS

(* What no single property says: a row starts uncharged, a pending row has
   attempts left and only a pending row is leased, only a delivered row has
   a sequence. *)
RowsConsistent ==
    \A e \in Event :
        /\ row[e].state = "absent" => row[e].attempts = 0
        /\ row[e].state = "pending" => row[e].attempts < MaxAttempts
        /\ row[e].state # "pending" => row[e].lease = "none"
        /\ row[e].state \notin {"published", "deleted"} => row[e].seq = 0

(* The cursor row is locked by the one instance about to commit, whose
   range starts at the committed cursor; a running statement has rows. *)
CursorLocked ==
    /\ \A i \in Instance : worker[i].step = "commit" <=> holder = i
    /\ \A i \in Instance : worker[i].step = "commit" => worker[i].base = last
    /\ \A i \in Instance : InStatement(i) => worker[i].rows # {}

(* The inductive invariant. *)
OutboxInv ==
    /\ TypeOK
    /\ RowsConsistent
    /\ CursorLocked
    /\ PublishersDisjoint
    /\ DeliveredIsDense
    /\ FloorCoversDeleted

-----------------------------------------------------------------------------
(* The number of rows of a statement is a natural number. *)
LEMMA SubsetsAreCounted ==
    ASSUME NEW S \in SUBSET Event
    PROVE  IsFiniteSet(S) /\ Cardinality(S) \in Nat
  BY EventAssumption, FS_Subset, FS_CardinalityType

(* A numbering gives each row its own place and leaves no place empty. *)
LEMMA NumberingIsExact ==
    ASSUME NEW S \in SUBSET Event, NEW base \in Nat, NEW num \in Numberings(S, base)
    PROVE  /\ num \in [S -> (base + 1)..(base + Cardinality(S))]
           /\ \A d, e \in S : num[d] = num[e] => d = e
           /\ \A n \in (base + 1)..(base + Cardinality(S)) : \E e \in S : num[e] = n
  BY DEF Numberings, Bijection, Injection, Surjection, IsInjective

LEMMA InitInv == Init => OutboxInv
<1> SUFFICES ASSUME Init PROVE OutboxInv
  OBVIOUS
<1>1. TypeOK
  BY SizesAssumption, BoundsAssumption, EventAssumption
     DEF Init, TypeOK, AbsentRow, StartedWorker, RowType, WorkerType, BudgetType,
         WorkerId, NoWorker, Steps
<1>2. RowsConsistent /\ CursorLocked /\ PublishersDisjoint
  BY NoInstanceAssumption
     DEF Init, RowsConsistent, CursorLocked, PublishersDisjoint, AbsentRow,
         StartedWorker, InStatement
<1>3. DeliveredIsDense /\ FloorCoversDeleted
  BY DEF Init, DeliveredIsDense, FloorCoversDeleted, Delivered, AbsentRow
<1> QED
  BY <1>1, <1>2, <1>3 DEF OutboxInv

-----------------------------------------------------------------------------
(* What the steps have in common                                           *)

(* A step writes the state of one worker only. *)
LEMMA OneWorker ==
    ASSUME TypeOK, NEW i \in Instance, NEW w \in WorkerType,
           worker' = [worker EXCEPT ![i] = w]
    PROVE  /\ worker' \in [Instance -> WorkerType]
           /\ worker'[i] = w
           /\ \A j \in Instance \ {i} : worker'[j] = worker[j]
  BY DEF TypeOK

(* A step writes one row only. *)
LEMMA OneRow ==
    ASSUME TypeOK, NEW e \in Event, NEW r \in RowType, row' = [row EXCEPT ![e] = r]
    PROVE  /\ row' \in [Event -> RowType]
           /\ row'[e] = r
           /\ \A d \in Event \ {e} : row'[d] = row[d]
  BY DEF TypeOK

(* The end of an attempt, however it ended, is not inside a statement. *)
LEMMA AttemptsEnd ==
    ASSUME NEW w \in WorkerType
    PROVE  /\ \A S \in SUBSET Event :
                /\ Done(w, S) \in WorkerType
                /\ Done(w, S).step \notin {"reserve", "commit"}
           /\ AfterAttempt(w) \in WorkerType
           /\ AfterAttempt(w).step \notin {"reserve", "commit"}
           /\ AfterError(w) \in WorkerType
           /\ AfterError(w).step \notin {"reserve", "commit"}
<1>1. ASSUME NEW S \in SUBSET Event
      PROVE  Done(w, S) \in WorkerType /\ Done(w, S).step \notin {"reserve", "commit"}
  BY DEF Done, WorkerType, Steps
<1>2. w.rows \in SUBSET Event /\ w.todo \in SUBSET Event
  BY DEF WorkerType
<1>3. AfterAttempt(w) \in WorkerType /\ AfterAttempt(w).step \notin {"reserve", "commit"}
  BY <1>1, <1>2 DEF AfterAttempt
<1>4. AfterError(w) \in WorkerType /\ AfterError(w).step \notin {"reserve", "commit"}
  BY DEF AfterError, WorkerType, Steps
<1> QED
  BY <1>1, <1>3, <1>4

(* A worker that is not in a statement after the step, and has let go of
   the cursor row, disturbs nothing. *)
LEMMA WorkerLeavesStatement ==
    ASSUME OutboxInv, NEW i \in Instance, NEW w \in WorkerType,
           w.step \notin {"reserve", "commit"},
           worker' = [worker EXCEPT ![i] = w],
           holder' = IF holder = i THEN NoInstance ELSE holder,
           UNCHANGED <<row, last, floor>>, budget' \in BudgetType
    PROVE  OutboxInv'
<1> USE DEF OutboxInv
<1>1. /\ worker' \in [Instance -> WorkerType]
      /\ worker'[i] = w
      /\ \A j \in Instance \ {i} : worker'[j] = worker[j]
  BY OneWorker
<1>2. TypeOK'
  BY <1>1 DEF TypeOK
<1>3. CursorLocked'
  BY <1>1, NoInstanceAssumption DEF CursorLocked, InStatement
<1>4. PublishersDisjoint'
  BY <1>1 DEF PublishersDisjoint, InStatement, Me
<1>5. RowsConsistent' /\ DeliveredIsDense' /\ FloorCoversDeleted'
  BY DEF RowsConsistent, DeliveredIsDense, Delivered, FloorCoversDeleted
<1> QED
  BY <1>2, <1>3, <1>4, <1>5

(* Rows that change without entering or leaving the log, while no
   statement has them locked, disturb nothing either. *)
LEMMA UnlockedRowsChange ==
    ASSUME OutboxInv, row' \in [Event -> RowType],
           \A e \in Event : row'[e] # row[e] => ~Locked(e),
           \A e \in Event :
              /\ row'[e].seq = row[e].seq
              /\ row'[e].state \in {"published", "deleted"} <=>
                   row[e].state \in {"published", "deleted"}
              /\ row'[e].state = "deleted" <=> row[e].state = "deleted",
           RowsConsistent',
           UNCHANGED <<last, floor, holder, worker>>, budget' \in BudgetType
    PROVE  OutboxInv'
<1> USE DEF OutboxInv
<1>1. TypeOK'
  BY DEF TypeOK
<1>3. CursorLocked'
  BY DEF CursorLocked, InStatement
<1>4. PublishersDisjoint'
  BY DEF PublishersDisjoint, InStatement, Me, Locked, TypeOK, WorkerType
<1>5. DeliveredIsDense'
  <2>1. Delivered' = Delivered
    BY DEF Delivered
  <2> QED
    BY <2>1 DEF DeliveredIsDense, Delivered
<1>6. FloorCoversDeleted'
  BY DEF FloorCoversDeleted
<1> QED
  BY <1>1, <1>3, <1>4, <1>5, <1>6

-----------------------------------------------------------------------------
(* The steps                                                               *)

LEMMA EnqueueInv ==
    ASSUME OutboxInv, NEW e \in Event, Enqueue(e)
    PROVE  OutboxInv'
<1> DEFINE r == [row[e] EXCEPT !.state = "pending", !.due = TRUE]
<1>1. TypeOK /\ row[e] \in RowType /\ row[e].state = "absent"
  BY DEF OutboxInv, TypeOK, Enqueue
<1>2. /\ r \in RowType /\ r.seq = row[e].seq /\ r.state = "pending"
      /\ r.attempts = row[e].attempts
  BY <1>1 DEF RowType
<1>3. row' = [row EXCEPT ![e] = r]
  BY DEF Enqueue
<1> HIDE DEF r
<1>4. /\ row' \in [Event -> RowType]
      /\ row'[e] = r
      /\ \A d \in Event \ {e} : row'[d] = row[d]
  BY <1>1, <1>2, <1>3, OneRow
<1>5. ~Locked(e)
  BY <1>1 DEF OutboxInv, PublishersDisjoint, Locked
<1>6. RowsConsistent'
  BY <1>1, <1>2, <1>4, SizesAssumption DEF OutboxInv, RowsConsistent
<1> QED
  BY <1>1, <1>2, <1>4, <1>5, <1>6, UnlockedRowsChange DEF Enqueue, OutboxInv, TypeOK

LEMMA ClaimInv ==
    ASSUME OutboxInv, NEW i \in Instance, ClaimPendingEvents(i)
    PROVE  OutboxInv'
<1> USE DEF OutboxInv
<1>1. PICK batch \in Batches(Claimable, BatchSize) :
         /\ row' = [e \in Event |->
                      IF e \in batch
                        THEN [row[e] EXCEPT !.owner = Me(i), !.lease = "live"]
                        ELSE row[e]]
         /\ worker' = [worker EXCEPT ![i] = [@ EXCEPT !.step = "lock", !.todo = batch]]
  BY DEF ClaimPendingEvents
<1>2. /\ batch \subseteq Event
      /\ \A e \in batch : ~Locked(e) /\ row[e].state = "pending"
  BY DEF Batches, Claimable
<1>3. Me(i) \in WorkerId
  BY DEF Me, WorkerId, TypeOK, WorkerType
<1>4. ASSUME NEW e \in Event
      PROVE  /\ row'[e] \in RowType
             /\ row'[e].state = row[e].state
             /\ row'[e].seq = row[e].seq
             /\ row'[e].attempts = row[e].attempts
             /\ e \notin batch => row'[e] = row[e]
  <2>1. row[e] \in RowType
    BY DEF TypeOK
  <2>2. CASE e \in batch
    <3> DEFINE r == [row[e] EXCEPT !.owner = Me(i), !.lease = "live"]
    <3>1. /\ r \in RowType /\ r.state = row[e].state /\ r.seq = row[e].seq
          /\ r.attempts = row[e].attempts
      BY <1>3, <2>1 DEF RowType
    <3>2. row'[e] = r
      BY <1>1, <2>2
    <3> QED
      BY <2>2, <3>1, <3>2
  <2>3. CASE e \notin batch
    BY <1>1, <2>1, <2>3
  <2> QED
    BY <2>2, <2>3
<1>5. row' \in [Event -> RowType]
  BY <1>1, <1>4
<1> DEFINE w == [worker[i] EXCEPT !.step = "lock", !.todo = batch]
<1>6. /\ w \in WorkerType /\ w.step = "lock" /\ w.life = worker[i].life
      /\ worker' = [worker EXCEPT ![i] = w]
      /\ ~InStatement(i)
  <2>1. worker[i] \in WorkerType
    BY DEF TypeOK
  <2>2. w \in WorkerType /\ w.step = "lock" /\ w.life = worker[i].life
    BY <1>2, <2>1 DEF WorkerType, Steps
  <2>3. worker' = [worker EXCEPT ![i] = w] /\ ~InStatement(i)
    BY <1>1 DEF ClaimPendingEvents, InStatement
  <2> QED
    BY <2>2, <2>3
<1> HIDE DEF w
<1>7. /\ worker' \in [Instance -> WorkerType]
      /\ worker'[i] = w
      /\ \A j \in Instance \ {i} : worker'[j] = worker[j]
  BY <1>6, OneWorker
<1>8. TypeOK'
  BY <1>5, <1>7 DEF TypeOK, ClaimPendingEvents
<1>9. RowsConsistent' /\ CursorLocked'
  <2>1. RowsConsistent'
    BY <1>2, <1>4 DEF RowsConsistent
  <2>2. holder' = holder /\ last' = last /\ holder # i
    BY <1>6 DEF ClaimPendingEvents, CursorLocked, InStatement
  <2>3. CursorLocked'
    BY <1>6, <1>7, <2>2 DEF CursorLocked, InStatement
  <2> QED
    BY <2>1, <2>3
<1>10. PublishersDisjoint'
  BY <1>2, <1>4, <1>6, <1>7
     DEF PublishersDisjoint, Locked, InStatement, Me, TypeOK, WorkerType
<1>11. Delivered' = Delivered
  BY <1>4 DEF Delivered
<1>12. DeliveredIsDense'
  <2>1. last' = last /\ \A e \in Event : row'[e].seq = row[e].seq
    BY <1>4 DEF ClaimPendingEvents
  <2> QED
    BY <1>11, <2>1 DEF DeliveredIsDense, Delivered
<1>13. FloorCoversDeleted'
  BY <1>4 DEF FloorCoversDeleted, ClaimPendingEvents
<1> QED
  BY <1>8, <1>9, <1>10, <1>12, <1>13

LEMMA LockInv ==
    ASSUME OutboxInv, NEW i \in Instance, LockCandidates(i)
    PROVE  OutboxInv'
<1> USE DEF OutboxInv
<1>1. PICK target \in Targets(i) :
         worker' = [worker EXCEPT ![i] =
                      IF Candidates(i, target) = {}
                        THEN Done(@, target)
                        ELSE [@ EXCEPT !.step = "reserve", !.rows = Candidates(i, target)]]
  BY DEF LockCandidates
<1>2. /\ worker[i] \in WorkerType /\ target \in SUBSET Event
      /\ UNCHANGED <<row, last, floor, holder, budget>>
      /\ worker[i].step = "lock" /\ holder # i
  BY DEF Targets, TypeOK, WorkerType, LockCandidates, CursorLocked
<1>3. CASE Candidates(i, target) = {}
  BY <1>1, <1>2, <1>3, AttemptsEnd, WorkerLeavesStatement DEF TypeOK
<1>4. CASE Candidates(i, target) # {}
  <2> DEFINE w == [worker[i] EXCEPT !.step = "reserve", !.rows = Candidates(i, target)]
  <2>1. /\ w \in WorkerType /\ w.step = "reserve" /\ w.life = worker[i].life
        /\ w.rows = Candidates(i, target)
    BY <1>2 DEF WorkerType, Steps, Candidates
  <2>2. worker' = [worker EXCEPT ![i] = w]
    BY <1>1, <1>4
  <2> HIDE DEF w
  <2>3. /\ worker' \in [Instance -> WorkerType]
        /\ worker'[i] = w
        /\ \A j \in Instance \ {i} : worker'[j] = worker[j]
    BY <2>1, <2>2, OneWorker
  <2>4. TypeOK' /\ CursorLocked'
    BY <1>2, <1>4, <2>1, <2>3 DEF TypeOK, CursorLocked, InStatement
  <2>5. PublishersDisjoint'
    BY <1>2, <2>1, <2>3 DEF PublishersDisjoint, InStatement, Me, Candidates, Locked
  <2>6. RowsConsistent' /\ DeliveredIsDense' /\ FloorCoversDeleted'
    BY <1>2 DEF RowsConsistent, DeliveredIsDense, Delivered, FloorCoversDeleted
  <2> QED
    BY <2>4, <2>5, <2>6
<1> QED
  BY <1>3, <1>4

LEMMA ReserveInv ==
    ASSUME OutboxInv, NEW i \in Instance, ReserveRange(i)
    PROVE  OutboxInv'
<1> USE DEF OutboxInv
<1> DEFINE w == [worker[i] EXCEPT !.step = "commit", !.base = last]
<1>1. /\ w \in WorkerType /\ w.step = "commit" /\ w.base = last
      /\ w.rows = worker[i].rows /\ w.life = worker[i].life
  BY DEF TypeOK, WorkerType, Steps
<1>2. worker' = [worker EXCEPT ![i] = w]
  BY DEF ReserveRange
<1> HIDE DEF w
<1>3. /\ worker' \in [Instance -> WorkerType]
      /\ worker'[i] = w
      /\ \A j \in Instance \ {i} : worker'[j] = worker[j]
  BY <1>1, <1>2, OneWorker
<1>4. TypeOK' /\ CursorLocked'
  BY <1>1, <1>3, NoInstanceAssumption DEF TypeOK, CursorLocked, InStatement, ReserveRange
<1>5. PublishersDisjoint'
  BY <1>1, <1>3 DEF PublishersDisjoint, InStatement, Me, ReserveRange
<1>6. RowsConsistent' /\ DeliveredIsDense' /\ FloorCoversDeleted'
  BY DEF RowsConsistent, DeliveredIsDense, Delivered, FloorCoversDeleted, ReserveRange
<1> QED
  BY <1>4, <1>5, <1>6

(* The commit: the new sequences are the next ones after the cursor, so
   the sequences in use stay exactly 1..last. *)
LEMMA PublishInv ==
    ASSUME OutboxInv, NEW i \in Instance, worker[i].step = "commit", PublishRows(i),
           NEW w \in WorkerType, w.step \notin {"reserve", "commit"},
           worker' = [worker EXCEPT ![i] = w],
           holder' = NoInstance, floor' = floor, budget' \in BudgetType
    PROVE  OutboxInv'
<1> USE DEF OutboxInv
<1> DEFINE S == worker[i].rows
<1>1. /\ S \in SUBSET Event /\ IsFiniteSet(S) /\ Cardinality(S) \in Nat
      /\ holder = i /\ worker[i].base = last /\ last \in Nat /\ floor \in Nat
  BY SubsetsAreCounted DEF TypeOK, WorkerType, CursorLocked
<1>2. PICK num \in Numberings(S, last) :
         row' = [e \in Event |->
                   IF e \in S
                     THEN [row[e] EXCEPT !.state = "published", !.lease = "none",
                                         !.attempts = @ + 1, !.seq = num[e]]
                     ELSE row[e]]
  BY <1>1 DEF PublishRows
<1>3. last' = last + Cardinality(S)
  BY <1>1 DEF PublishRows
<1>4. /\ \A e \in S : num[e] \in (last + 1)..(last + Cardinality(S))
      /\ \A d, e \in S : num[d] = num[e] => d = e
      /\ \A n \in (last + 1)..(last + Cardinality(S)) : \E e \in S : num[e] = n
  BY <1>1, NumberingIsExact
<1>5. \A e \in S : /\ row[e].state = "pending"
                   /\ \A j \in Instance \ {i} : InStatement(j) => e \notin worker[j].rows
  BY DEF PublishersDisjoint, InStatement
<1>6. \A e \in S : /\ row'[e] \in RowType
                   /\ row'[e].state = "published"
                   /\ row'[e].lease = "none"
                   /\ row'[e].seq = num[e]
  <2> SUFFICES ASSUME NEW e \in S
               PROVE  /\ row'[e] \in RowType
                      /\ row'[e].state = "published"
                      /\ row'[e].lease = "none"
                      /\ row'[e].seq = num[e]
    OBVIOUS
  <2> DEFINE r == [row[e] EXCEPT !.state = "published", !.lease = "none",
                                 !.attempts = @ + 1, !.seq = num[e]]
  <2>1. row[e] \in RowType /\ row[e].attempts < MaxAttempts /\ num[e] \in Nat
    BY <1>1, <1>4, <1>5 DEF TypeOK, RowsConsistent
  <2>2. MaxAttempts \in Nat
    BY SizesAssumption
  <2>3. row[e].attempts + 1 \in 0..MaxAttempts
    BY <2>1, <2>2 DEF RowType
  <2>4. r \in RowType /\ r.state = "published" /\ r.lease = "none" /\ r.seq = num[e]
    BY <2>1, <2>3 DEF RowType
  <2>5. row'[e] = r
    BY <1>1, <1>2
  <2> QED
    BY <2>4, <2>5
<1>7. \A e \in Event \ S : row'[e] = row[e]
  BY <1>2
<1> HIDE DEF S
<1>8. /\ worker' \in [Instance -> WorkerType]
      /\ worker'[i] = w
      /\ \A j \in Instance \ {i} : worker'[j] = worker[j]
  BY OneWorker
<1>9. TypeOK'
  <2>1. row' \in [Event -> RowType]
    BY <1>1, <1>2, <1>6, <1>7 DEF TypeOK
  <2> QED
    BY <1>1, <1>3, <1>8, <2>1 DEF TypeOK
<1>10. RowsConsistent'
  BY <1>6, <1>7 DEF RowsConsistent
<1>11. CursorLocked'
  BY <1>1, <1>8, NoInstanceAssumption DEF CursorLocked, InStatement
<1>12. PublishersDisjoint'
  <2> SUFFICES ASSUME NEW j \in Instance, InStatement(j)', NEW e \in worker'[j].rows
               PROVE  /\ row'[e].state = "pending"
                      /\ row'[e].owner = Me(j)'
                      /\ \A k \in Instance \ {j} : InStatement(k)' => e \notin worker'[k].rows
    BY DEF PublishersDisjoint
  <2>1. j # i /\ worker'[j] = worker[j] /\ InStatement(j) /\ Me(j)' = Me(j)
    BY <1>8 DEF InStatement, Me
  <2>2. e \in Event /\ e \notin S
    BY <1>5, <2>1 DEF TypeOK, WorkerType
  <2>3. row'[e] = row[e]
    BY <1>7, <2>2
  <2>4. \A k \in Instance \ {j} : InStatement(k)' =>
           k # i /\ worker'[k] = worker[k] /\ InStatement(k)
    BY <1>8 DEF InStatement
  <2> QED
    BY <2>1, <2>3, <2>4 DEF PublishersDisjoint
<1>13. Delivered' = Delivered \union S /\ Delivered \intersect S = {}
  BY <1>1, <1>5, <1>6, <1>7 DEF Delivered
<1>14. \A e \in Delivered : row'[e] = row[e] /\ row[e].seq \in 1..last
  BY <1>7, <1>13 DEF DeliveredIsDense, Delivered
<1>15. DeliveredIsDense'
  <2>1. \A e \in Delivered' : row'[e].seq \in 1..last'
    <3>1. \A e \in Delivered : row'[e].seq \in 1..last'
      BY <1>1, <1>3, <1>14
    <3>2. \A e \in S : row'[e].seq \in 1..last'
      BY <1>1, <1>3, <1>4, <1>6
    <3> QED
      BY <1>13, <3>1, <3>2
  <2>2. \A n \in 1..last' : \E e \in Delivered' : row'[e].seq = n
    <3> SUFFICES ASSUME NEW n \in 1..last' PROVE \E e \in Delivered' : row'[e].seq = n
      OBVIOUS
    <3>1. CASE n <= last
      <4>1. n \in {row[e].seq : e \in Delivered}
        BY <1>1, <3>1 DEF DeliveredIsDense
      <4> QED
        BY <1>13, <1>14, <4>1
    <3>2. CASE n > last
      <4>1. n \in (last + 1)..(last + Cardinality(S))
        BY <1>1, <1>3, <3>2
      <4> QED
        BY <1>4, <1>6, <1>13, <4>1
    <3> QED
      BY <1>1, <1>3, <3>1, <3>2
  <2>3. \A d, e \in Delivered' : row'[d].seq = row'[e].seq => d = e
    <3> SUFFICES ASSUME NEW d \in Delivered', NEW e \in Delivered',
                        row'[d].seq = row'[e].seq
                 PROVE  d = e
      OBVIOUS
    <3>1. CASE d \in S /\ e \in S
      BY <1>4, <1>6, <3>1
    <3>2. CASE d \in Delivered /\ e \in Delivered
      BY <1>14, <3>2 DEF DeliveredIsDense
    <3>3. \A x \in S : row'[x].seq > last
      BY <1>1, <1>4, <1>6
    <3>4. \A x \in Delivered : row'[x].seq <= last
      BY <1>1, <1>14
    <3>5. ~(d \in S /\ e \in Delivered) /\ ~(d \in Delivered /\ e \in S)
      <4>1. \A x \in S : row'[x].seq \in Nat
        BY <1>1, <1>4, <1>6
      <4> QED
        BY <1>1, <3>3, <3>4, <4>1
    <3> QED
      BY <1>13, <3>1, <3>2, <3>5
  <2> QED
    BY <2>1, <2>2, <2>3 DEF DeliveredIsDense
<1>16. FloorCoversDeleted'
  BY <1>1, <1>3, <1>6, <1>7 DEF FloorCoversDeleted
<1> QED
  BY <1>9, <1>10, <1>11, <1>12, <1>15, <1>16

LEMMA FailureInv ==
    ASSUME OutboxInv, NEW i \in Instance,
           FailToStart(i) \/ FailPublication(i) \/ FailToRecord(i)
    PROVE  OutboxInv'
<1>1. /\ TypeOK /\ worker[i] \in WorkerType
      /\ budget.faults > 0 => [budget EXCEPT !.faults = @ - 1] \in BudgetType
  BY DEF OutboxInv, TypeOK, BudgetType
<1>2. CASE FailToStart(i)
  <2>1. PICK target \in Targets(i) :
           worker' = [worker EXCEPT ![i] =
                        IF worker[i].isolating
                          THEN [@ EXCEPT !.step = "record", !.rows = target]
                          ELSE [@ EXCEPT !.isolating = TRUE]]
    BY <1>2 DEF FailToStart
  <2> DEFINE w == IF worker[i].isolating
                    THEN [worker[i] EXCEPT !.step = "record", !.rows = target]
                    ELSE [worker[i] EXCEPT !.isolating = TRUE]
  <2>2. target \in SUBSET Event /\ worker[i].step = "lock"
    <3>1. worker[i].todo \in SUBSET Event
      BY <1>1 DEF WorkerType
    <3>2. target \in SUBSET Event
      BY <3>1 DEF Targets
    <3> QED
      BY <1>2, <3>2 DEF FailToStart
  <2>3. w \in WorkerType /\ w.step \notin {"reserve", "commit"}
    <3>1. CASE worker[i].isolating
      BY <1>1, <2>2, <3>1 DEF WorkerType, Steps
    <3>2. CASE ~worker[i].isolating
      BY <1>1, <2>2, <3>2 DEF WorkerType, Steps
    <3> QED
      BY <3>1, <3>2
  <2>4. worker' = [worker EXCEPT ![i] = w]
    BY <2>1
  <2>5. holder # i /\ holder' = holder /\ UNCHANGED <<row, last, floor>>
        /\ budget' \in BudgetType
    BY <1>1, <1>2, <2>2 DEF FailToStart, OutboxInv, CursorLocked
  <2> HIDE DEF w
  <2> QED
    BY <2>3, <2>4, <2>5, WorkerLeavesStatement
<1>3. CASE FailPublication(i)
  <2>1. budget' \in BudgetType
    BY <1>1, <1>3 DEF FailPublication, TypeOK
  <2> QED
    BY <1>1, <1>3, <2>1, AttemptsEnd, WorkerLeavesStatement DEF FailPublication
<1>4. CASE FailToRecord(i)
  <2>1. holder # i
    BY <1>4 DEF FailToRecord, OutboxInv, CursorLocked
  <2> QED
    BY <1>1, <1>4, <2>1, AttemptsEnd, WorkerLeavesStatement DEF FailToRecord
<1> QED
  BY <1>2, <1>3, <1>4

(* A failure is recorded against rows no statement has locked: their owner
   is this worker, and this worker is outside its statement. *)
LEMMA RecordInv ==
    ASSUME OutboxInv, NEW i \in Instance, RecordPublishFailure(i)
    PROVE  OutboxInv'
<1> USE DEF OutboxInv
<1>1. /\ TypeOK /\ worker[i] \in WorkerType /\ worker[i].step = "record"
      /\ UNCHANGED <<last, floor, holder, budget>>
      /\ row' = [e \in Event |-> IF e \in Chargeable(i) THEN Charged(row[e]) ELSE row[e]]
      /\ worker' = [worker EXCEPT ![i] = AfterAttempt(worker[i])]
  BY DEF TypeOK, RecordPublishFailure
<1>2. /\ Chargeable(i) \in SUBSET Event
      /\ \A e \in Chargeable(i) : row[e].state = "pending" /\ row[e].owner = Me(i)
  BY <1>1 DEF Chargeable, WorkerType
<1>3. \A e \in Chargeable(i) : /\ row'[e] \in RowType
                               /\ row'[e].state \in {"pending", "dead"}
                               /\ row'[e].seq = 0 /\ row'[e].lease = "none"
                               /\ row'[e].state = "pending" => row'[e].attempts < MaxAttempts
  <2> SUFFICES ASSUME NEW e \in Chargeable(i)
               PROVE  /\ row'[e] \in RowType
                      /\ row'[e].state \in {"pending", "dead"}
                      /\ row'[e].seq = 0 /\ row'[e].lease = "none"
                      /\ row'[e].state = "pending" => row'[e].attempts < MaxAttempts
    OBVIOUS
  <2>1. /\ row[e] \in RowType /\ row[e].state = "pending" /\ row[e].seq = 0
        /\ row[e].attempts < MaxAttempts /\ MaxAttempts \in Nat
    BY <1>1, <1>2, SizesAssumption DEF TypeOK, RowsConsistent
  <2>2. row[e].attempts + 1 \in 0..MaxAttempts /\ NoWorker \in WorkerId \union {NoWorker}
    BY <2>1 DEF RowType
  <2>3. /\ Charged(row[e]) \in RowType
        /\ Charged(row[e]).seq = 0 /\ Charged(row[e]).lease = "none"
        /\ Charged(row[e]).attempts = row[e].attempts + 1
        /\ Charged(row[e]).state =
             IF row[e].attempts + 1 >= MaxAttempts THEN "dead" ELSE "pending"
    BY <2>1, <2>2 DEF RowType, Charged
  <2>4. row'[e] = Charged(row[e])
    BY <1>1, <1>2
  <2> QED
    BY <2>1, <2>2, <2>3, <2>4
<1>4. \A e \in Event \ Chargeable(i) : row'[e] = row[e]
  BY <1>1
<1> DEFINE w == AfterAttempt(worker[i])
<1>5. w \in WorkerType /\ w.step \notin {"reserve", "commit"}
  BY <1>1, AttemptsEnd
<1> HIDE DEF w
<1>6. /\ worker' \in [Instance -> WorkerType]
      /\ worker'[i] = w
      /\ \A j \in Instance \ {i} : worker'[j] = worker[j]
  BY <1>1, <1>5, OneWorker DEF w
<1>7. TypeOK'
  <2>1. row' \in [Event -> RowType]
    BY <1>1, <1>2, <1>3, <1>4 DEF TypeOK
  <2> QED
    BY <1>1, <1>6, <2>1 DEF TypeOK
<1>8. RowsConsistent'
  BY <1>3, <1>4 DEF RowsConsistent
<1>9. CursorLocked'
  BY <1>1, <1>5, <1>6 DEF CursorLocked, InStatement
<1>10. PublishersDisjoint'
  <2> SUFFICES ASSUME NEW j \in Instance, InStatement(j)', NEW e \in worker'[j].rows
               PROVE  /\ row'[e].state = "pending"
                      /\ row'[e].owner = Me(j)'
                      /\ \A k \in Instance \ {j} : InStatement(k)' => e \notin worker'[k].rows
    BY DEF PublishersDisjoint
  <2>1. j # i /\ worker'[j] = worker[j] /\ InStatement(j) /\ Me(j)' = Me(j)
    BY <1>5, <1>6 DEF InStatement, Me
  <2>2. e \in Event /\ row[e].owner = Me(j)
    BY <2>1 DEF TypeOK, WorkerType, PublishersDisjoint
  <2>3. e \notin Chargeable(i)
    BY <1>2, <2>1, <2>2 DEF Me
  <2>4. row'[e] = row[e]
    BY <1>4, <2>2, <2>3
  <2>5. \A k \in Instance \ {j} : InStatement(k)' =>
           k # i /\ worker'[k] = worker[k] /\ InStatement(k)
    BY <1>5, <1>6 DEF InStatement
  <2> QED
    BY <2>1, <2>4, <2>5 DEF PublishersDisjoint
<1>11. Delivered' = Delivered /\ \A e \in Delivered : row'[e] = row[e]
  BY <1>2, <1>3, <1>4 DEF Delivered
<1>12. DeliveredIsDense'
  <2>1. last' = last /\ \A e \in Delivered : row'[e].seq = row[e].seq
    BY <1>1, <1>11
  <2> QED
    BY <1>11, <2>1 DEF DeliveredIsDense
<1>13. FloorCoversDeleted'
  <2>1. \A e \in Event : row'[e].state = "deleted" => row'[e] = row[e]
    BY <1>3, <1>4
  <2>2. floor' = floor /\ last' = last
    BY <1>1
  <2> QED
    BY <2>1, <2>2 DEF FloorCoversDeleted
<1> QED
  BY <1>7, <1>8, <1>9, <1>10, <1>12, <1>13

(* The rows that go leave their sequences in use, and the floor rises to
   the highest of them. *)
LEMMA CleanupInv ==
    ASSUME OutboxInv, CleanupExpiredEvents
    PROVE  OutboxInv' /\ floor' \in Nat /\ floor <= floor' /\ floor' <= last
<1> USE DEF OutboxInv
<1>1. PICK gone \in Batches(ExpiredRows, CleanupSize) :
         /\ row' = [e \in Event |->
                      IF e \in gone THEN [row[e] EXCEPT !.state = "deleted"] ELSE row[e]]
         /\ floor' \in {floor} \union {row[e].seq : e \in gone}
         /\ \A n \in {floor} \union {row[e].seq : e \in gone} : n <= floor'
  BY DEF CleanupExpiredEvents
<1> DEFINE H == {floor} \union {row[e].seq : e \in gone}
<1>2. /\ gone \in SUBSET Event
      /\ \A e \in gone : row[e].state = "published"
      /\ UNCHANGED <<last, holder, worker, budget>>
  BY DEF Batches, ExpiredRows, CleanupExpiredEvents
<1>3. /\ H \subseteq 0..last /\ last \in Nat /\ floor \in H
      /\ \A e \in gone : row[e].seq \in 1..last
  <2>1. last \in Nat /\ floor \in 0..last
    BY DEF TypeOK, FloorCoversDeleted
  <2>2. \A e \in gone : row[e].seq \in 1..last
    BY <1>2 DEF DeliveredIsDense, Delivered
  <2> QED
    BY <2>1, <2>2
<1>5. floor' \in H /\ \A m \in H : m <= floor'
  BY <1>1
<1>6. floor' \in Nat /\ floor <= floor' /\ floor' <= last
  BY <1>3, <1>5
<1>7. \A e \in gone : row'[e] \in RowType /\ row'[e].state = "deleted"
                      /\ row'[e].lease = "none"
                      /\ row'[e].seq = row[e].seq /\ row'[e].seq <= floor'
  <2> SUFFICES ASSUME NEW e \in gone
               PROVE  /\ row'[e] \in RowType /\ row'[e].state = "deleted"
                      /\ row'[e].lease = "none"
                      /\ row'[e].seq = row[e].seq /\ row'[e].seq <= floor'
    OBVIOUS
  <2>1. row[e] \in RowType /\ row[e].lease = "none"
    BY <1>2 DEF TypeOK, RowsConsistent
  <2>2. /\ [row[e] EXCEPT !.state = "deleted"] \in RowType
        /\ [row[e] EXCEPT !.state = "deleted"].lease = "none"
        /\ [row[e] EXCEPT !.state = "deleted"].state = "deleted"
        /\ [row[e] EXCEPT !.state = "deleted"].seq = row[e].seq
    BY <2>1 DEF RowType
  <2>3. row'[e] = [row[e] EXCEPT !.state = "deleted"]
    BY <1>1, <1>2
  <2>4. row[e].seq \in H
    OBVIOUS
  <2> QED
    BY <1>5, <2>2, <2>3, <2>4
<1>8. \A e \in Event \ gone : row'[e] = row[e]
  BY <1>1
<1> HIDE DEF H
<1>9. TypeOK'
  <2>1. row' \in [Event -> RowType]
    BY <1>1, <1>2, <1>7, <1>8 DEF TypeOK
  <2> QED
    BY <1>2, <1>6, <2>1 DEF TypeOK
<1>10. RowsConsistent'
  BY <1>7, <1>8 DEF RowsConsistent
<1>11. CursorLocked'
  BY <1>2 DEF CursorLocked, InStatement
<1>12. PublishersDisjoint'
  <2>1. \A j \in Instance, e \in Event :
           InStatement(j) /\ e \in worker[j].rows => row'[e] = row[e]
    BY <1>2, <1>8 DEF PublishersDisjoint
  <2> QED
    BY <1>2, <2>1 DEF PublishersDisjoint, InStatement, Me, TypeOK, WorkerType
<1>13. DeliveredIsDense'
  <2>1. Delivered' = Delivered /\ \A e \in Delivered : row'[e].seq = row[e].seq
    BY <1>2, <1>7, <1>8 DEF Delivered
  <2> QED
    BY <1>2, <2>1 DEF DeliveredIsDense
<1>14. FloorCoversDeleted'
  <2>1. \A e \in Event \ gone : row'[e].state = "deleted" => row'[e].seq <= floor
    BY <1>8 DEF FloorCoversDeleted
  <2>2. \A e \in Event : row'[e].state = "deleted" => row'[e].seq <= floor'
    <3>1. \A e \in Event : row'[e].seq \in Nat
      BY <1>9 DEF TypeOK, RowType
    <3> QED
      BY <1>6, <1>7, <2>1, <3>1 DEF TypeOK
  <2> QED
    BY <1>2, <1>6, <2>2 DEF FloorCoversDeleted
<1> QED
  BY <1>6, <1>9, <1>10, <1>11, <1>12, <1>13, <1>14

(* Time only touches fields no invariant reads. *)
LEMMA TimeInv ==
    ASSUME OutboxInv, NEW e \in Event,
           LeaseLapses(e) \/ BackoffElapses(e) \/ RetentionElapses(e)
    PROVE  OutboxInv'
<1>1. /\ row[e] \in RowType
      /\ UNCHANGED <<last, floor, holder, worker>>
  BY DEF OutboxInv, TypeOK, LeaseLapses, BackoffElapses, RetentionElapses
<1>2. budget' \in BudgetType
  <2>1. budget \in BudgetType
    BY DEF OutboxInv, TypeOK
  <2>2. budget.overruns > 0 => [budget EXCEPT !.overruns = @ - 1] \in BudgetType
    BY <2>1 DEF BudgetType
  <2> QED
    BY <2>1, <2>2 DEF LeaseLapses, BackoffElapses, RetentionElapses
<1>3. PICK r \in {[row[e] EXCEPT !.lease = "lapsed"], [row[e] EXCEPT !.due = TRUE],
                  [row[e] EXCEPT !.expired = TRUE]} :
             /\ row' = [row EXCEPT ![e] = r]
             /\ row[e].lease = "none" => r.lease = "none"
  <2>1. CASE LeaseLapses(e)
    BY <2>1 DEF LeaseLapses
  <2>2. CASE BackoffElapses(e)
    BY <1>1, <2>2 DEF BackoffElapses, RowType
  <2>3. CASE RetentionElapses(e)
    BY <1>1, <2>3 DEF RetentionElapses, RowType
  <2> QED
    BY <2>1, <2>2, <2>3
<1>4. /\ r \in RowType /\ r.seq = row[e].seq /\ r.state = row[e].state
      /\ r.attempts = row[e].attempts /\ r.owner = row[e].owner
  BY <1>1, <1>3 DEF RowType
<1>5. /\ row' \in [Event -> RowType]
      /\ \A d \in Event : /\ row'[d].seq = row[d].seq
                          /\ row'[d].state = row[d].state
                          /\ row'[d].attempts = row[d].attempts
                          /\ row'[d].owner = row[d].owner
                          /\ row[d].lease = "none" => row'[d].lease = "none"
  <2>1. /\ row' \in [Event -> RowType]
        /\ row'[e] = r
        /\ \A d \in Event \ {e} : row'[d] = row[d]
    BY <1>3, <1>4, OneRow DEF OutboxInv
  <2> QED
    BY <1>3, <1>4, <2>1
<1>6. TypeOK' /\ RowsConsistent' /\ CursorLocked' /\ FloorCoversDeleted'
  BY <1>1, <1>2, <1>5
     DEF OutboxInv, TypeOK, RowsConsistent, CursorLocked, InStatement, FloorCoversDeleted
<1>7. PublishersDisjoint'
  BY <1>1, <1>5 DEF OutboxInv, TypeOK, WorkerType, PublishersDisjoint, InStatement, Me
<1>8. Delivered' = Delivered
  BY <1>5 DEF Delivered
<1>9. DeliveredIsDense'
  BY <1>1, <1>5, <1>8 DEF OutboxInv, DeliveredIsDense, Delivered
<1> QED
  BY <1>6, <1>7, <1>9 DEF OutboxInv

(* The broker only tells a worker when to start. *)
LEMMA BrokerInv ==
    ASSUME OutboxInv, NEW i \in Instance, BrokerConnects(i) \/ BrokerDrops(i)
    PROVE  OutboxInv'
<1>1. PICK b \in BOOLEAN :
         worker' = [worker EXCEPT ![i] = [worker[i] EXCEPT !.ready = b]]
  BY DEF BrokerConnects, BrokerDrops
<1> DEFINE w == [worker[i] EXCEPT !.ready = b]
<1>2. worker[i] \in WorkerType /\ TypeOK
  BY DEF OutboxInv, TypeOK
<1>3. /\ w \in WorkerType /\ w.step = worker[i].step /\ w.rows = worker[i].rows
      /\ w.base = worker[i].base /\ w.life = worker[i].life
  BY <1>2 DEF WorkerType
<1>4. worker' = [worker EXCEPT ![i] = w]
  BY <1>1
<1> HIDE DEF w
<1>5. /\ worker' \in [Instance -> WorkerType]
      /\ worker'[i] = w
      /\ \A j \in Instance \ {i} : worker'[j] = worker[j]
  BY <1>2, <1>3, <1>4, OneWorker
<1>6. UNCHANGED <<row, last, floor, holder>> /\ budget' \in BudgetType
  BY <1>2 DEF BrokerConnects, BrokerDrops, TypeOK, BudgetType
<1>7. TypeOK'
  BY <1>2, <1>5, <1>6 DEF TypeOK
<1>8. CursorLocked' /\ PublishersDisjoint'
  BY <1>3, <1>5, <1>6 DEF OutboxInv, CursorLocked, PublishersDisjoint, InStatement, Me
<1>9. RowsConsistent' /\ DeliveredIsDense' /\ FloorCoversDeleted'
  BY <1>6 DEF OutboxInv, RowsConsistent, DeliveredIsDense, Delivered, FloorCoversDeleted
<1> QED
  BY <1>7, <1>8, <1>9 DEF OutboxInv

(* PostgreSQL rolls the statement of a dead process back. *)
LEMMA CrashInv ==
    ASSUME OutboxInv, NEW i \in Instance, CrashAndRestart(i)
    PROVE  OutboxInv'
<1>1. worker[i].life + 1 \in Nat
  BY DEF OutboxInv, TypeOK, WorkerType
<1>2. /\ StartedWorker(worker[i].life + 1) \in WorkerType
      /\ StartedWorker(worker[i].life + 1).step = "idle"
  BY <1>1 DEF StartedWorker, WorkerType, Steps
<1>3. budget' \in BudgetType
  BY DEF CrashAndRestart, OutboxInv, TypeOK, BudgetType
<1> QED
  BY <1>2, <1>3, WorkerLeavesStatement DEF CrashAndRestart

-----------------------------------------------------------------------------
(* The theorems                                                            *)

LEMMA StepInv == OutboxInv /\ [Next]_vars => OutboxInv'
<1> SUFFICES ASSUME OutboxInv, [Next]_vars PROVE OutboxInv'
  OBVIOUS
<1>1. CASE \E e \in Event : Enqueue(e)
  BY <1>1, EnqueueInv
<1>2. CASE \E i \in Instance : ClaimPendingEvents(i)
  BY <1>2, ClaimInv
<1>3. CASE \E i \in Instance : LockCandidates(i)
  BY <1>3, LockInv
<1>4. CASE \E i \in Instance : ReserveRange(i)
  BY <1>4, ReserveInv
<1>5. CASE \E i \in Instance : CommitPublication(i) \/ CommitUnacknowledged(i)
  <2>1. PICK i \in Instance : CommitPublication(i) \/ CommitUnacknowledged(i)
    BY <1>5
  <2>2. worker[i] \in WorkerType /\ budget' \in BudgetType
    BY <2>1 DEF OutboxInv, TypeOK, BudgetType, CommitPublication, CommitUnacknowledged
  <2>3. PICK w \in {AfterAttempt(worker[i]), AfterError(worker[i])} :
           worker' = [worker EXCEPT ![i] = w]
    BY <2>1 DEF CommitPublication, CommitUnacknowledged
  <2>4. w \in WorkerType /\ w.step \notin {"reserve", "commit"}
    BY <2>2, <2>3, AttemptsEnd
  <2>5. /\ worker[i].step = "commit" /\ PublishRows(i)
        /\ holder' = NoInstance /\ floor' = floor
    BY <2>1 DEF CommitPublication, CommitUnacknowledged
  <2> QED
    BY <2>2, <2>3, <2>4, <2>5, PublishInv
<1>6. CASE \E i \in Instance : FailToStart(i) \/ FailPublication(i) \/ FailToRecord(i)
  BY <1>6, FailureInv
<1>7. CASE \E i \in Instance : RecordPublishFailure(i)
  BY <1>7, RecordInv
<1>8. CASE CleanupExpiredEvents
  BY <1>8, CleanupInv
<1>9. CASE \E e \in Event : LeaseLapses(e) \/ BackoffElapses(e) \/ RetentionElapses(e)
  BY <1>9, TimeInv
<1>10. CASE \E i \in Instance : BrokerConnects(i) \/ BrokerDrops(i)
  BY <1>10, BrokerInv
<1>11. CASE \E i \in Instance : CrashAndRestart(i)
  BY <1>11, CrashInv
<1>12. CASE UNCHANGED vars
  BY <1>12 DEF vars, OutboxInv, TypeOK, RowsConsistent, CursorLocked, PublishersDisjoint,
               InStatement, Me, DeliveredIsDense, Delivered, FloorCoversDeleted
<1> QED
  BY <1>1, <1>2, <1>3, <1>4, <1>5, <1>6, <1>7, <1>8, <1>9, <1>10, <1>11, <1>12
     DEF Next, WorkerStep

(* Whatever the interleaving of claims, publications, failures, crashes
   and cleanups, the inductive invariant holds. *)
THEOREM OutboxInvariant == Spec => []OutboxInv
<1>1. Init => OutboxInv
  BY InitInv
<1>2. OutboxInv /\ [Next]_vars => OutboxInv'
  BY StepInv
<1> QED
  BY <1>1, <1>2, PTL DEF Spec

(* The outbox rows, the cursor and the workers keep their types; in
   particular no row is ever charged more than MaxAttempts attempts. *)
THEOREM TypeCorrect == Spec => []TypeOK
<1>1. OutboxInv => TypeOK
  BY DEF OutboxInv
<1> QED
  BY <1>1, OutboxInvariant, PTL

(* publishClaimedEvents hands out the sequences 1..last_sequence, each to
   one event, with no hole and no duplicate. *)
THEOREM SequencesAreDense == Spec => []DeliveredIsDense
<1>1. OutboxInv => DeliveredIsDense
  BY DEF OutboxInv
<1> QED
  BY <1>1, OutboxInvariant, PTL

(* Two instances are never inside a publishing statement for the same row,
   even when one holds a lapsed lease. *)
THEOREM NoRowPublishedTwiceAtOnce == Spec => []PublishersDisjoint
<1>1. OutboxInv => PublishersDisjoint
  BY DEF OutboxInv
<1> QED
  BY <1>1, OutboxInvariant, PTL

(* Every sequence whose row cleanup deleted lies at or below replay_floor. *)
THEOREM FloorIsSafe == Spec => []FloorCoversDeleted
<1>1. OutboxInv => FloorCoversDeleted
  BY DEF OutboxInv
<1> QED
  BY <1>1, OutboxInvariant, PTL

(* The log the streams read has no hole a replay could skip: sequences are *)
(* numbered without gaps, and what is gone lies below replay_floor.        *)
THEOREM LogStaysWhole == Spec => []LogIsWhole
<1>1. OutboxInv => LogIsWhole
  BY DEF OutboxInv, LogIsWhole
<1> QED
  BY <1>1, OutboxInvariant, PTL

-----------------------------------------------------------------------------
(* What a step may do to a row, whatever the invariant it preserves.       *)

LEMMA SettledStep ==
    ASSUME OutboxInv, [Next]_vars, NEW e \in Event
    PROVE  /\ row[e].state \in {"published", "deleted"} =>
                row'[e].seq = row[e].seq /\ row'[e].state \in {row[e].state, "deleted"}
           /\ row[e].state = "dead" => row'[e] = row[e]
<1> USE DEF OutboxInv
<1> SUFFICES ASSUME row[e].state \in {"published", "deleted", "dead"}, row'[e] # row[e]
             PROVE  /\ row[e].state \in {"published", "deleted"}
                    /\ row'[e].seq = row[e].seq
                    /\ row'[e].state \in {row[e].state, "deleted"}
  OBVIOUS
<1>1. row[e] \in RowType /\ row[e].lease = "none"
  BY DEF TypeOK, RowsConsistent
<1>2. CASE \E d \in Event : Enqueue(d)
  BY <1>2 DEF Enqueue, TypeOK
<1>3. CASE \E i \in Instance : ClaimPendingEvents(i)
  BY <1>3 DEF ClaimPendingEvents, Batches, Claimable
<1>4. CASE \E i \in Instance : CommitPublication(i) \/ CommitUnacknowledged(i)
  <2>1. PICK i \in Instance : worker[i].step = "commit" /\ PublishRows(i)
    BY <1>4 DEF CommitPublication, CommitUnacknowledged
  <2>2. e \notin worker[i].rows
    BY <2>1 DEF PublishersDisjoint, InStatement
  <2> QED
    BY <2>1, <2>2 DEF PublishRows
<1>5. CASE \E i \in Instance : RecordPublishFailure(i)
  BY <1>5 DEF RecordPublishFailure, Chargeable
<1>6. CASE CleanupExpiredEvents
  <2>1. row[e].state = "published" /\ row'[e] = [row[e] EXCEPT !.state = "deleted"]
    BY <1>6 DEF CleanupExpiredEvents, Batches, ExpiredRows
  <2> QED
    BY <1>1, <2>1 DEF RowType
<1>7. CASE \E d \in Event : LeaseLapses(d) \/ BackoffElapses(d) \/ RetentionElapses(d)
  <2>1. PICK d \in Event : LeaseLapses(d) \/ BackoffElapses(d) \/ RetentionElapses(d)
    BY <1>7
  <2>2. d = e
    BY <2>1 DEF LeaseLapses, BackoffElapses, RetentionElapses, TypeOK
  <2>3. RetentionElapses(e)
    BY <1>1, <2>1, <2>2 DEF LeaseLapses, BackoffElapses
  <2>4. row[e].state = "published" /\ row'[e] = [row[e] EXCEPT !.expired = TRUE]
    BY <2>3 DEF RetentionElapses, TypeOK
  <2> QED
    BY <1>1, <2>4 DEF RowType
<1>8. CASE UNCHANGED row
  BY <1>8
<1> QED
  BY <1>2, <1>3, <1>4, <1>5, <1>6, <1>7, <1>8
     DEF Next, WorkerStep, vars, LockCandidates, ReserveRange, FailToStart, FailPublication,
         FailToRecord, BrokerConnects, BrokerDrops, CrashAndRestart

(* A published event is never published again under another sequence, not
   even after a commit whose acknowledgement was lost, and a dead letter
   stays one. *)
THEOREM SettledRowsStaySettled == Spec => SettledForever
<1>1. OutboxInv /\ [Next]_vars =>
        [\A e \in Event :
           /\ row[e].state \in {"published", "deleted"} =>
                row'[e].seq = row[e].seq /\ row'[e].state \in {row[e].state, "deleted"}
           /\ row[e].state = "dead" => row'[e] = row[e]]_vars
  BY SettledStep
<1> QED
  BY <1>1, OutboxInvariant, PTL DEF Spec, SettledForever

LEMMA ChargeStep ==
    ASSUME OutboxInv, [Next]_vars, NEW e \in Event, row'[e].attempts # row[e].attempts
    PROVE  \E i \in Instance : row[e].owner = Me(i) /\ e \in worker[i].rows
<1> USE DEF OutboxInv
<1>1. row[e] \in RowType
  BY DEF TypeOK
<1>2. CASE \E d \in Event : Enqueue(d)
  <2>1. row'[e] = row[e] \/ row'[e] = [row[e] EXCEPT !.state = "pending", !.due = TRUE]
    BY <1>2 DEF Enqueue, TypeOK
  <2> QED
    BY <1>1, <2>1 DEF RowType
<1>3. CASE \E i \in Instance : ClaimPendingEvents(i)
  <2>1. PICK i \in Instance : ClaimPendingEvents(i)
    BY <1>3
  <2>2. \/ row'[e] = row[e]
        \/ row'[e] = [row[e] EXCEPT !.owner = Me(i), !.lease = "live"]
    BY <2>1 DEF ClaimPendingEvents
  <2> QED
    BY <1>1, <2>2 DEF RowType
<1>4. CASE \E i \in Instance : CommitPublication(i) \/ CommitUnacknowledged(i)
  <2>1. PICK i \in Instance : worker[i].step = "commit" /\ PublishRows(i)
    BY <1>4 DEF CommitPublication, CommitUnacknowledged
  <2>2. e \in worker[i].rows
    BY <2>1 DEF PublishRows
  <2> QED
    BY <2>1, <2>2 DEF PublishersDisjoint, InStatement
<1>5. CASE \E i \in Instance : RecordPublishFailure(i)
  BY <1>5 DEF RecordPublishFailure, Chargeable
<1>6. CASE CleanupExpiredEvents
  <2>1. row'[e] = row[e] \/ row'[e] = [row[e] EXCEPT !.state = "deleted"]
    BY <1>6 DEF CleanupExpiredEvents
  <2> QED
    BY <1>1, <2>1 DEF RowType
<1>7. CASE \E d \in Event : LeaseLapses(d) \/ BackoffElapses(d) \/ RetentionElapses(d)
  <2>1. row'[e] \in {row[e], [row[e] EXCEPT !.lease = "lapsed"],
                     [row[e] EXCEPT !.due = TRUE], [row[e] EXCEPT !.expired = TRUE]}
    BY <1>7 DEF LeaseLapses, BackoffElapses, RetentionElapses, TypeOK
  <2> QED
    BY <1>1, <2>1 DEF RowType
<1>8. CASE UNCHANGED row
  BY <1>8
<1> QED
  BY <1>2, <1>3, <1>4, <1>5, <1>6, <1>7, <1>8
     DEF Next, WorkerStep, vars, LockCandidates, ReserveRange, FailToStart, FailPublication,
         FailToRecord, BrokerConnects, BrokerDrops, CrashAndRestart

(* recordPublishFailure and the publishing statement count an attempt only
   against a row whose claim is the worker's own. *)
THEOREM AttemptsAreCharged == Spec => ChargedByItsClaimant
<1>1. OutboxInv /\ [Next]_vars =>
        [\A e \in Event :
           row'[e].attempts # row[e].attempts =>
             \E i \in Instance : row[e].owner = Me(i) /\ e \in worker[i].rows]_vars
  BY ChargeStep
<1> QED
  BY <1>1, OutboxInvariant, PTL DEF Spec, ChargedByItsClaimant

-----------------------------------------------------------------------------
(* Refinement                                                              *)

LEMMA LogStep ==
    ASSUME OutboxInv, [Next]_vars
    PROVE  [Log!LogNext]_(Log!logVars)
<1> USE DEF OutboxInv
<1> DEFINE pos == [e \in Event |-> row[e].seq]
<1>1. CASE \E i \in Instance : CommitPublication(i) \/ CommitUnacknowledged(i)
  <2>1. PICK i \in Instance : /\ worker[i].step = "commit"
                              /\ PublishRows(i)
                              /\ floor' = floor
    BY <1>1 DEF CommitPublication, CommitUnacknowledged
  <2>0. PICK S \in SUBSET Event : S = worker[i].rows
    BY DEF TypeOK, WorkerType
  <2>2. /\ S # {} /\ worker[i].base = last
        /\ \A e \in S : row[e].state = "pending"
    BY <2>0, <2>1 DEF CursorLocked, PublishersDisjoint, InStatement
  <2>3. PICK num \in Numberings(S, last) :
           row' = [e \in Event |->
                     IF e \in S
                       THEN [row[e] EXCEPT !.state = "published", !.lease = "none",
                                           !.attempts = @ + 1, !.seq = num[e]]
                       ELSE row[e]]
    BY <2>0, <2>1, <2>2 DEF PublishRows
  <2>4. last' = last + Cardinality(S)
    BY <2>0, <2>1, <2>2 DEF PublishRows
  <2>6. \A e \in S : pos[e] = 0
    BY <2>2 DEF RowsConsistent
  <2>7. \A e \in Event : row'[e].seq = IF e \in S THEN num[e] ELSE pos[e]
    BY <2>3 DEF TypeOK, RowType
  <2>8. pos' = [e \in Event |-> IF e \in S THEN num[e] ELSE pos[e]]
    BY <2>7
  <2>9. last' \in Nat /\ last' > last
    <3>1. Cardinality(S) \in Nat /\ Cardinality(S) # 0 /\ last \in Nat
      BY <2>2, SubsetsAreCounted, FS_EmptySet DEF TypeOK
    <3> QED
      BY <2>4, <3>1
  <2>10. /\ num \in [S -> (last + 1)..last']
         /\ \A d, e \in S : num[d] = num[e] => d = e
         /\ \A n \in (last + 1)..last' : \E e \in S : num[e] = n
    BY <2>2, <2>4, NumberingIsExact DEF TypeOK
  <2>11. Log!AppendBatch(S)
    BY <2>1, <2>2, <2>6, <2>8, <2>9, <2>10 DEF Log!AppendBatch
  <2>12. \E batch \in SUBSET Event : Log!AppendBatch(batch)
    BY <2>2, <2>11
  <2>13. Log!LogNext
    BY <2>12 DEF Log!LogNext
  <2> QED
    BY <2>13
<1>2. CASE CleanupExpiredEvents
  <2>1. floor' \in Nat /\ floor \in Nat /\ last \in Nat /\ floor <= floor' /\ floor' <= last
    BY <1>2, CleanupInv DEF TypeOK
  <2>2. last' = last /\ \A e \in Event : row'[e].seq = row[e].seq
    BY <1>2 DEF CleanupExpiredEvents, TypeOK, RowType
  <2>3. pos' = pos
    BY <2>2
  <2>4. CASE floor' = floor
    BY <2>2, <2>3, <2>4 DEF Log!logVars
  <2>5. CASE floor' # floor
    BY <2>1, <2>2, <2>3, <2>5 DEF Log!LogNext, Log!Trim
  <2> QED
    BY <2>4, <2>5
<1>3. CASE /\ UNCHANGED <<last, floor>>
           /\ \A e \in Event : row'[e].seq = row[e].seq
  BY <1>3 DEF Log!logVars
<1>4. CASE \E e \in Event : Enqueue(e)
  <2>1. \A e \in Event :
           row'[e] \in {row[e], [row[e] EXCEPT !.state = "pending", !.due = TRUE]}
    BY <1>4 DEF Enqueue, TypeOK
  <2>2. \A e \in Event : row'[e].seq = row[e].seq
    BY <2>1 DEF TypeOK, RowType
  <2> QED
    BY <1>3, <1>4, <2>2 DEF Enqueue
<1>5. CASE \E i \in Instance : ClaimPendingEvents(i)
  <2>1. PICK i \in Instance : ClaimPendingEvents(i)
    BY <1>5
  <2>2. \A e \in Event :
           row'[e] = row[e] \/ row'[e] = [row[e] EXCEPT !.owner = Me(i), !.lease = "live"]
    BY <2>1 DEF ClaimPendingEvents
  <2>3. \A e \in Event : row[e] \in RowType
    BY DEF TypeOK
  <2>4. \A e \in Event : row'[e].seq = row[e].seq
    BY <2>2, <2>3 DEF RowType
  <2>5. UNCHANGED <<last, floor>>
    BY <2>1 DEF ClaimPendingEvents
  <2> QED
    BY <1>3, <2>4, <2>5
<1>6. CASE \E i \in Instance : RecordPublishFailure(i)
  <2>1. PICK i \in Instance : RecordPublishFailure(i)
    BY <1>6
  <2>2. \A e \in Event : row'[e] = row[e] \/ row'[e] = Charged(row[e])
    BY <2>1 DEF RecordPublishFailure
  <2>3. \A e \in Event : row[e] \in RowType
    BY DEF TypeOK
  <2>4. \A e \in Event : row'[e].seq = row[e].seq
    BY <2>2, <2>3 DEF RowType, Charged
  <2>5. UNCHANGED <<last, floor>>
    BY <2>1 DEF RecordPublishFailure
  <2> QED
    BY <1>3, <2>4, <2>5
<1>7. CASE \E e \in Event : LeaseLapses(e) \/ BackoffElapses(e) \/ RetentionElapses(e)
  <2>1. \A e \in Event :
           row'[e] \in {row[e], [row[e] EXCEPT !.lease = "lapsed"],
                        [row[e] EXCEPT !.due = TRUE], [row[e] EXCEPT !.expired = TRUE]}
    BY <1>7 DEF LeaseLapses, BackoffElapses, RetentionElapses, TypeOK
  <2>2. \A e \in Event : row'[e].seq = row[e].seq
    BY <2>1 DEF TypeOK, RowType
  <2> QED
    BY <1>3, <1>7, <2>2 DEF LeaseLapses, BackoffElapses, RetentionElapses
<1>8. CASE UNCHANGED <<row, last, floor>>
  BY <1>3, <1>8
<1> QED
  BY <1>1, <1>2, <1>4, <1>5, <1>6, <1>7, <1>8
     DEF Next, WorkerStep, vars, LockCandidates, ReserveRange, FailToStart, FailPublication,
         FailToRecord, BrokerConnects, BrokerDrops, CrashAndRestart

(* The outbox implements the append-only log its readers rely on. *)
THEOREM OutboxImplementsLog == Spec => ImplementsDeliveryLog
<1>1. Init => Log!LogInit
  BY DEF Init, AbsentRow, Log!LogInit
<1>2. OutboxInv /\ [Next]_vars => [Log!LogNext]_(Log!logVars)
  BY LogStep
<1> QED
  BY <1>1, <1>2, OutboxInvariant, PTL DEF Spec, ImplementsDeliveryLog, Log!LogSpec
=============================================================================
