---------------------- MODULE AttendanceCaptureProofs ----------------------
(***************************************************************************)
(* Proofs about AttendanceCapture: whichever uploads, decisions and deaths *)
(* of requests race, every capture is where its status says it is.         *)
(***************************************************************************)
EXTENDS AttendanceCapture, TLAPS

Settled == {"accepted", "rejected"}

(* A case is opened with the quarantine of its batch, and is closed only   *)
(* once the batch is settled.                                              *)
CasesFollowBatches ==
    \A c \in Capture :
        /\ review[c] # "none" => batch[c] \in Settled \union {"quarantined"}
        /\ review[c] \in Settled => batch[c] \in Settled

(* What a request has done so far is in the rows. *)
Recorded == {"received", "passed", "failed", "saved", "done"}

RequestIsTrue(r) ==
    /\ call[r].stage = "free" => call[r].by = "nobody"
    /\ call[r].by # "nobody" => call[r].capture \in Capture
    /\ call[r].by \in Upload => taker[call[r].capture] \in User
    /\ call[r].by \in Upload /\ call[r].stage \in Recorded => batch[call[r].capture] # "none"
    /\ call[r].by # "nobody" /\ call[r].stage \in {"saved", "applied"}
          => call[r].capture \in published

RequestsAreTrue ==
    /\ submitted \subseteq published
    /\ \A r \in Request : RequestIsTrue(r)

(* A device queues captures of its own. *)
QueuesAreOwn == \A u \in User : slot[u] # NoCapture => taker[slot[u]] = u

CaptureInv ==
    /\ TypeOK
    /\ CasesFollowBatches /\ RequestsAreTrue /\ QueuesAreOwn
    /\ CapturesAreAccountedFor

LEMMA CaptureInitInv == Init => CaptureInv
BY CaptureAssumption, NoUserAssumption
   DEF Init, CaptureInv, TypeOK, CasesFollowBatches, RequestsAreTrue, QueuesAreOwn,
       CapturesAreAccountedFor, QuarantinedIsOpen, AcceptedIsPublished, NothingIsDropped, Idle,
       RequestIsTrue,
       CallType, Upload, Status, Settled

(* How a step changes the requests. *)
LEMMA RequestMoves ==
    ASSUME TypeOK, NEW r \in Request, NEW stage, MovesTo(r, stage)
    PROVE  /\ \A q \in Request \ {r} : call'[q] = call[q]
           /\ call'[r] = [call[r] EXCEPT !.stage = stage]
           /\ call'[r].by = call[r].by /\ call'[r].capture = call[r].capture
           /\ call'[r].stage = stage
BY DEF TypeOK, MovesTo, CallType

Stages ==
    {"free", "sent", "received", "passed", "failed", "saved", "done", "applying", "applied", "lost"}

LEMMA MovedIsTyped ==
    ASSUME TypeOK, NEW r \in Request, NEW stage \in Stages, MovesTo(r, stage)
    PROVE  call' \in [Request -> CallType]
BY DEF TypeOK, MovesTo, CallType, Stages

LEMMA IdleIsTyped == Idle \in CallType
BY CaptureAssumption DEF Idle, CallType

(* A request that ends, or loses whoever waited for it. *)
Ends(r) == call' = [call EXCEPT ![r] = Idle]
Orphaned(r) == call' = [call EXCEPT ![r] = [@ EXCEPT !.by = "orphan"]]

LEMMA GivenUp ==
    ASSUME NEW r \in Request,
           call' = [call EXCEPT ![r] = IF @.stage = "lost" THEN Idle ELSE [@ EXCEPT !.by = "orphan"]]
    PROVE  Ends(r) \/ Orphaned(r)
BY DEF Ends, Orphaned

LEMMA EndedOrOrphaned ==
    ASSUME TypeOK, NEW r \in Request, Ends(r) \/ Orphaned(r)
    PROVE  /\ call' \in [Request -> CallType]
           /\ \A q \in Request \ {r} : call'[q] = call[q]
           /\ \/ call'[r] = Idle
              \/ /\ call'[r].by = "orphan" /\ call'[r].capture = call[r].capture
                 /\ call'[r].stage = call[r].stage
<1>1. CASE Ends(r)
  BY <1>1, IdleIsTyped DEF Ends, TypeOK
<1>2. CASE Orphaned(r)
  BY <1>2 DEF Orphaned, TypeOK, CallType, Upload
<1> QED
  BY <1>1, <1>2

LEMMA PublishedGrows ==
    ASSUME TypeOK, NEW c \in Capture, Publishes(c)
    PROVE  /\ revision' \in Nat
           /\ published' \subseteq Capture /\ published \subseteq published' /\ c \in published'
BY DEF TypeOK, Publishes

LEMMA TypeStep == CaptureInv /\ [Next]_cvars => TypeOK'
<1> SUFFICES ASSUME CaptureInv, [Next]_cvars PROVE TypeOK'
  OBVIOUS
<1> USE CaptureAssumption, BoundsAssumption DEF CaptureInv, TypeOK, server, device
<1>0. ASSUME NEW r \in Request, NEW by \in Upload \union {"review"}, NEW c \in Capture,
             NEW stage \in Stages, NEW at \in Nat, Starts(r, by, c, stage, at)
      PROVE  call' \in [Request -> CallType]
  BY <1>0 DEF Starts, CallType, Stages
<1>1. ASSUME NEW u \in User, NEW r \in Request, Sync(u, r) PROVE TypeOK'
  <2>1. slot[u] \in Capture /\ base[slot[u]] \in Nat
    BY <1>1 DEF Sync
  <2> QED
    BY <1>0, <1>1, <2>1 DEF Sync, Upload, Stages
<1>2. ASSUME NEW u \in User, NEW c \in Capture, NEW r \in Request, Take(u, c, r) PROVE TypeOK'
  <2>1. PICK at \in 0..revision : Takes(u, c, at) /\ Starts(r, "live", c, "sent", at)
    BY <1>2 DEF Take
  <2> QED
    BY <1>0, <1>2, <2>1 DEF Take, Takes, Upload, Stages
<1>3. ASSUME NEW u \in User, NEW c \in Capture, TakeOffline(u, c) PROVE TypeOK'
  <2>1. PICK at \in 0..revision : Takes(u, c, at)
    BY <1>3 DEF TakeOffline
  <2> QED
    <3>1. taker' \in [Capture -> User \union {NoUser}] /\ base' \in [Capture -> Nat]
      BY <2>1 DEF Takes
    <3>2. slot' \in [User -> Capture \union {NoCapture}] /\ forgotten' \subseteq Capture
      BY <1>3 DEF TakeOffline, Queues
    <3> QED
      BY <1>3, <3>1, <3>2 DEF TakeOffline
<1>4. ASSUME NEW r \in Request, Queue(r) \/ SyncGivesUp(r) PROVE TypeOK'
  <2>1. call' \in [Request -> CallType]
    BY <1>4, GivenUp, EndedOrOrphaned DEF Queue, SyncGivesUp
  <2>2. call[r].by = "live" => call[r].capture \in Capture /\ taker[call[r].capture] \in User
    BY DEF RequestsAreTrue, RequestIsTrue, Upload
  <2>3. faults' \in Nat /\ UNCHANGED <<server, taker, base>>
    BY <1>4 DEF Queue, SyncGivesUp, Fault
  <2>4. slot' \in [User -> Capture \union {NoCapture}] /\ forgotten' \subseteq Capture
    BY <1>4, <2>2 DEF Queue, SyncGivesUp, Queues
  <2> QED
    BY <2>1, <2>3, <2>4
<1>5. ASSUME NEW r \in Request, Answer(r) PROVE TypeOK'
  <2>1. call' \in [Request -> CallType]
    BY <1>5, EndedOrOrphaned DEF Answer, Ends
  <2>2. taker[call[r].capture] \in User
    BY <1>5 DEF Answer, At, RequestsAreTrue, RequestIsTrue, Upload
  <2> QED
    BY <1>5, <2>1, <2>2 DEF Answer
<1>6. ASSUME NEW r \in Request, Vanish(r) PROVE TypeOK'
  BY <1>6, EndedOrOrphaned DEF Vanish, Ends
<1>7. ASSUME NEW r \in Request, Receive(r) PROVE TypeOK'
  <2>1. call' \in [Request -> CallType]
    BY <1>7, MovedIsTyped DEF Receive, Stages
  <2> QED
    BY <1>7, <2>1 DEF Receive, Status
<1>8. ASSUME NEW r \in Request, Check(r) \/ SaveConflicts(r) \/ Die(r) PROVE TypeOK'
  <2>1. call' \in [Request -> CallType]
    BY <1>8, MovedIsTyped DEF Check, SaveConflicts, Die, Stages
  <2>2. faults' \in Nat
    BY <1>8 DEF Check, SaveConflicts, Die, Fault
  <2>3. UNCHANGED <<server, device>>
    BY <1>8 DEF Check, SaveConflicts, Die
  <2> QED
    BY <2>1, <2>2, <2>3
<1>9. ASSUME NEW r \in Request, Quarantine(r) PROVE TypeOK'
  <2>1. call' \in [Request -> CallType]
    BY <1>9, MovedIsTyped DEF Quarantine, Stages
  <2> QED
    BY <1>9, <2>1 DEF Quarantine, Status
<1>10. ASSUME NEW r \in Request, SaveCapture(r) PROVE TypeOK'
  <2>1. call' \in [Request -> CallType]
    BY <1>10, MovedIsTyped DEF SaveCapture, Stages
  <2>2. call[r].capture \in Capture
    BY <1>10 DEF SaveCapture, At, RequestsAreTrue, RequestIsTrue, Upload
  <2> QED
    BY <1>10, <2>1, <2>2, PublishedGrows DEF SaveCapture
<1>11. ASSUME NEW r \in Request, Accept(r) PROVE TypeOK'
  <2>1. call' \in [Request -> CallType]
    BY <1>11, MovedIsTyped DEF Accept, Stages
  <2> QED
    BY <1>11, <2>1 DEF Accept, Status
<1>12. CASE Correct
  BY <1>12 DEF Correct
<1>13. ASSUME NEW c \in Capture, Reject(c) PROVE TypeOK'
  BY <1>13 DEF Reject, Status
<1>14. ASSUME NEW c \in Capture, NEW r \in Request, Apply(c, r) PROVE TypeOK'
  BY <1>0, <1>14 DEF Apply, Stages
<1>15. ASSUME NEW r \in Request, SaveReview(r) PROVE TypeOK'
  <2>1. call' \in [Request -> CallType]
    BY <1>15, MovedIsTyped DEF SaveReview, Stages
  <2>2. call[r].capture \in Capture
    BY <1>15 DEF SaveReview, At, RequestsAreTrue, RequestIsTrue
  <2> QED
    BY <1>15, <2>1, <2>2, PublishedGrows DEF SaveReview
<1>16. ASSUME NEW r \in Request, AcceptReview(r) PROVE TypeOK'
  <2>1. call' \in [Request -> CallType]
    BY <1>16, EndedOrOrphaned DEF AcceptReview, Ends
  <2> QED
    BY <1>16, <2>1 DEF AcceptReview, Status
<1>17. CASE UNCHANGED cvars
  BY <1>17 DEF cvars
<1> QED
  BY <1>1, <1>2, <1>3, <1>4, <1>5, <1>6, <1>7, <1>8, <1>9, <1>10, <1>11, <1>12, <1>13, <1>14,
     <1>15, <1>16, <1>17 DEF Next, Serve

(* Batches and cases change only for the capture of the step.              *)
LEMMA CasesStep == CaptureInv /\ [Next]_cvars => CasesFollowBatches' /\ QuarantinedIsOpen'
<1> SUFFICES ASSUME CaptureInv, [Next]_cvars PROVE CasesFollowBatches' /\ QuarantinedIsOpen'
  OBVIOUS
<1> USE DEF CaptureInv, TypeOK, CapturesAreAccountedFor, CasesFollowBatches, QuarantinedIsOpen,
            Settled, Status
<1>1. ASSUME NEW r \in Request, Receive(r) PROVE CasesFollowBatches' /\ QuarantinedIsOpen'
  BY <1>1 DEF Receive
<1>2. ASSUME NEW r \in Request, Quarantine(r) PROVE CasesFollowBatches' /\ QuarantinedIsOpen'
  BY <1>2 DEF Quarantine
<1>3. ASSUME NEW r \in Request, Accept(r) PROVE CasesFollowBatches' /\ QuarantinedIsOpen'
  BY <1>3 DEF Accept
<1>4. ASSUME NEW c \in Capture, Reject(c) PROVE CasesFollowBatches' /\ QuarantinedIsOpen'
  BY <1>4 DEF Reject
<1>5. ASSUME NEW r \in Request, AcceptReview(r) PROVE CasesFollowBatches' /\ QuarantinedIsOpen'
  BY <1>5 DEF AcceptReview
<1>6. CASE UNCHANGED <<batch, review>>
  BY <1>6
<1>7. CASE \E u \in User, r \in Request : Sync(u, r) \/ \E c \in Capture : Take(u, c, r)
  BY <1>6, <1>7 DEF Sync, Take, server
<1>8. CASE \E u \in User, c \in Capture : TakeOffline(u, c)
  BY <1>6, <1>8 DEF TakeOffline, server
<1>9. ASSUME NEW r \in Request,
             Queue(r) \/ SyncGivesUp(r) \/ Answer(r) \/ Vanish(r) \/ Die(r)
                \/ Check(r) \/ SaveCapture(r) \/ SaveConflicts(r) \/ SaveReview(r)
      PROVE UNCHANGED <<batch, review>>
  BY <1>9 DEF Queue, SyncGivesUp, Answer, Vanish, Die, Check, SaveCapture, SaveConflicts, SaveReview,
              server
<1>10. CASE (\E c \in Capture, r \in Request : Apply(c, r)) \/ Correct \/ UNCHANGED cvars
  BY <1>6, <1>10 DEF Apply, Correct, cvars, server
<1> QED
  BY <1>1, <1>2, <1>3, <1>4, <1>5, <1>6, <1>7, <1>8, <1>9, <1>10 DEF Next, Serve

(* Nothing recorded is taken back. *)
LEMMA RowsGrow ==
    CaptureInv /\ [Next]_cvars =>
        /\ published \subseteq published' /\ forgotten \subseteq forgotten'
        /\ \A c \in Capture : batch[c] # "none" => batch'[c] # "none"
        /\ \A c \in Capture : taker[c] \in User => taker'[c] = taker[c]
        /\ \A c \in Capture : batch[c] = "accepted" => batch'[c] = "accepted"
<1> DEFINE Grow ==
        /\ published \subseteq published' /\ forgotten \subseteq forgotten'
        /\ \A c \in Capture : batch[c] # "none" => batch'[c] # "none"
        /\ \A c \in Capture : taker[c] \in User => taker'[c] = taker[c]
        /\ \A c \in Capture : batch[c] = "accepted" => batch'[c] = "accepted"
<1> SUFFICES ASSUME CaptureInv, [Next]_cvars PROVE Grow
  OBVIOUS
<1> USE DEF CaptureInv, TypeOK, server, device
<1>1. CASE UNCHANGED <<published, forgotten, batch, taker>>
  BY <1>1
<1>2. ASSUME NEW u \in User, NEW c \in Capture, NEW at, Takes(u, c, at),
             UNCHANGED <<published, batch>>, forgotten \subseteq forgotten'
      PROVE Grow
  BY <1>2, NoUserAssumption DEF Takes
<1>3. ASSUME NEW u \in User, NEW c \in Capture, NEW r \in Request, Take(u, c, r) PROVE Grow
  BY <1>2, <1>3 DEF Take
<1>4. ASSUME NEW u \in User, NEW c \in Capture, TakeOffline(u, c) PROVE Grow
  BY <1>2, <1>4 DEF TakeOffline, Queues
<1>5. ASSUME NEW r \in Request, Queue(r) PROVE Grow
  BY <1>5 DEF Queue, Queues
<1>6. ASSUME NEW r \in Request, Answer(r) PROVE Grow
  BY <1>6 DEF Answer
<1>7. ASSUME NEW r \in Request, Receive(r) \/ Accept(r) PROVE Grow
  BY <1>7 DEF Receive, Accept
<1>8. ASSUME NEW r \in Request, Quarantine(r) PROVE Grow
  BY <1>8 DEF Quarantine
<1>9. ASSUME NEW r \in Request, SaveCapture(r) PROVE Grow
  BY <1>9 DEF SaveCapture, Publishes
<1>10. ASSUME NEW r \in Request, SaveReview(r) PROVE Grow
  BY <1>10 DEF SaveReview, Publishes
<1>11. ASSUME NEW r \in Request, AcceptReview(r) PROVE Grow
  BY <1>11 DEF AcceptReview
<1>12. ASSUME NEW c \in Capture, Reject(c) PROVE Grow
  BY <1>12 DEF Reject
<1>13. ASSUME NEW r \in Request,
              SyncGivesUp(r) \/ Vanish(r) \/ Die(r) \/ Check(r) \/ SaveConflicts(r)
       PROVE Grow
  BY <1>1, <1>13 DEF SyncGivesUp, Vanish, Die, Check, SaveConflicts
<1>14. CASE (\E c \in Capture, r \in Request : Apply(c, r)) \/ (\E u \in User, r \in Request : Sync(u, r))
              \/ Correct \/ UNCHANGED cvars
  BY <1>1, <1>14 DEF Apply, Sync, Correct, cvars
<1> QED
  BY <1>3, <1>4, <1>5, <1>6, <1>7, <1>8, <1>9, <1>10, <1>11, <1>12, <1>13, <1>14 DEF Next, Serve

LEMMA AcceptedStep == CaptureInv /\ [Next]_cvars => AcceptedIsPublished'
<1> SUFFICES ASSUME CaptureInv, [Next]_cvars, NEW c \in Capture, batch'[c] = "accepted"
             PROVE c \in published'
  BY DEF AcceptedIsPublished
<1> USE DEF CaptureInv, TypeOK, CapturesAreAccountedFor, AcceptedIsPublished, server, device
<1>1. published \subseteq published'
  BY RowsGrow
<1>2. CASE batch[c] = "accepted"
  BY <1>1, <1>2
<1>3. ASSUME NEW r \in Request, Accept(r), batch[c] # "accepted" PROVE c \in published'
  <2>1. c = call[r].capture /\ RequestIsTrue(r) /\ call[r].by \in Upload /\ call[r].stage = "saved"
    BY <1>3 DEF Accept, At, RequestsAreTrue
  <2> QED
    BY <1>1, <2>1 DEF RequestIsTrue, Upload
<1>4. ASSUME NEW r \in Request, AcceptReview(r), batch[c] # "accepted" PROVE c \in published'
  <2>1. c = call[r].capture /\ RequestIsTrue(r) /\ call[r].by = "review" /\ call[r].stage = "applied"
    BY <1>4 DEF AcceptReview, At, RequestsAreTrue
  <2> QED
    BY <1>1, <2>1 DEF RequestIsTrue
<1>5. ASSUME NEW r \in Request, Receive(r) \/ Quarantine(r), batch[c] # "accepted" PROVE FALSE
  BY <1>5 DEF Receive, Quarantine
<1>6. ASSUME NEW d \in Capture, Reject(d), batch[c] # "accepted" PROVE FALSE
  BY <1>6 DEF Reject
<1>7. CASE batch' = batch
  BY <1>1, <1>7
<1>8. ASSUME NEW u, NEW d, NEW r,
             \/ Sync(u, r) \/ Take(u, d, r) \/ TakeOffline(u, d) \/ Apply(d, r)
             \/ Queue(r) \/ SyncGivesUp(r) \/ Answer(r) \/ Vanish(r) \/ Die(r)
             \/ Check(r) \/ SaveCapture(r) \/ SaveConflicts(r) \/ SaveReview(r)
      PROVE batch' = batch
  BY <1>8 DEF Sync, Take, TakeOffline, Apply, Queue, SyncGivesUp, Answer, Vanish, Die, Check,
              SaveCapture, SaveConflicts, SaveReview
<1>9. CASE Correct \/ UNCHANGED cvars
  BY <1>7, <1>9 DEF Correct, cvars
<1> QED
  BY <1>2, <1>3, <1>4, <1>5, <1>6, <1>7, <1>8, <1>9 DEF Next, Serve

(* Requests that the step does not touch stay true. *)
LEMMA OtherRequests ==
    ASSUME CaptureInv, [Next]_cvars, NEW q \in Request, call'[q] = call[q]
    PROVE  RequestIsTrue(q)'
<1>1. RequestIsTrue(q)
  BY DEF CaptureInv, RequestsAreTrue
<1>2. call[q].by # "nobody" => call[q].capture \in Capture
  BY <1>1 DEF RequestIsTrue
<1> QED
  BY <1>1, <1>2, RowsGrow DEF RequestIsTrue, Upload

LEMMA IdleIsTrue ==
    ASSUME NEW r \in Request, call'[r] = Idle PROVE RequestIsTrue(r)'
BY DEF RequestIsTrue, Idle, Upload, Recorded

LEMMA RequestsStep == CaptureInv /\ [Next]_cvars => RequestsAreTrue'
<1> SUFFICES ASSUME CaptureInv, [Next]_cvars PROVE RequestsAreTrue'
  OBVIOUS
<1>0. TypeOK /\ submitted \subseteq published /\ \A q \in Request : RequestIsTrue(q)
  BY DEF CaptureInv, RequestsAreTrue
<1>1. submitted' \subseteq published'
  <2>1. submitted' = submitted => submitted' \subseteq published'
    BY <1>0, RowsGrow
  <2>2. ASSUME NEW r \in Request, SaveCapture(r) PROVE submitted' \subseteq published'
    BY <1>0, <2>2 DEF SaveCapture, Publishes
  <2>3. ASSUME NEW u, NEW c, NEW r,
               \/ Sync(u, r) \/ Take(u, c, r) \/ TakeOffline(u, c) \/ Apply(c, r) \/ Reject(c)
               \/ Queue(r) \/ SyncGivesUp(r) \/ Answer(r) \/ Vanish(r) \/ Die(r)
               \/ Receive(r) \/ Check(r) \/ Quarantine(r) \/ SaveConflicts(r) \/ Accept(r)
               \/ SaveReview(r) \/ AcceptReview(r)
        PROVE submitted' = submitted
    BY <2>3 DEF Sync, Take, TakeOffline, Apply, Reject, Queue, SyncGivesUp, Answer, Vanish, Die,
                Receive, Check, Quarantine, SaveConflicts, Accept, SaveReview, AcceptReview, server
  <2>4. CASE Correct \/ UNCHANGED cvars
    BY <2>1, <2>4 DEF Correct, cvars, server
  <2> QED
    BY <2>1, <2>2, <2>3, <2>4 DEF Next, Serve
<1> SUFFICES ASSUME NEW q \in Request, call'[q] # call[q] PROVE RequestIsTrue(q)'
  BY <1>1, OtherRequests DEF RequestsAreTrue
<1>2. ASSUME NEW r \in Request, NEW by \in Upload \union {"review"}, NEW c \in Capture,
             NEW stage \in {"sent", "applying"}, NEW at, Starts(r, by, c, stage, at),
             by \in Upload => taker'[c] \in User
      PROVE RequestIsTrue(q)'
  <2>1. q = r /\ call'[q] = [by |-> by, capture |-> c, stage |-> stage, at |-> at]
    BY <1>0, <1>2 DEF Starts, TypeOK
  <2> QED
    BY <1>2, <2>1 DEF RequestIsTrue, Recorded, Upload
<1>3. ASSUME NEW u \in User, NEW r \in Request, Sync(u, r) PROVE RequestIsTrue(q)'
  <2>1. slot[u] \in Capture /\ taker'[slot[u]] = u
    BY <1>0, <1>3 DEF Sync, CaptureInv, QueuesAreOwn, TypeOK, device
  <2> QED
    BY <1>2, <1>3, <2>1 DEF Sync, Upload
<1>4. ASSUME NEW u \in User, NEW c \in Capture, NEW r \in Request, Take(u, c, r)
      PROVE RequestIsTrue(q)'
  <2>1. PICK at \in 0..revision : Takes(u, c, at) /\ Starts(r, "live", c, "sent", at)
    BY <1>4 DEF Take
  <2>2. taker'[c] = u
    BY <1>0, <2>1 DEF Takes, TypeOK
  <2> QED
    BY <1>2, <2>1, <2>2 DEF Upload
<1>5. ASSUME NEW c \in Capture, NEW r \in Request, Apply(c, r) PROVE RequestIsTrue(q)'
  BY <1>2, <1>5 DEF Apply, Upload
<1>6. ASSUME NEW r \in Request, Ends(r) \/ Orphaned(r), call[r].by \in {"live", "sync"} \/ Ends(r)
      PROVE RequestIsTrue(q)'
  <2>1. q = r
    BY <1>0, <1>6, EndedOrOrphaned
  <2>2. CASE call'[r] = Idle
    BY <2>1, <2>2, IdleIsTrue
  <2>3. CASE call'[r] # Idle
    <3>1. call[r].by \in {"live", "sync"} /\ call'[r].by = "orphan"
          /\ call'[r].capture = call[r].capture /\ call'[r].stage = call[r].stage
      BY <1>0, <1>6, <2>3, EndedOrOrphaned DEF Ends, TypeOK
    <3>2. RequestIsTrue(r)
      BY <1>0
    <3> QED
      BY <2>1, <3>1, <3>2, RowsGrow DEF RequestIsTrue, Upload
  <2> QED
    BY <2>2, <2>3
<1>7. ASSUME NEW r \in Request,
             Queue(r) \/ SyncGivesUp(r) \/ Answer(r) \/ Vanish(r) \/ AcceptReview(r)
      PROVE RequestIsTrue(q)'
  BY <1>6, <1>7, GivenUp DEF Queue, SyncGivesUp, Answer, Vanish, AcceptReview, Ends
<1>8. ASSUME NEW r \in Request, NEW stage \in Stages \ {"free"}, MovesTo(r, stage),
             call[r].by # "nobody",
             call[r].by \in Upload /\ stage \in Recorded => batch'[call[r].capture] # "none",
             stage \in {"saved", "applied"} => call[r].capture \in published'
      PROVE RequestIsTrue(q)'
  <2>1. q = r /\ call'[r].by = call[r].by /\ call'[r].capture = call[r].capture
        /\ call'[r].stage = stage
    BY <1>0, <1>8, RequestMoves
  <2>2. RequestIsTrue(r)
    BY <1>0
  <2> QED
    BY <1>8, <2>1, <2>2, RowsGrow DEF RequestIsTrue, Upload
<1>9. ASSUME NEW r \in Request, Receive(r) PROVE RequestIsTrue(q)'
  <2>1. call[r].by \in Upload /\ call[r].by # "nobody" /\ call[r].capture \in Capture
    BY <1>0, <1>9 DEF Receive, At, RequestIsTrue, Upload
  <2>2. batch'[call[r].capture] # "none"
    BY <1>0, <1>9, <2>1 DEF Receive, TypeOK
  <2>3. MovesTo(r, "received") \/ MovesTo(r, "done")
    BY <1>9 DEF Receive
  <2> QED
    BY <1>8, <2>1, <2>2, <2>3 DEF Stages
<1>10. ASSUME NEW r \in Request, call[r].by \in Upload, call[r].stage \in Recorded
       PROVE  call[r].by # "nobody" /\ call[r].capture \in Capture
              /\ batch'[call[r].capture] # "none"
  BY <1>0, <1>10, RowsGrow DEF RequestIsTrue, Upload
<1>11. ASSUME NEW r \in Request,
              Check(r) \/ SaveConflicts(r) \/ Quarantine(r) \/ SaveCapture(r) \/ Accept(r)
       PROVE RequestIsTrue(q)'
  <2>1. call[r].by \in Upload /\ call[r].stage \in Recorded
    BY <1>11 DEF Check, SaveConflicts, Quarantine, SaveCapture, Accept, At, Recorded
  <2>2. PICK stage \in {"passed", "failed", "done", "saved"} :
            MovesTo(r, stage) /\ (stage = "saved" => SaveCapture(r))
    BY <1>11 DEF Check, SaveConflicts, Quarantine, SaveCapture, Accept
  <2>3. SaveCapture(r) => call[r].capture \in published'
    BY <1>0 DEF SaveCapture, Publishes
  <2> QED
    BY <1>8, <1>10, <2>1, <2>2, <2>3 DEF Stages
<1>12. ASSUME NEW r \in Request, SaveReview(r) PROVE RequestIsTrue(q)'
  <2>1. call[r].by = "review"
    BY <1>12 DEF SaveReview, At
  <2>2. PICK stage \in {"applied", "lost"} :
            MovesTo(r, stage) /\ (stage = "applied" => Publishes(call[r].capture))
    BY <1>12 DEF SaveReview
  <2> QED
    BY <1>8, <2>1, <2>2 DEF Stages, Upload, Publishes
<1>13. ASSUME NEW r \in Request, Die(r) PROVE RequestIsTrue(q)'
  <2>1. MovesTo(r, "lost") /\ call[r].stage \notin {"free", "lost", "done"}
    BY <1>13 DEF Die
  <2>2. CASE call[r].by # "nobody"
    BY <1>8, <2>1, <2>2 DEF Stages, Recorded
  <2>3. CASE call[r].by = "nobody"
    <3>1. q = r /\ call'[r].by = "nobody" /\ call'[r].stage = "lost"
      BY <1>0, <2>1, <2>3, RequestMoves
    <3> QED
      BY <3>1 DEF RequestIsTrue, Upload
  <2> QED
    BY <2>2, <2>3
<1>14. ASSUME NEW u, NEW c, TakeOffline(u, c) \/ Reject(c) \/ Correct \/ UNCHANGED cvars PROVE FALSE
  BY <1>14 DEF TakeOffline, Reject, Correct, cvars
<1> QED
  BY <1>3, <1>4, <1>5, <1>7, <1>9, <1>11, <1>12, <1>13, <1>14 DEF Next, Serve

(* Only three steps change a queue, each for a capture of its device.      *)
LEMMA QueueChanges ==
    ASSUME CaptureInv, [Next]_cvars, slot' # slot \/ forgotten' # forgotten
    PROVE  \E u \in User, c \in Capture :
              /\ \/ TakeOffline(u, c)
                 \/ \E r \in Request : Queue(r) /\ c = call[r].capture /\ u = taker[c]
                 \/ \E r \in Request : Answer(r) /\ c = call[r].capture /\ u = taker[c]
<1>0. TypeOK /\ \A q \in Request : RequestIsTrue(q)
  BY DEF CaptureInv, RequestsAreTrue
<1>1. ASSUME NEW r \in Request, Queue(r) \/ Answer(r)
      PROVE  call[r].capture \in Capture /\ taker[call[r].capture] \in User
  BY <1>0, <1>1 DEF Queue, Answer, At, RequestIsTrue, Upload
<1>2. ASSUME NEW u, NEW c, NEW r,
             \/ Sync(u, r) \/ Take(u, c, r) \/ Apply(c, r) \/ Reject(c) \/ SyncGivesUp(r)
             \/ Vanish(r) \/ Die(r) \/ Receive(r) \/ Check(r) \/ Quarantine(r) \/ SaveCapture(r)
             \/ SaveConflicts(r) \/ Accept(r) \/ SaveReview(r) \/ AcceptReview(r)
      PROVE FALSE
  BY <1>2 DEF Sync, Take, Apply, Reject, SyncGivesUp, Vanish, Die, Receive, Check, Quarantine,
              SaveCapture, SaveConflicts, Accept, SaveReview, AcceptReview, device
<1>3. ~Correct /\ ~UNCHANGED cvars
  BY DEF Correct, cvars, device
<1> QED
  BY <1>1, <1>2, <1>3 DEF Next, Serve

LEMMA QueuesStep ==
    CaptureInv /\ [Next]_cvars =>
        /\ QueuesAreOwn'
        /\ \A u \in User : slot[u] # NoCapture /\ slot'[u] # slot[u]
              => slot[u] \in forgotten' \/ batch[slot[u]] # "none"
<1> DEFINE Kept ==
        /\ QueuesAreOwn'
        /\ \A u \in User : slot[u] # NoCapture /\ slot'[u] # slot[u]
              => slot[u] \in forgotten' \/ batch[slot[u]] # "none"
<1> SUFFICES ASSUME CaptureInv, [Next]_cvars PROVE Kept
  OBVIOUS
<1>0. TypeOK /\ QueuesAreOwn /\ (\A q \in Request : RequestIsTrue(q))
      /\ \A d \in Capture : taker[d] \in User => taker'[d] = taker[d]
  BY RowsGrow DEF CaptureInv, RequestsAreTrue
<1>1. \A v \in User : slot[v] # NoCapture => taker'[slot[v]] = v
  BY <1>0 DEF QueuesAreOwn, TypeOK
<1>2. CASE slot' = slot
  BY <1>1, <1>2 DEF QueuesAreOwn
<1>3. ASSUME NEW u \in User, NEW c \in Capture, TakeOffline(u, c) PROVE Kept
  <2>1. Queues(u, c) /\ taker'[c] = u
    BY <1>0, <1>3 DEF TakeOffline, Takes, TypeOK
  <2> QED
    BY <1>0, <1>1, <2>1 DEF Queues, QueuesAreOwn, TypeOK
<1>4. ASSUME NEW r \in Request, NEW u \in User, NEW c \in Capture,
             Queue(r), c = call[r].capture, u = taker[c]
      PROVE Kept
  <2>1. Queues(u, c) /\ taker'[c] = u
    BY <1>0, <1>4 DEF Queue
  <2> QED
    BY <1>0, <1>1, <2>1 DEF Queues, QueuesAreOwn, TypeOK
<1>5. ASSUME NEW r \in Request, NEW u \in User, NEW c \in Capture,
             Answer(r), c = call[r].capture, u = taker[c]
      PROVE Kept
  <2>1. batch[c] # "none"
    BY <1>0, <1>5 DEF Answer, At, RequestIsTrue, Upload, Recorded
  <2>2. slot' = [slot EXCEPT ![u] = NoCapture]
        /\ forgotten' = forgotten \union ({slot[u]} \ {c, NoCapture})
    BY <1>5 DEF Answer
  <2> QED
    BY <1>0, <1>1, <2>1, <2>2 DEF QueuesAreOwn, TypeOK
<1> QED
  BY <1>2, <1>3, <1>4, <1>5, QueueChanges

(* A request somebody waits for goes on carrying its capture, until that   *)
(* is in the queue or answered.                                            *)
LEMMA LiveStep ==
    ASSUME CaptureInv, [Next]_cvars, NEW q \in Request, NEW c \in Capture, Carries(q, "live", c)
    PROVE  Carries(q, "live", c)' \/ slot'[taker[c]] = c \/ batch[c] # "none"
<1>0. TypeOK /\ RequestIsTrue(q) /\ call[q].by = "live" /\ call[q].capture = c /\ taker[c] \in User
  BY DEF CaptureInv, RequestsAreTrue, Carries, RequestIsTrue, Upload
<1>1. CASE call'[q] = call[q]
  BY <1>1 DEF Carries
<1>2. ASSUME NEW r \in Request, NEW stage, MovesTo(r, stage) PROVE Carries(q, "live", c)'
  <2>1. CASE q = r
    BY <1>0, <1>2, <2>1, RequestMoves DEF Carries
  <2>2. CASE q # r
    <3>1. call'[q] = call[q]
      BY <1>0, <1>2, <2>2, RequestMoves
    <3> QED
      BY <1>0, <3>1 DEF Carries
  <2> QED
    BY <2>1, <2>2
<1>3. ASSUME NEW r \in Request,
             \/ Receive(r) \/ Check(r) \/ Quarantine(r) \/ SaveCapture(r) \/ SaveConflicts(r)
             \/ Accept(r) \/ SaveReview(r) \/ Die(r)
      PROVE Carries(q, "live", c)'
  BY <1>2, <1>3 DEF Receive, Check, Quarantine, SaveCapture, SaveConflicts, Accept, SaveReview, Die
<1>4. ASSUME NEW r \in Request, NEW by, NEW d, NEW stage, NEW at, Free(r), Starts(r, by, d, stage, at)
      PROVE call'[q] = call[q]
  <2>1. q # r
    BY <1>0, <1>4 DEF Free, RequestIsTrue
  <2> QED
    BY <1>0, <1>4, <2>1 DEF Starts, TypeOK
<1>5. ASSUME NEW r \in Request, NEW u, NEW d, Sync(u, r) \/ Take(u, d, r) \/ Apply(d, r)
      PROVE call'[q] = call[q]
  BY <1>4, <1>5 DEF Sync, Take, Apply
<1>6. ASSUME NEW r \in Request, SyncGivesUp(r) \/ Vanish(r) \/ AcceptReview(r)
      PROVE call'[q] = call[q]
  <2>1. q # r
    BY <1>0, <1>6 DEF SyncGivesUp, Vanish, AcceptReview, At
  <2> QED
    BY <1>0, <1>6, <2>1 DEF SyncGivesUp, Vanish, AcceptReview, TypeOK
<1>7. ASSUME NEW r \in Request, Queue(r) PROVE call'[q] = call[q] \/ slot'[taker[c]] = c
  <2>1. CASE q = r
    BY <1>0, <1>7, <2>1 DEF Queue, Queues, TypeOK
  <2>2. CASE q # r
    BY <1>0, <1>7, <2>2 DEF Queue, TypeOK
  <2> QED
    BY <2>1, <2>2
<1>8. ASSUME NEW r \in Request, Answer(r) PROVE call'[q] = call[q] \/ batch[c] # "none"
  <2>1. CASE q = r
    BY <1>0, <1>8, <2>1 DEF Answer, At, RequestIsTrue, Upload, Recorded
  <2>2. CASE q # r
    BY <1>0, <1>8, <2>2 DEF Answer, TypeOK
  <2> QED
    BY <2>1, <2>2
<1>9. ASSUME NEW u, NEW d, TakeOffline(u, d) \/ Reject(d) \/ Correct \/ UNCHANGED cvars
      PROVE call' = call
  BY <1>9 DEF TakeOffline, Reject, Correct, cvars
<1> QED
  BY <1>1, <1>3, <1>5, <1>6, <1>7, <1>8, <1>9 DEF Next, Serve

(* A capture just taken is on its way or in the queue. *)
LEMMA TakenStep ==
    ASSUME CaptureInv, [Next]_cvars, NEW c \in Capture, taker'[c] # taker[c]
    PROVE  slot'[taker'[c]] = c \/ \E r \in Request : Carries(r, "live", c)'
<1>0. TypeOK
  BY DEF CaptureInv
<1>1. ASSUME NEW u \in User, NEW d \in Capture, NEW r \in Request, Take(u, d, r)
      PROVE Carries(r, "live", c)'
  BY <1>0, <1>1 DEF Take, Takes, Starts, Carries, TypeOK
<1>2. ASSUME NEW u \in User, NEW d \in Capture, TakeOffline(u, d) PROVE slot'[taker'[c]] = c
  <2>1. c = d /\ taker'[c] = u
    BY <1>0, <1>2 DEF TakeOffline, Takes, TypeOK
  <2> QED
    BY <1>0, <1>2, <2>1 DEF TakeOffline, Queues, TypeOK
<1>3. ASSUME NEW u, NEW d, NEW r,
             \/ Sync(u, r) \/ Apply(d, r) \/ Reject(d) \/ Queue(r) \/ SyncGivesUp(r) \/ Answer(r)
             \/ Vanish(r) \/ Die(r) \/ Receive(r) \/ Check(r) \/ Quarantine(r) \/ SaveCapture(r)
             \/ SaveConflicts(r) \/ Accept(r) \/ SaveReview(r) \/ AcceptReview(r)
      PROVE FALSE
  BY <1>3 DEF Sync, Apply, Reject, Queue, SyncGivesUp, Answer, Vanish, Die, Receive, Check,
              Quarantine, SaveCapture, SaveConflicts, Accept, SaveReview, AcceptReview, device
<1>4. ~Correct /\ ~UNCHANGED cvars
  BY DEF Correct, cvars, device
<1> QED
  BY <1>1, <1>2, <1>3, <1>4 DEF Next, Serve

LEMMA DroppedStep == CaptureInv /\ [Next]_cvars => NothingIsDropped'
<1> SUFFICES ASSUME CaptureInv, [Next]_cvars, NEW c \in Capture,
                    taker'[c] # NoUser, batch'[c] = "none", c \notin forgotten'
             PROVE  slot'[taker'[c]] = c \/ \E r \in Request : Carries(r, "live", c)'
  BY DEF NothingIsDropped
<1>1. TypeOK /\ NothingIsDropped
  BY DEF CaptureInv, CapturesAreAccountedFor
<1>2. batch[c] = "none" /\ c \notin forgotten
  BY RowsGrow
<1>3. CASE taker'[c] # taker[c]
  BY <1>3, TakenStep
<1>4. CASE taker'[c] = taker[c]
  <2>1. taker[c] \in User
    BY <1>1, <1>4 DEF TypeOK
  <2>2. slot[taker[c]] = c \/ \E r \in Request : Carries(r, "live", c)
    BY <1>1, <1>2, <1>4 DEF NothingIsDropped
  <2>3. CASE slot[taker[c]] = c
    <3>1. c # NoCapture
      BY CaptureAssumption
    <3> QED
      BY <1>2, <1>4, <2>1, <2>3, <3>1, QueuesStep
  <2>4. ASSUME NEW r \in Request, Carries(r, "live", c)
        PROVE  Carries(r, "live", c)' \/ slot'[taker'[c]] = c
    BY <1>2, <1>4, <2>4, LiveStep
  <2> QED
    BY <2>2, <2>3, <2>4
<1> QED
  BY <1>3, <1>4

LEMMA CaptureInvariant == Spec => []CaptureInv
<1>1. CaptureInv /\ [Next]_cvars => CaptureInv'
  BY TypeStep, CasesStep, AcceptedStep, RequestsStep, QueuesStep, DroppedStep
     DEF CaptureInv, CapturesAreAccountedFor
<1> QED
  BY CaptureInitInv, <1>1, PTL DEF Spec

(* Rows, queue entries and requests keep their types. *)
THEOREM CaptureIsTyped == Spec => []TypeOK
BY CaptureInvariant, PTL DEF CaptureInv

(* A quarantined capture has an open case, an accepted one is in the       *)
(* register, and a device lets go of a capture only for an answer or a     *)
(* newer capture: saveAttendanceContinuityBatch, its quarantine and        *)
(* decideAttendanceReconciliation, whose transactions interleave.          *)
THEOREM CapturesStayAccountedFor == Spec => []CapturesAreAccountedFor
BY CaptureInvariant, PTL DEF CaptureInv

(* A capture that was accepted stays accepted: neither a late upload nor a *)
(* decision on the case of another upload takes it back.                   *)
THEOREM AcceptanceSticks == Spec => AcceptedSticks
<1>1. CaptureInv /\ [Next]_cvars =>
        [\A c \in Capture : batch[c] = "accepted" => batch'[c] = "accepted"]_cvars
  BY RowsGrow
<1> QED
  BY <1>1, CaptureInvariant, PTL DEF Spec, AcceptedSticks

-----------------------------------------------------------------------------
(* The observations the school keeps.                                      *)

(* What the server has was taken, what the office reviews was recorded,    *)
(* and nothing is given up but for another capture.                        *)
RecordedWereTaken == \A c \in Capture : batch[c] # "none" => taker[c] \in User
ReviewsAreRecorded ==
    \A r \in Request : call[r].by = "review" => batch[call[r].capture] # "none"
GivenUpForAnother ==
    \A c \in forgotten : \E d \in Capture \ {c} : taker[d] \in User

KeepingInv == CaptureInv /\ RecordedWereTaken /\ ReviewsAreRecorded /\ GivenUpForAnother

(* A capture comes to the server by an upload of it. *)
LEMMA OnlyUploadsRecord ==
    ASSUME KeepingInv, [Next]_cvars, NEW c \in Capture, batch[c] = "none", batch'[c] # "none"
    PROVE  taker[c] \in User
<1>0. TypeOK /\ ReviewsAreRecorded /\ \A q \in Request : RequestIsTrue(q)
  BY DEF KeepingInv, CaptureInv, RequestsAreTrue
<1>1. ASSUME NEW r \in Request, Receive(r) \/ Quarantine(r) \/ Accept(r) PROVE taker[c] \in User
  <2>1. c = call[r].capture /\ call[r].by \in Upload
    BY <1>0, <1>1 DEF Receive, Quarantine, Accept, At, TypeOK
  <2> QED
    BY <1>0, <2>1 DEF RequestIsTrue
<1>2. ASSUME NEW r \in Request, AcceptReview(r) PROVE FALSE
  BY <1>0, <1>2 DEF AcceptReview, At, ReviewsAreRecorded, TypeOK
<1>3. ASSUME NEW d \in Capture, Reject(d) PROVE FALSE
  BY <1>0, <1>3 DEF Reject, TypeOK
<1>4. ASSUME NEW u, NEW d, NEW r,
             \/ Sync(u, r) \/ Take(u, d, r) \/ TakeOffline(u, d) \/ Apply(d, r)
             \/ Queue(r) \/ SyncGivesUp(r) \/ Answer(r) \/ Vanish(r) \/ Die(r)
             \/ Check(r) \/ SaveCapture(r) \/ SaveConflicts(r) \/ SaveReview(r)
      PROVE FALSE
  BY <1>4 DEF Sync, Take, TakeOffline, Apply, Queue, SyncGivesUp, Answer, Vanish, Die, Check,
              SaveCapture, SaveConflicts, SaveReview, server
<1>5. ~Correct /\ ~UNCHANGED cvars
  BY DEF Correct, cvars, server
<1> QED
  BY <1>1, <1>2, <1>3, <1>4, <1>5 DEF Next, Serve

(* How a step changes what a request carries, and for whom. *)
LEMMA RequestsKeepTheirs ==
    ASSUME CaptureInv, [Next]_cvars, NEW q \in Request
    PROVE  \/ call'[q].by = call[q].by /\ call'[q].capture = call[q].capture
           \/ call'[q].by \in {"nobody", "orphan", "sync"}
           \/ \E u \in User, c \in Capture : Take(u, c, q) /\ call'[q].capture = c
           \/ \E c \in Capture : Apply(c, q) /\ call'[q].by = "review" /\ call'[q].capture = c
<1>0. TypeOK
  BY DEF CaptureInv
<1>1. ASSUME NEW r \in Request, NEW stage, MovesTo(r, stage)
      PROVE  call'[q].by = call[q].by /\ call'[q].capture = call[q].capture
  <2>1. CASE q = r
    BY <1>0, <1>1, <2>1, RequestMoves
  <2>2. CASE q # r
    <3>1. call'[q] = call[q]
      BY <1>0, <1>1, <2>2, RequestMoves
    <3> QED
      BY <3>1
  <2> QED
    BY <2>1, <2>2
<1>2. ASSUME NEW r \in Request,
             \/ Receive(r) \/ Check(r) \/ Quarantine(r) \/ SaveCapture(r) \/ SaveConflicts(r)
             \/ Accept(r) \/ SaveReview(r) \/ Die(r)
      PROVE  call'[q].by = call[q].by /\ call'[q].capture = call[q].capture
  BY <1>1, <1>2 DEF Receive, Check, Quarantine, SaveCapture, SaveConflicts, Accept, SaveReview, Die
<1>3. ASSUME NEW r \in Request, Ends(r) \/ Orphaned(r)
      PROVE  call'[q] = call[q] \/ call'[q].by \in {"nobody", "orphan"}
  BY <1>0, <1>3, EndedOrOrphaned DEF Idle
<1>4. ASSUME NEW r \in Request,
             Queue(r) \/ SyncGivesUp(r) \/ Answer(r) \/ Vanish(r) \/ AcceptReview(r)
      PROVE  Ends(r) \/ Orphaned(r)
  BY <1>4, GivenUp DEF Queue, SyncGivesUp, Answer, Vanish, AcceptReview, Ends
<1>5. ASSUME NEW r \in Request, NEW by, NEW c, NEW stage, NEW at, Starts(r, by, c, stage, at), q # r
      PROVE  call'[q] = call[q]
  BY <1>0, <1>5 DEF Starts, TypeOK
<1>6. ASSUME NEW by, NEW c, NEW stage, NEW at, Starts(q, by, c, stage, at)
      PROVE  call'[q].by = by /\ call'[q].capture = c
  BY <1>0, <1>6 DEF Starts, TypeOK
<1>7. ASSUME NEW u \in User, NEW r \in Request, Sync(u, r)
      PROVE  call'[q] = call[q] \/ call'[q].by = "sync"
  BY <1>5, <1>6, <1>7 DEF Sync
<1>8. ASSUME NEW u \in User, NEW c \in Capture, NEW r \in Request, Take(u, c, r)
      PROVE  call'[q] = call[q] \/ (q = r /\ call'[q].capture = c)
  BY <1>5, <1>6, <1>8 DEF Take
<1>9. ASSUME NEW c \in Capture, NEW r \in Request, Apply(c, r)
      PROVE  call'[q] = call[q] \/ (q = r /\ call'[q].by = "review" /\ call'[q].capture = c)
  BY <1>5, <1>6, <1>9 DEF Apply
<1>10. ASSUME NEW u, NEW c, TakeOffline(u, c) \/ Reject(c) \/ Correct \/ UNCHANGED cvars
       PROVE call' = call
  BY <1>10 DEF TakeOffline, Reject, Correct, cvars
<1> QED
  BY <1>2, <1>3, <1>4, <1>7, <1>8, <1>9, <1>10 DEF Next, Serve

LEMMA KeepingStep == KeepingInv /\ [Next]_cvars => KeepingInv'
<1> SUFFICES ASSUME KeepingInv, [Next]_cvars PROVE KeepingInv'
  OBVIOUS
<1>0. TypeOK /\ CaptureInv /\ \A q \in Request : RequestIsTrue(q)
  BY DEF KeepingInv, CaptureInv, RequestsAreTrue
<1>1. CaptureInv'
  BY <1>0, TypeStep, CasesStep, AcceptedStep, RequestsStep, QueuesStep, DroppedStep
     DEF CaptureInv, CapturesAreAccountedFor
<1>2. /\ \A c \in Capture : batch[c] # "none" => batch'[c] # "none"
      /\ \A c \in Capture : taker[c] \in User => taker'[c] = taker[c]
  BY <1>0, RowsGrow
<1>3. RecordedWereTaken'
  <2> SUFFICES ASSUME NEW c \in Capture, batch'[c] # "none" PROVE taker'[c] \in User
    BY DEF RecordedWereTaken
  <2>1. taker[c] \in User
    BY OnlyUploadsRecord DEF KeepingInv, RecordedWereTaken
  <2> QED
    BY <1>2, <2>1
<1>4. ReviewsAreRecorded'
  <2> SUFFICES ASSUME NEW q \in Request, call'[q].by = "review"
               PROVE  batch'[call'[q].capture] # "none"
    BY DEF ReviewsAreRecorded
  <2>1. CASE call'[q].by = call[q].by /\ call'[q].capture = call[q].capture
    <3>1. call[q].capture \in Capture /\ batch[call[q].capture] # "none"
      BY <1>0, <2>1 DEF KeepingInv, ReviewsAreRecorded, RequestIsTrue
    <3> QED
      BY <1>2, <2>1, <3>1
  <2>2. ASSUME NEW c \in Capture, Apply(c, q), call'[q].capture = c
        PROVE  batch'[call'[q].capture] # "none"
    <3>1. batch[c] # "none"
      BY <1>0, <2>2 DEF Apply, CaptureInv, CasesFollowBatches, Settled
    <3> QED
      BY <1>2, <2>2, <3>1
  <2>3. ASSUME NEW u \in User, NEW c \in Capture, Take(u, c, q) PROVE FALSE
    BY <1>0, <2>3 DEF Take, Starts, TypeOK
  <2> QED
    BY <1>0, <2>1, <2>2, <2>3, RequestsKeepTheirs
<1>5. GivenUpForAnother'
  <2> SUFFICES ASSUME NEW c \in forgotten' PROVE \E d \in Capture \ {c} : taker'[d] \in User
    BY DEF GivenUpForAnother
  <2>1. CASE c \in forgotten
    BY <1>2, <2>1 DEF KeepingInv, GivenUpForAnother
  <2>2. ASSUME c \notin forgotten, NEW u \in User, NEW d \in Capture, TakeOffline(u, d)
        PROVE  d # c /\ taker'[d] \in User
    BY <1>0, <2>2 DEF TakeOffline, Takes, Queues, TypeOK
  <2>3. ASSUME c \notin forgotten, NEW r \in Request, Queue(r) \/ Answer(r)
        PROVE  call[r].capture # c /\ call[r].capture \in Capture /\ taker'[call[r].capture] \in User
    <3>1. call[r].capture \in Capture /\ taker[call[r].capture] \in User
      BY <1>0, <2>3 DEF Queue, Answer, At, RequestIsTrue, Upload
    <3> QED
      BY <1>2, <2>3, <3>1 DEF Queue, Queues, Answer
  <2> QED
    BY <1>0, <2>1, <2>2, <2>3, QueueChanges
<1> QED
  BY <1>1, <1>3, <1>4, <1>5 DEF KeepingInv

(* A device holds nothing again that it let go of. *)
LEMMA NothingIsHeldAgain ==
    ASSUME KeepingInv, [Next]_cvars, NEW c \in Capture, taker[c] \in User, Holds(c)'
    PROVE  Holds(c)
<1>0. TypeOK /\ CaptureInv /\ taker'[c] = taker[c]
  BY RowsGrow DEF KeepingInv, CaptureInv
<1>1. c # NoCapture /\ taker[c] # NoUser
  BY CaptureAssumption, NoUserAssumption
<1>2. ASSUME NEW q \in Request, Carries(q, "live", c)' PROVE Holds(c)
  <2>1. ~\E u \in User, d \in Capture : Take(u, d, q) /\ call'[q].capture = d
    BY <1>1, <1>2 DEF Take, Takes, Carries
  <2> QED
    BY <1>0, <1>2, <2>1, RequestsKeepTheirs DEF Carries, Holds
<1>3. CASE slot'[taker[c]] = c
  <2>1. CASE slot' = slot
    BY <1>3, <2>1 DEF Holds
  <2>2. ASSUME NEW u \in User, NEW d \in Capture, TakeOffline(u, d) PROVE Holds(c)
    <3>1. c # d /\ slot' = [slot EXCEPT ![u] = d]
      BY <1>1, <2>2 DEF TakeOffline, Takes, Queues
    <3> QED
      BY <1>0, <1>3, <3>1 DEF TypeOK, Holds
  <2>3. ASSUME NEW r \in Request, Queue(r) PROVE Holds(c)
    <3>1. call[r].by = "live" /\ slot' = [slot EXCEPT ![taker[call[r].capture]] = call[r].capture]
      BY <2>3 DEF Queue, Queues
    <3> QED
      BY <1>0, <1>3, <3>1 DEF TypeOK, Holds, Carries
  <2>4. ASSUME NEW r \in Request, Answer(r) PROVE Holds(c)
    BY <1>0, <1>1, <1>3, <2>4 DEF Answer, TypeOK, Holds
  <2> QED
    BY <1>0, <2>1, <2>2, <2>3, <2>4, QueueChanges
<1> QED
  BY <1>0, <1>2, <1>3 DEF Holds

(* What the promise of ObservationRecord says of a step. *)
KeepsPromise == [Observations!ObservationNext]_(Observations!observations)

Cases == {c \in Capture : review[c] = "open"}

LEMMA StandingIs ==
    ASSUME TypeOK, NEW c \in Capture
    PROVE  /\ Standing[c] = IF batch[c] # "none" THEN batch[c]
                            ELSE IF taker[c] = NoUser THEN "unseen"
                            ELSE IF Holds(c) THEN "held" ELSE "given up"
           /\ Standing[c] \in {"unseen", "held", "given up"} <=> batch[c] = "none"
BY DEF Standing, TypeOK, Status

LEMMA PromiseStands ==
    ASSUME Standing' = Standing, published' = published, review' = review
    PROVE  KeepsPromise
BY DEF KeepsPromise, Observations!observations

LEMMA PromiseOfOne ==
    ASSUME NEW c \in Capture,
           \/ Observations!Record(c) \/ Observations!Question(c) \/ Observations!Publish(c)
           \/ Observations!Accept(c) \/ Observations!Reject(c)
    PROVE  KeepsPromise
<1>1. Observations!ObservationNext
  BY DEF Observations!ObservationNext
<1> QED
  BY <1>1 DEF KeepsPromise

(* A step at the server: who holds what stays as it is. *)
LEMMA HeldAtServer ==
    ASSUME KeepingInv, [Next]_cvars, UNCHANGED <<taker, slot>>, NEW c \in Capture,
           \A q \in Request : Carries(q, "live", c) => Carries(q, "live", c)'
    PROVE  batch'[c] = batch[c] => Standing'[c] = Standing[c]
<1>0. TypeOK /\ TypeOK' /\ taker[c] \in User \union {NoUser}
  BY KeepingStep DEF KeepingInv, CaptureInv, TypeOK
<1>1. CASE taker[c] = NoUser
  BY <1>0, <1>1 DEF Standing
<1>2. CASE taker[c] \in User
  <2>1. Holds(c) <=> Holds(c)'
    BY <1>2, NothingIsHeldAgain DEF Holds
  <2> QED
    BY <1>0, <2>1 DEF Standing
<1> QED
  BY <1>0, <1>1, <1>2

(* A step takes one capture at most. *)
LEMMA OneIsTaken ==
    ASSUME CaptureInv, [Next]_cvars, NEW c \in Capture, taker'[c] # taker[c]
    PROVE  \A d \in Capture \ {c} : taker'[d] = taker[d]
<1>0. TypeOK
  BY DEF CaptureInv
<1>1. ASSUME NEW u \in User, NEW d \in Capture, NEW r \in Request, Take(u, d, r)
      PROVE \A e \in Capture \ {c} : taker'[e] = taker[e]
  <2>1. taker' = [taker EXCEPT ![d] = u]
    BY <1>1 DEF Take, Takes
  <2> QED
    BY <1>0, <2>1 DEF TypeOK
<1>2. ASSUME NEW u, NEW d, NEW r,
             \/ Sync(u, r) \/ Apply(d, r) \/ Reject(d) \/ Queue(r) \/ SyncGivesUp(r) \/ Answer(r)
             \/ Vanish(r) \/ Die(r) \/ Receive(r) \/ Check(r) \/ Quarantine(r) \/ SaveCapture(r)
             \/ SaveConflicts(r) \/ Accept(r) \/ SaveReview(r) \/ AcceptReview(r)
      PROVE FALSE
  BY <1>2 DEF Sync, Apply, Reject, Queue, SyncGivesUp, Answer, Vanish, Die, Receive, Check,
              Quarantine, SaveCapture, SaveConflicts, Accept, SaveReview, AcceptReview, device
<1>3. ~Correct /\ ~UNCHANGED cvars
  BY DEF Correct, cvars, device
<1>4. ASSUME NEW u \in User, NEW d \in Capture, TakeOffline(u, d)
      PROVE \A e \in Capture \ {c} : taker'[e] = taker[e]
  <2>1. taker' = [taker EXCEPT ![d] = u]
    BY <1>4 DEF TakeOffline, Takes
  <2> QED
    BY <1>0, <2>1 DEF TypeOK
<1> QED
  BY <1>1, <1>2, <1>3, <1>4 DEF Next, Serve

(* On the device, and in every step that leaves the rows as they are, a    *)
(* capture is taken, given up, or stays what it was.                       *)
LEMMA PromiseOnDevice ==
    ASSUME KeepingInv, [Next]_cvars, UNCHANGED <<batch, published, review>>
    PROVE  KeepsPromise
<1> DEFINE lost == {c \in Capture : Standing[c] = "held" /\ Standing'[c] = "given up"}
<1>0. TypeOK /\ CaptureInv /\ TypeOK' /\ NothingIsDropped' /\ GivenUpForAnother' /\ RecordedWereTaken
  BY KeepingStep DEF KeepingInv, CaptureInv, CapturesAreAccountedFor
<1>1. lost \subseteq Observations!Held
  BY DEF Observations!Held
<1>2. ASSUME NEW c \in Capture, taker[c] \in User
      PROVE  Standing'[c] = (IF c \in lost THEN "given up" ELSE Standing[c])
  <2>1. taker'[c] = taker[c] /\ taker[c] # NoUser
    BY <1>0, <1>2, RowsGrow, NoUserAssumption
  <2>2. Holds(c)' => Holds(c)
    BY <1>2, NothingIsHeldAgain
  <2> QED
    BY <2>1, <2>2 DEF Standing
<1>3. ASSUME NEW c \in Capture, taker[c] = NoUser, taker'[c] = NoUser
      PROVE  Standing'[c] = (IF c \in lost THEN "given up" ELSE Standing[c])
  BY <1>3 DEF Standing
<1>4. CASE taker' = taker
  <2>1. \A c \in Capture : Standing'[c] = (IF c \in lost THEN "given up" ELSE Standing[c])
    BY <1>0, <1>2, <1>3, <1>4 DEF TypeOK
  <2>2. Standing' = Observations!Loses(lost)
    BY <2>1 DEF Standing, Observations!Loses
  <2>3. ASSUME NEW c \in lost PROVE \E d \in Capture \ {c} : Standing[d] # "unseen"
    <3>1. taker'[c] # NoUser /\ batch'[c] = "none" /\ ~Holds(c)'
      BY <1>0 DEF Standing, TypeOK, Status
    <3>2. c \in forgotten'
      BY <1>0, <3>1 DEF NothingIsDropped, Holds
    <3>3. PICK d \in Capture \ {c} : taker'[d] \in User
      BY <1>0, <3>2 DEF GivenUpForAnother
    <3>4. Standing[d] # "unseen"
      BY <1>0, <1>4, <3>3, NoUserAssumption DEF Standing, TypeOK, Status
    <3> QED
      BY <3>3, <3>4
  <2>4. Observations!GiveUp(lost)
    BY <1>1, <2>2, <2>3 DEF Observations!GiveUp
  <2> QED
    BY <2>4 DEF KeepsPromise, Observations!ObservationNext
<1>5. ASSUME NEW c \in Capture, taker'[c] # taker[c] PROVE KeepsPromise
  <2>1. taker[c] = NoUser /\ taker'[c] # NoUser
    BY <1>0, <1>5, RowsGrow DEF TypeOK
  <2>2. batch[c] = "none"
    BY <1>0, <2>1, NoUserAssumption DEF RecordedWereTaken
  <2>3. Standing[c] = "unseen"
    BY <2>1, <2>2 DEF Standing
  <2>4. Standing'[c] = "held"
    BY <1>5, <2>1, <2>2, <1>0, TakenStep DEF Standing, Holds
  <2>5. \A d \in Capture \ {c} : taker'[d] = taker[d]
    BY <1>0, <1>5, OneIsTaken
  <2>6. \A d \in Capture \ {c} : Standing'[d] = (IF d \in lost THEN "given up" ELSE Standing[d])
    BY <1>0, <1>2, <1>3, <2>5 DEF TypeOK
  <2>7. c \notin lost
    BY <2>3
  <2>8. Standing' = [Observations!Loses(lost) EXCEPT ![c] = "held"]
    BY <2>4, <2>6, <2>7 DEF Standing, Observations!Loses
  <2>9. Observations!Observe(c, lost)
    BY <1>1, <2>3, <2>8 DEF Observations!Observe
  <2> QED
    BY <2>9 DEF KeepsPromise, Observations!ObservationNext
<1> QED
  <2>1. taker' = taker \/ \E c \in Capture : taker'[c] # taker[c]
    BY <1>0 DEF TypeOK
  <2> QED
    BY <1>4, <1>5, <2>1

(* A step at the server that settles at most the status of one capture. *)
LEMMA StandingAtServer ==
    ASSUME KeepingInv, [Next]_cvars, UNCHANGED <<taker, slot>>, NEW c \in Capture, NEW status,
           batch' = [batch EXCEPT ![c] = status], status # "none",
           \A q \in Request, d \in Capture : Carries(q, "live", d) => Carries(q, "live", d)'
    PROVE  Standing' = [Standing EXCEPT ![c] = status]
<1>0. TypeOK
  BY DEF KeepingInv, CaptureInv
<1>1. batch'[c] = status /\ \A d \in Capture \ {c} : batch'[d] = batch[d]
  BY <1>0 DEF TypeOK
<1>2. \A d \in Capture \ {c} : Standing'[d] = Standing[d]
  BY <1>1, HeldAtServer
<1>3. Standing'[c] = status
  BY <1>1 DEF Standing
<1>4. /\ Standing = [d \in Capture |-> Standing[d]]
      /\ Standing' = [d \in Capture |-> Standing'[d]]
  BY DEF Standing
<1> QED
  BY <1>2, <1>3, <1>4

LEMMA MovedIsCarried ==
    ASSUME TypeOK, NEW r \in Request, NEW stage, MovesTo(r, stage)
    PROVE  \A q \in Request, d \in Capture : Carries(q, "live", d) => Carries(q, "live", d)'
<1> TAKE q \in Request, d \in Capture
<1>1. CASE q = r
  BY <1>1, RequestMoves DEF Carries
<1>2. CASE q # r
  <2>1. call'[q] = call[q]
    BY <1>2, RequestMoves
  <2> QED
    BY <2>1 DEF Carries
<1> QED
  BY <1>1, <1>2

(* An upload: the server records, questions, publishes and accepts. *)
LEMMA PromiseOfUploads ==
    ASSUME KeepingInv, [Next]_cvars, NEW r \in Request,
           Receive(r) \/ Quarantine(r) \/ SaveCapture(r) \/ Accept(r)
    PROVE  KeepsPromise
<1> PICK c : c = call[r].capture
  OBVIOUS
<1>0. /\ TypeOK /\ RequestIsTrue(r) /\ RecordedWereTaken
      /\ CasesFollowBatches /\ QuarantinedIsOpen
  BY DEF KeepingInv, CaptureInv, RequestsAreTrue, CapturesAreAccountedFor
<1>1. call[r].by \in Upload /\ c \in Capture /\ taker[c] \in User
  BY <1>0 DEF Receive, Quarantine, SaveCapture, Accept, At, RequestIsTrue, Upload
<1>2. UNCHANGED <<taker, slot>>
  BY DEF Receive, Quarantine, SaveCapture, Accept, device
<1>3. PICK stage : MovesTo(r, stage)
  BY DEF Receive, Quarantine, SaveCapture, Accept
<1>4. \A q \in Request, d \in Capture : Carries(q, "live", d) => Carries(q, "live", d)'
  BY <1>0, <1>3, MovedIsCarried
<1>5. CASE UNCHANGED <<batch, published, review>>
  BY <1>5, PromiseOnDevice
<1>6. CASE Receive(r)
  <2>1. CASE batch[c] = "none"
    <3>1. batch' = [batch EXCEPT ![c] = "pending"]
      BY <1>0, <1>6, <2>1 DEF Receive, TypeOK
    <3>2. Standing' = [Standing EXCEPT ![c] = "pending"]
      BY <1>1, <1>2, <1>4, <3>1, StandingAtServer
    <3>3. Standing[c] \in {"held", "given up"}
      BY <1>1, <2>1, NoUserAssumption DEF Standing
    <3>4. Observations!Record(c)
      BY <1>6, <3>2, <3>3 DEF Receive, Observations!Record
    <3> QED
      BY <1>1, <3>4, PromiseOfOne
  <2>2. CASE batch[c] # "none"
    <3>1. UNCHANGED <<batch, published, review>>
      BY <1>0, <1>6, <2>2 DEF Receive, TypeOK
    <3> QED
      BY <1>5, <3>1
  <2> QED
    BY <2>1, <2>2
<1>7. CASE Quarantine(r)
  <2>1. batch[c] # "none"
    BY <1>0, <1>1, <1>7 DEF Quarantine, At, RequestIsTrue, Recorded
  <2>2. CASE batch[c] = "pending"
    <3>1. review[c] = "none"
      BY <1>0, <1>1, <2>2 DEF CasesFollowBatches, Settled
    <3>2. batch' = [batch EXCEPT ![c] = "quarantined"] /\ review' = [review EXCEPT ![c] = "open"]
      BY <1>0, <1>7, <2>2, <3>1 DEF Quarantine, TypeOK
    <3>3. Standing' = [Standing EXCEPT ![c] = "quarantined"]
      BY <1>1, <1>2, <1>4, <3>2, StandingAtServer
    <3>4. Standing[c] = "pending"
      BY <1>1, <2>2 DEF Standing
    <3>5. Cases' = Cases \union {c}
      BY <1>0, <1>1, <3>2 DEF Cases, TypeOK
    <3>6. Observations!Question(c)
      BY <1>7, <3>3, <3>4, <3>5 DEF Quarantine, Observations!Question, Cases
    <3> QED
      BY <1>1, <3>6, PromiseOfOne
  <2>3. CASE batch[c] # "pending"
    <3>1. batch[c] = "quarantined" => review[c] = "open"
      BY <1>0, <1>1 DEF QuarantinedIsOpen
    <3>2. UNCHANGED <<batch, published, review>>
      BY <1>0, <1>1, <1>7, <2>1, <2>3, <3>1 DEF Quarantine, TypeOK, Status
    <3> QED
      BY <1>5, <3>2
  <2> QED
    BY <2>2, <2>3
<1>8. CASE SaveCapture(r)
  <2>1. CASE c \in submitted
    BY <1>5, <1>8, <2>1 DEF SaveCapture
  <2>2. CASE c \notin submitted
    <3>1. published' = published \union {c} /\ UNCHANGED <<batch, review>>
      BY <1>8, <2>2 DEF SaveCapture, Publishes
    <3>2. batch[c] # "none"
      BY <1>0, <1>1, <1>8 DEF SaveCapture, At, RequestIsTrue, Recorded
    <3>3. Standing' = Standing
      BY <1>2, <1>4, <3>1, HeldAtServer DEF Standing
    <3>4. Standing[c] \notin {"unseen", "held", "given up"}
      BY <1>0, <1>1, <3>2, StandingIs
    <3>5. Observations!Publish(c)
      BY <3>1, <3>3, <3>4 DEF Observations!Publish, Observations!OnDevice
    <3> QED
      BY <1>1, <3>5, PromiseOfOne
  <2> QED
    BY <2>1, <2>2
<1>9. CASE Accept(r)
  <2>1. batch[c] # "none" /\ c \in published
    BY <1>0, <1>1, <1>9 DEF Accept, At, RequestIsTrue, Recorded, Upload
  <2>2. batch' = [batch EXCEPT ![c] = "accepted"] /\ UNCHANGED <<published, review>>
    BY <1>9 DEF Accept
  <2>3. Standing' = [Standing EXCEPT ![c] = "accepted"]
    BY <1>1, <1>2, <1>4, <2>2, StandingAtServer
  <2>4. Standing[c] \notin {"unseen", "held", "given up"}
    BY <1>0, <1>1, <2>1, StandingIs
  <2>5. Observations!Accept(c)
    BY <2>1, <2>2, <2>3, <2>4 DEF Observations!Accept, Observations!OnDevice
  <2> QED
    BY <1>1, <2>5, PromiseOfOne
<1> QED
  BY <1>6, <1>7, <1>8, <1>9

(* A decision of the office: one rejects, the other publishes and accepts. *)
LEMMA PromiseOfDecisions ==
    ASSUME KeepingInv, [Next]_cvars,
           \/ \E c \in Capture : Reject(c)
           \/ \E r \in Request : SaveReview(r) \/ AcceptReview(r)
    PROVE  KeepsPromise
<1>0. /\ TypeOK /\ ReviewsAreRecorded /\ CasesFollowBatches
      /\ \A r \in Request : RequestIsTrue(r)
  BY DEF KeepingInv, CaptureInv, RequestsAreTrue
<1>1. UNCHANGED <<taker, slot>>
  BY DEF Reject, SaveReview, AcceptReview, device
<1>2. ASSUME NEW c \in Capture, Reject(c) PROVE KeepsPromise
  <2>1. \A q \in Request, d \in Capture : Carries(q, "live", d) => Carries(q, "live", d)'
    BY <1>2 DEF Reject, Carries
  <2>2. batch[c] # "none"
    BY <1>0, <1>2 DEF Reject, CasesFollowBatches, Settled
  <2>3. Standing' = [Standing EXCEPT ![c] = IF batch[c] = "quarantined" THEN "rejected" ELSE batch[c]]
    BY <1>0, <1>1, <1>2, <2>1, <2>2, StandingAtServer DEF Reject, TypeOK
  <2>4. Standing[c] = batch[c]
    BY <2>2 DEF Standing
  <2>5. c \in Cases /\ Cases' = Cases \ {c} /\ published' = published
    BY <1>0, <1>2 DEF Reject, Cases, TypeOK
  <2>6. Observations!Reject(c)
    BY <2>3, <2>4, <2>5 DEF Observations!Reject, Cases
  <2> QED
    BY <2>6, PromiseOfOne
<1>3. ASSUME NEW r \in Request, SaveReview(r) PROVE KeepsPromise
  <2> PICK c : c = call[r].capture
    OBVIOUS
  <2>1. c \in Capture /\ batch[c] # "none"
    BY <1>0, <1>3 DEF SaveReview, At, RequestIsTrue, ReviewsAreRecorded
  <2>2. PICK stage : MovesTo(r, stage)
    BY <1>3 DEF SaveReview
  <2>3. UNCHANGED <<batch, review>> /\ (published' = published \/ published' = published \union {c})
    BY <1>3 DEF SaveReview, Publishes
  <2>4. CASE published' = published
    BY <2>3, <2>4, PromiseOnDevice
  <2>5. CASE published' = published \union {c}
    <3>1. Standing' = Standing
      BY <1>0, <1>1, <2>2, <2>3, MovedIsCarried, HeldAtServer DEF Standing
    <3>2. Standing[c] \notin {"unseen", "held", "given up"}
      BY <1>0, <2>1, StandingIs
    <3>3. Observations!Publish(c)
      BY <2>3, <2>5, <3>1, <3>2 DEF Observations!Publish, Observations!OnDevice
    <3> QED
      BY <2>1, <3>3, PromiseOfOne
  <2> QED
    BY <2>3, <2>4, <2>5
<1>4. ASSUME NEW r \in Request, AcceptReview(r) PROVE KeepsPromise
  <2> PICK c : c = call[r].capture
    OBVIOUS
  <2>1. c \in Capture /\ batch[c] # "none" /\ c \in published
    BY <1>0, <1>4 DEF AcceptReview, At, RequestIsTrue, ReviewsAreRecorded
  <2>2. \A q \in Request, d \in Capture : Carries(q, "live", d) => Carries(q, "live", d)'
    BY <1>0, <1>4 DEF AcceptReview, At, Carries, TypeOK
  <2>3. /\ batch' = [batch EXCEPT ![c] = "accepted"] /\ review' = [review EXCEPT ![c] = "accepted"]
        /\ published' = published
    BY <1>4 DEF AcceptReview
  <2>4. Standing' = [Standing EXCEPT ![c] = "accepted"]
    BY <1>1, <2>1, <2>2, <2>3, StandingAtServer
  <2>5. Standing[c] \notin {"unseen", "held", "given up"}
    BY <1>0, <2>1, StandingIs
  <2>6. Cases' = Cases \ {c}
    BY <1>0, <2>1, <2>3 DEF Cases, TypeOK
  <2>7. Observations!Accept(c)
    BY <2>1, <2>3, <2>4, <2>5, <2>6 DEF Observations!Accept, Observations!OnDevice, Cases
  <2> QED
    BY <2>1, <2>7, PromiseOfOne
<1> QED
  BY <1>2, <1>3, <1>4

(* The captures keep the promise of ObservationRecord, for any users,      *)
(* captures, requests and faults: a device holds a capture until the       *)
(* server has it or another one replaces it, and the three transactions of *)
(* an upload and the two of a decision, each of which may be the last of   *)
(* its request, never lose, unrecord or unaccept one.                      *)
THEOREM CapturesKeepObservations == Spec => KeepsObservations
<1>1. Init => KeepingInv /\ Observations!Opening
  <2> SUFFICES ASSUME Init PROVE KeepingInv /\ Observations!Opening
    OBVIOUS
  <2>1. KeepingInv
    BY CaptureInitInv DEF Init, KeepingInv, RecordedWereTaken, ReviewsAreRecorded,
                          GivenUpForAnother, Idle
  <2>2. Standing = [c \in Capture |-> "unseen"]
    BY DEF Init, Standing
  <2> QED
    BY <2>1, <2>2 DEF Init, Observations!Opening
<1>2. KeepingInv /\ [Next]_cvars => KeepsPromise
  <2> SUFFICES ASSUME KeepingInv, [Next]_cvars PROVE KeepsPromise
    OBVIOUS
  <2>1. CASE UNCHANGED <<batch, published, review>>
    BY <2>1, PromiseOnDevice
  <2>2. ASSUME NEW r \in Request, Receive(r) \/ Quarantine(r) \/ SaveCapture(r) \/ Accept(r)
        PROVE  KeepsPromise
    BY <2>2, PromiseOfUploads
  <2>3. CASE \/ \E c \in Capture : Reject(c)
             \/ \E r \in Request : SaveReview(r) \/ AcceptReview(r)
    BY <2>3, PromiseOfDecisions
  <2>4. ASSUME NEW u, NEW d, NEW r,
               \/ Sync(u, r) \/ Take(u, d, r) \/ TakeOffline(u, d) \/ Apply(d, r)
               \/ Queue(r) \/ SyncGivesUp(r) \/ Answer(r) \/ Vanish(r) \/ Die(r)
               \/ Check(r) \/ SaveConflicts(r)
        PROVE  UNCHANGED <<batch, published, review>>
    BY <2>4 DEF Sync, Take, TakeOffline, Apply, Queue, SyncGivesUp, Answer, Vanish, Die, Check,
                SaveConflicts, server
  <2>5. CASE Correct \/ UNCHANGED cvars
    BY <2>1, <2>5 DEF Correct, cvars, server
  <2> QED
    BY <2>1, <2>2, <2>3, <2>4, <2>5 DEF Next, Serve
<1> QED
  BY <1>1, <1>2, KeepingStep, PTL
     DEF Spec, KeepsObservations, Observations!ObservationSpec, KeepsPromise
=============================================================================
