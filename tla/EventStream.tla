---------------------------- MODULE EventStream ----------------------------
(***************************************************************************)
(* The delivery side of SchoolEventService in one API instance: the LISTEN *)
(* connection to PostgreSQL, the drain of published events, and the SSE    *)
(* stream of each browser with its replay, its buffer and its full syncs.  *)
(* The log of published events is DeliveryLog, which EventOutbox           *)
(* implements; any instance may append to it at any time.                  *)
(*                                                                         *)
(* One step of this module is what Node runs between two awaits.  A query  *)
(* is three steps: it is sent with its arguments, PostgreSQL answers it    *)
(* from the log as it is then, and the code resumes later with an answer   *)
(* that may be stale.  A query may also fail.                              *)
(*                                                                         *)
(* Events are seen through their places in the log.  A browser's "got" is  *)
(* the set of places it has been told about: an event frame tells of one   *)
(* place, a sync.required frame of every place up to its id, because the   *)
(* browser then refetches everything.                                      *)
(***************************************************************************)
EXTENDS DeliveryLog, FiniteSets, FiniteSetsExt

CONSTANTS
    Client,         \* browsers, each with one stream at a time
    Audience,       \* the clients each event is for
    BatchSize,      \* EVENT_BATCH_SIZE, rows of one drain query
    ReplayLimit,    \* EVENT_REPLAY_LIMIT, rows of a replay and of a buffer
    MaxConnects,    \* bound: connectBroker calls and connections at once
    MaxDrops,       \* bound: LISTEN connections that break, processes that restart
    MaxFaults,      \* bound: pool queries and dials that fail
    MaxBreaks,      \* bound: streams that break
    NoCursor        \* lastSequence = null, no usable Last-Event-ID

ASSUME EventAssumption == IsFiniteSet(Event)
ASSUME AudienceAssumption == Audience \in [Event -> SUBSET Client]
ASSUME LimitsAssumption == {BatchSize, ReplayLimit, MaxConnects} \subseteq Nat \ {0}
ASSUME BoundsAssumption == {MaxDrops, MaxFaults, MaxBreaks} \subseteq Nat
ASSUME NoCursorAssumption == NoCursor \notin Nat

VARIABLES
    conn,       \* connectBroker calls and the connections they opened
    broker,     \* this.broker, 0 when undefined
    ready,      \* this.brokerReady
    timer,      \* this.reconnectTimer is set
    watermark,  \* this.brokerWatermark
    wakes,      \* connections with a NOTIFY on its way
    drain,      \* the drain promise
    stream,     \* StreamClient of each browser
    tasks,      \* openStream and recovery calls in flight for each stream
    browser,    \* what each browser has seen
    crossed,    \* history: clients that had two such calls in flight at once
    budget      \* what is left of the bounds

brokerVars == <<conn, broker, ready, timer, wakes>>
clientVars == <<stream, tasks, browser, crossed>>
vars == <<logVars, brokerVars, watermark, drain, clientVars, budget>>

Connection == 1..MaxConnects
Place == 0..Cardinality(Event)
Cursor == Place \union {NoCursor}

(* Who waits for a task: the request, the drain or a connectBroker call. *)
Request == <<"request", 0>>
Repair == <<"drain", 0>>
Connecting(g) == <<"connect", g>>
Starter == {Request, Repair} \union {Connecting(g) : g \in Connection}

(* A call that awaits a query: the one of replay(), the full sync that
   replaces it, the full sync of the catch block, or finishReplay's. *)
Task ==
    [starter : Starter,
     stage : {"replay", "sync", "retry", "finish"},
     answered : BOOLEAN,
     after : Cursor,        \* the cursor the query was sent with
     max : Place,           \* last_sequence in the answer
     low : Place]           \* replay_floor in the answer

TypeOK ==
    /\ LogTypeOK
    /\ conn \in [Connection -> [call : {"none", "dialing", "reading", "read", "recovering"},
                                up : BOOLEAN, mark : Place]]
    /\ broker \in Connection \union {0}
    /\ {ready, timer} \subseteq BOOLEAN
    /\ watermark \in Place
    /\ wakes \subseteq Connection
    /\ drain \in [phase : {"idle", "sent", "answered", "repairing"},
                  requested : BOOLEAN, from : Place, max : Place]
    /\ stream \in [Client -> [open : BOOLEAN, last : Cursor, replaying : BOOLEAN,
                              overflow : BOOLEAN, pending : SUBSET Place]]
    /\ \A c \in Client : Cardinality(stream[c].pending) <= ReplayLimit
    /\ \A c \in Client : tasks[c] \subseteq Task
    /\ browser \in [Client -> [link : {"up", "retrying", "stopped"}, cursor : Cursor,
                               got : SUBSET Place]]
    /\ crossed \subseteq Client
    /\ budget \in [drops : Nat, faults : Nat, breaks : Nat]

For(c, n) == c \in Audience[EventAt(n)]

NoConnection == [call |-> "none", up |-> FALSE, mark |-> 0]
ClosedStream ==
    [open |-> FALSE, last |-> NoCursor, replaying |-> FALSE, overflow |-> FALSE,
     pending |-> {}]
IdleDrain == [phase |-> "idle", requested |-> FALSE, from |-> 0, max |-> 0]

(* onApplicationBootstrap dials the first connection. *)
FirstDial ==
    [g \in Connection |->
       IF g = 1 THEN [NoConnection EXCEPT !.call = "dialing"] ELSE NoConnection]

Init ==
    /\ LogInit
    /\ conn = FirstDial
    /\ broker = 0
    /\ ready = FALSE
    /\ timer = FALSE
    /\ watermark = 0
    /\ wakes = {}
    /\ drain = IdleDrain
    /\ stream = [c \in Client |-> ClosedStream]
    /\ tasks = [c \in Client |-> {}]
    /\ browser = [c \in Client |-> [link |-> "retrying", cursor |-> NoCursor, got |-> {}]]
    /\ crossed = {}
    /\ budget = [drops |-> MaxDrops, faults |-> MaxFaults, breaks |-> MaxBreaks]

Spend(what) == budget[what] > 0 /\ budget' = [budget EXCEPT ![what] = @ - 1]

-----------------------------------------------------------------------------
(* The log                                                                 *)

(* Some instance commits a publication; every connection that listens then
   will be notified.  A batch of several events is as many of these steps. *)
Publish(e) ==
    /\ last' = last + 1 /\ AppendBatch({e})
    /\ wakes' = wakes \union {g \in Connection : conn[g].up}
    /\ UNCHANGED <<conn, broker, ready, timer, watermark, drain, clientVars, budget>>

(* Places from which this instance still reads on: its watermark once it   *)
(* listens, and those that answers and queries in flight count from.       *)
Outstanding ==
    (IF ready THEN {watermark} ELSE {})
      \union (IF drain.phase \in {"sent", "answered"} THEN {drain.from} ELSE {})
      \union {conn[g].mark : g \in {h \in Connection : conn[h].call = "read"}}

(* Seven days outlive any drain: retention stays behind what this instance *)
(* has read.  It does overtake streams that replay and browsers that are   *)
(* away.                                                                   *)
Expire ==
    /\ Trim
    /\ \A n \in Outstanding : floor' <= n
    /\ UNCHANGED <<brokerVars, watermark, drain, clientVars, budget>>

-----------------------------------------------------------------------------
(* What a browser is sent                                                  *)

Past(cursor) == IF cursor = NoCursor THEN 0 ELSE cursor

(* A stream and its browser, after a frame with this id that tells of these
   places.  A stream whose link is down writes to nobody. *)
Frame(v, id, places) ==
    [s |-> [v.s EXCEPT !.last = id],
     b |-> IF v.b.link = "up"
             THEN [v.b EXCEPT !.cursor = id, !.got = @ \union places]
             ELSE v.b]

Sent(v, places) ==
    LET fresh == {n \in places : n > Past(v.s.last)}
    IN  IF fresh = {} THEN v ELSE Frame(v, Max(fresh), fresh)

(* sync.required, with the watermark of advanceToCurrentWatermark. *)
Synced(v, w) == Frame(v, w, 1..w)

(* Mutant: the limit is tested one event too late. *)
BufferedPastLimit(s, places) ==
    LET fresh == {n \in places : n > Past(s.last)}
        full == \E n \in fresh :
                  Cardinality(s.pending \union {m \in fresh : m < n}) > ReplayLimit
    IN  IF s.overflow THEN s
        ELSE IF full THEN [s EXCEPT !.overflow = TRUE, !.pending = {}]
        ELSE [s EXCEPT !.pending = @ \union fresh]

(* dispatch to a stream that replays: the event that finds the buffer full
   empties it, and then nothing is kept until a full sync. *)
Buffered(s, places) ==
    LET fresh == {n \in places : n > Past(s.last)}
        full == \E n \in fresh :
                  Cardinality(s.pending \union {m \in fresh : m < n}) >= ReplayLimit
    IN  IF s.overflow THEN s
        ELSE IF full THEN [s EXCEPT !.overflow = TRUE, !.pending = {}]
        ELSE [s EXCEPT !.pending = @ \union fresh]

View(c) == [s |-> stream[c], b |-> browser[c]]

(* dispatch, for the rows of one drain query. *)
DispatchTo(c, rows) ==
    LET mine == {n \in rows : For(c, n)}
    IN  IF ~stream[c].open THEN View(c)
        ELSE IF stream[c].replaying
          THEN [s |-> Buffered(stream[c], mine), b |-> browser[c]]
          ELSE Sent(View(c), mine)

-----------------------------------------------------------------------------
(* Calls that bring one stream up to date                                  *)

Query(starter, stage, after) ==
    [starter |-> starter, stage |-> stage, answered |-> FALSE, after |-> after,
     max |-> 0, low |-> 0]

(* replay(), or a full sync when there is no cursor to replay from. *)
Begin(starter, cursor) ==
    Query(starter, IF cursor = NoCursor THEN "sync" ELSE "replay", cursor)

AnswerTask(c, t) ==
    /\ ~t.answered
    /\ tasks' = [tasks EXCEPT ![c] = (@ \ {t}) \union
                   {[t EXCEPT !.answered = TRUE, !.max = last,
                              !.low = IF t.stage = "replay" THEN floor ELSE 0]}]
    /\ UNCHANGED <<logVars, brokerVars, watermark, drain, stream, browser, crossed, budget>>

(* Mutant: finishReplay forgets that the buffer overflowed. *)
FinishReplayIgnoringOverflow(c, t, v) ==
    LET flushed == Sent(v, v.s.pending)
    IN  /\ stream' = [stream EXCEPT ![c] = [flushed.s EXCEPT
                        !.pending = {}, !.overflow = FALSE, !.replaying = FALSE]]
        /\ browser' = [browser EXCEPT ![c] = flushed.b]
        /\ tasks' = [tasks EXCEPT ![c] = @ \ {t}]

(* finishReplay: after an overflow, one more full sync and look again;
   otherwise flush the buffer and go live. *)
FinishReplay(c, t, v) ==
    LET flushed == Sent(v, v.s.pending)
    IN  \/ /\ v.s.overflow
           /\ stream' = [stream EXCEPT ![c] =
                           [v.s EXCEPT !.overflow = FALSE, !.pending = {}]]
           /\ browser' = [browser EXCEPT ![c] = v.b]
           /\ tasks' = [tasks EXCEPT ![c] = (@ \ {t}) \union
                                              {Query(t.starter, "finish", NoCursor)}]
        \/ /\ ~v.s.overflow
           /\ stream' = [stream EXCEPT ![c] =
                           [flushed.s EXCEPT !.pending = {}, !.replaying = FALSE]]
           /\ browser' = [browser EXCEPT ![c] = flushed.b]
           /\ tasks' = [tasks EXCEPT ![c] = @ \ {t}]

(* The rows of the answer: not expired, and for this client. *)
Replayed(c, t) == {n \in (t.after + 1)..t.max : n > t.low /\ For(c, n)}

(* Mutant: an expired cursor is not noticed. *)
ReplayableUnlessFuture(c, t) == t.after <= t.max /\ Cardinality(Replayed(c, t)) <= ReplayLimit

(* The cursor lies in the history that is left, and is not too far behind. *)
Replayable(c, t) ==
    /\ t.low <= t.after
    /\ t.after <= t.max
    /\ Cardinality(Replayed(c, t)) <= ReplayLimit

ResumeReplay(c, t) ==
    /\ t.answered /\ t.stage = "replay"
    /\ \/ /\ Replayable(c, t)
          /\ FinishReplay(c, t, Sent(View(c), Replayed(c, t)))
       \/ /\ ~Replayable(c, t)
          /\ tasks' = [tasks EXCEPT ![c] = (@ \ {t}) \union {Query(t.starter, "sync", NoCursor)}]
          /\ UNCHANGED <<stream, browser>>
    /\ UNCHANGED <<logVars, brokerVars, watermark, drain, crossed, budget>>

ResumeFullSync(c, t) ==
    /\ t.answered /\ t.stage # "replay"
    /\ FinishReplay(c, t, Synced(View(c), t.max))
    /\ UNCHANGED <<logVars, brokerVars, watermark, drain, crossed, budget>>

(* closeClient; calls still in flight for the stream have no effect. *)
Close(c) ==
    /\ stream' = [stream EXCEPT ![c] = ClosedStream]
    /\ tasks' = [tasks EXCEPT ![c] = {}]

-----------------------------------------------------------------------------
(* recoverConnectedClients                                                 *)

OpenClients == {c \in Client : stream[c].open}

(* Mutant: clients keep receiving live events while they recover. *)
RecoverWithoutBuffering(starter) ==
    /\ tasks' = [c \in Client |->
                   IF c \in OpenClients
                     THEN tasks[c] \union {Begin(starter, stream[c].last)}
                     ELSE tasks[c]]
    /\ crossed' = crossed \union {c \in OpenClients : tasks[c] # {}}
    /\ UNCHANGED <<stream, browser>>

Recover(starter) ==
    /\ stream' = [c \in Client |->
                    IF c \in OpenClients THEN [stream[c] EXCEPT !.replaying = TRUE]
                                         ELSE stream[c]]
    /\ tasks' = [c \in Client |->
                   IF c \in OpenClients
                     THEN tasks[c] \union {Begin(starter, stream[c].last)}
                     ELSE tasks[c]]
    /\ crossed' = crossed \union {c \in OpenClients : tasks[c] # {}}
    /\ UNCHANGED browser

Awaited(starter) == \E c \in Client : \E t \in tasks[c] : t.starter = starter

-----------------------------------------------------------------------------
(* connectBroker, handleBrokerDisconnect, scheduleReconnect                *)

Listens(g) ==
    /\ conn[g].call = "dialing"
    /\ conn' = [conn EXCEPT ![g] = [@ EXCEPT !.call = "reading", !.up = TRUE]]
    /\ broker' = g
    /\ UNCHANGED <<logVars, ready, timer, watermark, wakes, drain, clientVars, budget>>

AnswerWatermark(g) ==
    /\ conn[g].call = "reading"
    /\ conn' = [conn EXCEPT ![g] = [@ EXCEPT !.call = "read", !.mark = last]]
    /\ UNCHANGED <<logVars, broker, ready, timer, watermark, wakes, drain, clientVars, budget>>

(* Mutant: connected clients are left as they are. *)
BecomeReadyOnly(g) ==
    /\ conn[g].call = "read"
    /\ conn' = [conn EXCEPT ![g] = [@ EXCEPT !.call = "recovering", !.mark = 0]]
    /\ watermark' = conn[g].mark
    /\ ready' = TRUE
    /\ UNCHANGED <<logVars, broker, timer, wakes, drain, clientVars, budget>>

(* Whether or not this connection is still the broker. *)
BecomeReady(g) ==
    /\ conn[g].call = "read"
    /\ conn' = [conn EXCEPT ![g] = [@ EXCEPT !.call = "recovering", !.mark = 0]]
    /\ watermark' = conn[g].mark
    /\ ready' = TRUE
    /\ Recover(Connecting(g))
    /\ UNCHANGED <<logVars, broker, timer, wakes, drain, budget>>

ConnectReturns(g) ==
    /\ conn[g].call = "recovering"
    /\ ~Awaited(Connecting(g))
    /\ conn' = [conn EXCEPT ![g] = [@ EXCEPT !.call = "none"]]
    /\ UNCHANGED <<logVars, broker, ready, timer, watermark, wakes, drain, clientVars, budget>>

(* The catch block of connectBroker. *)
ConnectFails(g) ==
    /\ conn' = [conn EXCEPT ![g] = NoConnection]
    /\ wakes' = wakes \ {g}
    /\ broker' = IF broker = g THEN 0 ELSE broker
    /\ ready' = FALSE
    /\ timer' = TRUE

DialOrReadFails(g) ==
    /\ conn[g].call \in {"dialing", "reading", "read"}
    /\ Spend("faults")
    /\ ConnectFails(g)
    /\ UNCHANGED <<logVars, watermark, drain, clientVars>>

(* Mutant: the broker is forgotten but nothing redials it. *)
SocketDropsUnnoticed(g) ==
    /\ conn[g].up
    /\ Spend("drops")
    /\ conn' = [conn EXCEPT ![g] = [@ EXCEPT !.up = FALSE]]
    /\ wakes' = wakes \ {g}
    /\ IF broker = g
         THEN broker' = 0 /\ ready' = FALSE /\ UNCHANGED timer
         ELSE UNCHANGED <<broker, ready, timer>>
    /\ UNCHANGED <<logVars, watermark, drain, clientVars>>

(* The connection ends or errs; an older connection is ignored. *)
SocketDrops(g) ==
    /\ conn[g].up
    /\ Spend("drops")
    /\ conn' = [conn EXCEPT ![g] = [@ EXCEPT !.up = FALSE]]
    /\ wakes' = wakes \ {g}
    /\ IF broker = g
         THEN broker' = 0 /\ ready' = FALSE /\ timer' = TRUE
         ELSE UNCHANGED <<broker, ready, timer>>
    /\ UNCHANGED <<logVars, watermark, drain, clientVars>>

TimerFires ==
    /\ timer
    /\ timer' = FALSE
    /\ \E g \in Connection :
         /\ conn[g] = NoConnection /\ ~Awaited(Connecting(g))
         /\ \A h \in 1..(g - 1) : conn[h] # NoConnection \/ Awaited(Connecting(h))
         /\ conn' = [conn EXCEPT ![g] = [@ EXCEPT !.call = "dialing"]]
    /\ UNCHANGED <<logVars, broker, ready, watermark, wakes, drain, clientVars, budget>>

-----------------------------------------------------------------------------
(* queueBrokerDrain and drainPublishedEvents                               *)

SendDrain(d, from) == [phase |-> "sent", requested |-> d, from |-> from, max |-> 0]

(* Mutant: a notification that finds a drain running is forgotten. *)
NotifiedWhenIdle(g) ==
    /\ g \in wakes
    /\ wakes' = wakes \ {g}
    /\ drain' = IF ready /\ drain.phase = "idle" THEN SendDrain(FALSE, watermark) ELSE drain
    /\ UNCHANGED <<logVars, conn, broker, ready, timer, watermark, clientVars, budget>>

(* A notification is a wake-up, and only counts while the broker is ready. *)
Notified(g) ==
    /\ g \in wakes
    /\ wakes' = wakes \ {g}
    /\ drain' = CASE ~ready -> drain
                  [] ready /\ drain.phase = "idle" -> SendDrain(FALSE, watermark)
                  [] OTHER -> [drain EXCEPT !.requested = TRUE]
    /\ UNCHANGED <<logVars, conn, broker, ready, timer, watermark, clientVars, budget>>

AnswerDrain ==
    /\ drain.phase = "sent"
    /\ drain' = [drain EXCEPT !.phase = "answered", !.max = last]
    /\ UNCHANGED <<logVars, brokerVars, watermark, clientVars, budget>>

(* Rows past the watermark the query was sent with, in delivery order. *)
DrainRows == {n \in (drain.from + 1)..drain.max : n <= drain.from + BatchSize}

(* "Invalid event delivery watermark", "Invalid event delivery sequence". *)
DrainIsStale == drain.max < watermark \/ (DrainRows # {} /\ drain.from < watermark)

(* Once more when a notification came in meanwhile. *)
NextDrain(w) == IF drain.requested THEN SendDrain(FALSE, w) ELSE IdleDrain

ResumeDrain ==
    /\ drain.phase = "answered"
    /\ ~DrainIsStale
    /\ LET w == IF DrainRows = {} THEN drain.max ELSE Max(DrainRows)
       IN  /\ watermark' = w
           /\ drain' = IF w < drain.max THEN SendDrain(drain.requested, w) ELSE NextDrain(w)
    /\ stream' = [c \in Client |-> DispatchTo(c, DrainRows).s]
    /\ browser' = [c \in Client |-> DispatchTo(c, DrainRows).b]
    /\ UNCHANGED <<logVars, brokerVars, tasks, crossed, budget>>

(* Mutant: the error is only logged. *)
DrainThrowsSilently ==
    /\ \/ drain.phase = "answered" /\ DrainIsStale /\ UNCHANGED budget
       \/ drain.phase \in {"sent", "answered"} /\ Spend("faults")
    /\ drain' = NextDrain(watermark)
    /\ UNCHANGED <<logVars, brokerVars, watermark, clientVars>>

(* The drain throws: every client recovers before another drain begins. *)
DrainThrows ==
    /\ \/ drain.phase = "answered" /\ DrainIsStale /\ UNCHANGED budget
       \/ drain.phase \in {"sent", "answered"} /\ Spend("faults")
    /\ drain' = [IdleDrain EXCEPT !.phase = "repairing", !.requested = drain.requested]
    /\ Recover(Repair)
    /\ UNCHANGED <<logVars, brokerVars, watermark>>

RepairEnds ==
    /\ drain.phase = "repairing"
    /\ ~Awaited(Repair)
    /\ drain' = NextDrain(watermark)
    /\ UNCHANGED <<logVars, brokerVars, watermark, clientVars, budget>>

-----------------------------------------------------------------------------
(* Failures of a task's query                                              *)

(* A new process: nothing but the log and the browsers is left. *)
Restart ==
    /\ conn' = FirstDial
    /\ broker' = 0
    /\ ready' = FALSE
    /\ timer' = FALSE
    /\ watermark' = 0
    /\ wakes' = {}
    /\ drain' = IdleDrain
    /\ stream' = [c \in Client |-> ClosedStream]
    /\ tasks' = [c \in Client |-> {}]

ProcessRestarts ==
    /\ Spend("drops")
    /\ Restart
    /\ UNCHANGED <<logVars, browser, crossed>>

(* A replay is replaced by a full sync; when that fails too, the stream is
   closed. *)
TaskFails(c, t) ==
    /\ t.stage # "finish"
    /\ Spend("faults")
    /\ IF t.stage = "retry"
         THEN Close(c)
         ELSE /\ tasks' = [tasks EXCEPT ![c] = (@ \ {t}) \union
                                                 {Query(t.starter, "retry", NoCursor)}]
              /\ UNCHANGED stream
    /\ UNCHANGED <<logVars, brokerVars, watermark, drain, browser, crossed>>

(* Nothing catches a failure in finishReplay: the request ends with its
   stream still open, connectBroker takes its catch block, and the drain's
   rejection is unhandled, which ends the process. *)
FinishFails(c, t) ==
    /\ t.stage = "finish"
    /\ Spend("faults")
    /\ \/ /\ t.starter = Request
          /\ tasks' = [tasks EXCEPT ![c] = @ \ {t}]
          /\ UNCHANGED <<brokerVars, watermark, drain, stream>>
       \/ /\ \E g \in Connection :
               /\ t.starter = Connecting(g)
               /\ IF conn[g].call = "recovering"
                    THEN ConnectFails(g)
                    ELSE UNCHANGED brokerVars
          /\ tasks' = [tasks EXCEPT ![c] = @ \ {t}]
          /\ UNCHANGED <<watermark, drain, stream>>
       \/ /\ t.starter = Repair
          /\ Restart
    /\ UNCHANGED <<logVars, browser, crossed>>

-----------------------------------------------------------------------------
(* Browsers                                                                *)

(* openStream: 503 while the broker is down, 429 while the session still
   has a stream (SSE_MAX_CONNECTIONS_PER_SESSION, 1 by default). *)
Accepting(c) == ready /\ ~stream[c].open

Connect(c) ==
    /\ browser[c].link = "retrying"
    /\ Accepting(c)
    /\ browser' = [browser EXCEPT ![c] = [@ EXCEPT !.link = "up"]]
    /\ stream' = [stream EXCEPT ![c] = [ClosedStream EXCEPT
                    !.open = TRUE, !.last = browser[c].cursor, !.replaying = TRUE]]
    /\ tasks' = [tasks EXCEPT ![c] = {Begin(Request, browser[c].cursor)}]
    /\ UNCHANGED <<logVars, brokerVars, watermark, drain, crossed, budget>>

(* An EventSource that is refused with an HTTP status does not try again. *)
Refuse(c) ==
    /\ browser[c].link = "retrying"
    /\ ~Accepting(c)
    /\ browser' = [browser EXCEPT ![c] = [@ EXCEPT !.link = "stopped"]]
    /\ UNCHANGED <<logVars, brokerVars, watermark, drain, stream, tasks, crossed, budget>>

(* The page makes a new EventSource, which has no cursor. *)
Reopen(c) ==
    /\ browser[c].link = "stopped"
    /\ browser' = [browser EXCEPT ![c] = [@ EXCEPT !.link = "retrying", !.cursor = NoCursor]]
    /\ UNCHANGED <<logVars, brokerVars, watermark, drain, stream, tasks, crossed, budget>>

(* The connection breaks, or the server has ended it. *)
LinkBreaks(c) ==
    /\ browser[c].link = "up"
    /\ \/ ~stream[c].open /\ UNCHANGED budget
       \/ stream[c].open /\ Spend("breaks")
    /\ browser' = [browser EXCEPT ![c] = [@ EXCEPT !.link = "retrying"]]
    /\ UNCHANGED <<logVars, brokerVars, watermark, drain, stream, tasks, crossed>>

(* "close" or "error" on a stream, or a write to one that is destroyed. *)
ServerNotices(c) ==
    /\ stream[c].open
    /\ browser[c].link # "up"
    /\ Close(c)
    /\ UNCHANGED <<logVars, brokerVars, watermark, drain, browser, crossed, budget>>

-----------------------------------------------------------------------------
TaskStep(c) ==
    \E t \in tasks[c] : AnswerTask(c, t) \/ ResumeReplay(c, t) \/ ResumeFullSync(c, t)

BrokerStep(g) ==
    \/ Listens(g)
    \/ AnswerWatermark(g)
    \/ BecomeReady(g)
    \/ ConnectReturns(g)
    \/ Notified(g)

DrainStep == AnswerDrain \/ ResumeDrain \/ (DrainThrows /\ DrainIsStale) \/ RepairEnds

Next ==
    \/ \E e \in Event : Publish(e)
    \/ Expire
    \/ \E g \in Connection : BrokerStep(g) \/ DialOrReadFails(g) \/ SocketDrops(g)
    \/ TimerFires
    \/ AnswerDrain \/ ResumeDrain \/ DrainThrows \/ RepairEnds
    \/ \E c \in Client : TaskStep(c)
    \/ \E c \in Client : \E t \in tasks[c] : TaskFails(c, t) \/ FinishFails(c, t)
    \/ \E c \in Client : Connect(c) \/ Refuse(c) \/ Reopen(c) \/ LinkBreaks(c)
                           \/ ServerNotices(c)
    \/ ProcessRestarts

Spec == Init /\ [][Next]_vars

(* Queries are answered, timers fire, sockets deliver, streams and browsers
   notice what happened. *)
ProgramStep ==
    \/ \E g \in Connection : BrokerStep(g)
    \/ TimerFires
    \/ DrainStep
    \/ \E c \in Client : \/ TaskStep(c)
                         \/ LinkBreaks(c) /\ ~stream[c].open
                         \/ ServerNotices(c)

(* The program does not stop while it can go on, and a browser retries.
   Nothing is promised of publications, retention or a user's reload. *)
Fairness ==
    /\ WF_vars(ProgramStep)
    /\ \A c \in Client : WF_vars(Connect(c) \/ Refuse(c))

FairSpec == Spec /\ Fairness

-----------------------------------------------------------------------------
(* Properties                                                              *)

(* Does browser c know of every event for it up to its cursor? *)
HasNoGap(c) ==
    \A n \in 1..Past(browser[c].cursor) : For(c, n) => n \in browser[c].got

(* "Existing clients replay from their own cursors below, so notifications
   committed between LISTEN and this snapshot cannot create a gap." *)
NoLastingGap == \A c \in Client : tasks[c] = {} => HasNoGap(c)

(* A browser is never moved past an event it was not told of, whatever was
   published, lost, expired or broken meanwhile, as long as no two calls of
   openStream and recoverConnectedClients were at work on its stream. *)
NoGapUnlessCrossed == \A c \in Client \ crossed : HasNoGap(c)

(* The id of a frame is never behind the last one: the cursor a browser will
   present moves back only when its page makes a new EventSource, as long as
   no two such calls were at work on its stream. *)
CursorsOnlyAdvance ==
    [][\A c \in Client \ crossed' :
         browser[c].link # "stopped" => Past(browser[c].cursor) <= Past(browser'[c].cursor)]_vars

(* A stream that does not replay has been sent all that the drain has gone
   past: the watermark never jumps over a live stream. *)
LiveClientsAreCurrent ==
    \A c \in OpenClients \ crossed :
      ~stream[c].replaying =>
        \A n \in 1..watermark : For(c, n) => n <= Past(stream[c].last)

(* A stream that replays, though nothing is left that would end it. *)
Stranded(c) == stream[c].open /\ stream[c].replaying /\ tasks[c] = {}

(* "events committed after it remain buffered and are delivered once replay
   ends": some call is there to end the replay. *)
ReplaysEnd == \A c \in Client : ~Stranded(c)

(* Every stream is either sent what the drain goes past, or has a call at
   work that will end its replay. *)
StreamsAreServed == LiveClientsAreCurrent /\ ReplaysEnd

BrokerIsComing == timer \/ \E g \in Connection : conn[g].call \in {"dialing", "reading", "read"}

(* Something still in flight will bring event n to stream c. *)
OnItsWay(c, n) ==
    \/ n \in stream[c].pending \/ stream[c].overflow
    \/ \E t \in tasks[c] : ~t.answered \/ n <= t.max
    \/ ready /\ broker \in wakes
    \/ drain.phase = "sent" \/ drain.requested
    \/ drain.phase = "answered" /\ (n <= drain.max \/ DrainIsStale)
    \/ BrokerIsComing

(* No wake-up is lost: an event its stream lacks is buffered, about to be
   replayed or drained, or else a new broker is on its way and will make
   every stream recover. *)
NothingIsForgotten ==
    \A c \in OpenClients \ crossed :
      ~Stranded(c) =>
        \A n \in 1..last : For(c, n) /\ n > Past(stream[c].last) => OnItsWay(c, n)

(* A broker that was lost comes back. *)
BrokerComesBack == ~ready ~> ready

(* Every event reaches every browser it is for, unless the browser gave up
   reconnecting, two recoveries of its stream crossed, or it is stranded. *)
EveryoneIsTold ==
    \A e \in Event : \A c \in Audience[e] :
      position[e] # 0 ~> \/ position[e] \in browser[c].got
                         \/ browser[c].link = "stopped"
                         \/ c \in crossed
                         \/ Stranded(c)
=============================================================================
