------------------------- MODULE EventStreamProofs -------------------------
(***************************************************************************)
(* Proofs about EventStream: no browser is moved past an event it was not  *)
(* told of, the watermark never jumps over a live stream, and no wake-up   *)
(* is lost, for any log, any streams and any interleaving of the queries.  *)
(***************************************************************************)
EXTENDS EventStream, FiniteSetTheorems, WellFoundedInduction, TLAPS

-----------------------------------------------------------------------------
(* Largest elements.                                                       *)

Smaller == {p \in Nat \X Nat : p[1] < p[2]}

LEMMA Least ==
    ASSUME NEW S \in SUBSET Nat, S # {}
    PROVE  \E x \in S : \A y \in S : x <= y
<1>1. IsWellFoundedOn(Smaller, Nat)
  BY NatLessThanWellFounded DEF OpToRel, Smaller
<1>2. PICK x \in S : \A y \in S : <<y, x>> \notin Smaller
  BY <1>1, WFMin
<1>3. ASSUME NEW y \in S PROVE x <= y
  <2>1. <<y, x>> \in Nat \X Nat
    OBVIOUS
  <2>2. ~(y < x)
    BY <1>2, <2>1 DEF Smaller
  <2> QED
    BY <2>2
<1> QED
  BY <1>3

LEMMA Largest ==
    ASSUME NEW b \in Nat, NEW S \in SUBSET (0..b), S # {}
    PROVE  Max(S) \in S /\ \A x \in S : x <= Max(S)
<1> DEFINE Down == {b - x : x \in S}
<1>1. Down \in SUBSET Nat
  OBVIOUS
<1>2. Down # {}
  OBVIOUS
<1>3. PICK d \in Down : \A e \in Down : d <= e
  BY <1>1, <1>2, Least
<1>4. PICK x \in S : d = b - x
  OBVIOUS
<1>5. ASSUME NEW y \in S PROVE x >= y
  <2>1. b - y \in Down
    OBVIOUS
  <2> QED
    BY <1>3, <1>4, <2>1
<1>6. Max(S) \in S /\ \A y \in S : Max(S) >= y
  BY <1>5 DEF Max
<1> QED
  BY <1>6

-----------------------------------------------------------------------------
(* The log.                                                                *)

(* Its places are taken in order, one event each. *)
LogInv ==
    /\ position \in [Event -> 0..last] /\ last \in Nat /\ floor \in 0..last
    /\ \A n \in 1..last : \E e \in Event : position[e] = n
    /\ \A d, e \in Event : position[d] = position[e] => d = e \/ position[d] = 0

LEMMA EventsHavePlaces ==
    ASSUME LogInv, NEW e \in Event, position[e] # 0
    PROVE  EventAt(position[e]) = e
BY DEF LogInv, EventAt

LEMMA PlacesFit == LogInv => last <= Cardinality(Event)
<1> SUFFICES ASSUME LogInv PROVE last <= Cardinality(Event)
  OBVIOUS
<1> DEFINE f == [n \in 1..last |-> EventAt(n)]
<1>1. \A n \in 1..last : EventAt(n) \in Event /\ position[EventAt(n)] = n
  BY DEF LogInv, EventAt
<1>2. f \in Injection(1..last, Event)
  BY <1>1 DEF Injection, IsInjective
<1>3. Cardinality(1..last) <= Cardinality(Event)
  BY <1>2, EventAssumption, FS_Injection
<1>4. Cardinality(1..last) = last
  BY FS_Interval DEF LogInv
<1> QED
  BY <1>3, <1>4

(* The places of the events that are for a client. *)
Mine(c) == {n \in 1..last : For(c, n)}

LEMMA PublishExtendsLog ==
    ASSUME LogInv, NEW e \in Event, last' = last + 1, AppendBatch({e})
    PROVE  /\ LogInv'
           /\ \A c \in Client : Mine(c) \subseteq Mine(c)' /\ Mine(c)' \subseteq Mine(c) \union {last + 1}
<1>1. PICK place \in [{e} -> (last + 1)..last'] :
          position' = [d \in Event |-> IF d \in {e} THEN place[d] ELSE position[d]]
  BY DEF AppendBatch
<1>2. position[e] = 0 /\ floor' = floor
  BY DEF AppendBatch
<1>3. place[e] = last + 1
  BY DEF LogInv
<1>4. position'[e] = last + 1 /\ \A d \in Event \ {e} : position'[d] = position[d]
  BY <1>1, <1>3
<1>5. LogInv'
  <2>1. position' \in [Event -> 0..last'] /\ last' \in Nat /\ floor' \in 0..last'
    BY <1>1, <1>2, <1>4 DEF LogInv
  <2>2. ASSUME NEW n \in 1..last' PROVE \E d \in Event : position'[d] = n
    <3>1. CASE n = last + 1
      BY <1>4, <3>1
    <3>2. CASE n \in 1..last
      BY <1>2, <1>4, <3>2 DEF LogInv
    <3> QED
      BY <3>1, <3>2 DEF LogInv
  <2>3. ASSUME NEW d \in Event, NEW g \in Event, position'[d] = position'[g]
        PROVE  d = g \/ position'[d] = 0
    BY <1>4, <2>3 DEF LogInv
  <2> QED
    BY <2>1, <2>2, <2>3 DEF LogInv
<1>6. ASSUME NEW n \in 1..last PROVE EventAt(n)' = EventAt(n)
  <2>1. PICK d \in Event : position[d] = n
    BY DEF LogInv
  <2>2. position'[d] = n
    BY <1>2, <1>4, <2>1
  <2>3. EventAt(n) = d
    BY <2>1, EventsHavePlaces
  <2>4. \A g \in Event : position'[g] = n => g = d
    BY <1>5, <2>2 DEF LogInv
  <2> QED
    BY <2>2, <2>3, <2>4 DEF EventAt
<1> QED
  BY <1>5, <1>6 DEF Mine, For, LogInv

-----------------------------------------------------------------------------
(* Types: what the module knows lies in the log as it is now.              *)

CursorType(n) == (0..n) \union {NoCursor}
ConnType(n) ==
    [call : {"none", "dialing", "reading", "read", "recovering"}, up : BOOLEAN, mark : 0..n]
DrainType(n) ==
    [phase : {"idle", "sent", "answered", "repairing"}, requested : BOOLEAN, from : 0..n, max : 0..n]
StreamType(n) ==
    [open : BOOLEAN, last : CursorType(n), replaying : BOOLEAN, overflow : BOOLEAN,
     pending : SUBSET (0..n)]
TaskType(n) ==
    [starter : Starter, stage : {"replay", "sync", "retry", "finish"}, answered : BOOLEAN,
     after : CursorType(n), max : 0..n, low : 0..n]
BrowserType(n) ==
    [link : {"up", "retrying", "stopped"}, cursor : CursorType(n), got : SUBSET (0..n)]
ViewType(n) == [s : StreamType(n), b : BrowserType(n)]

BrokerTyped ==
    /\ conn \in [Connection -> ConnType(last)]
    /\ broker \in Connection \union {0}
    /\ ready \in BOOLEAN /\ timer \in BOOLEAN
    /\ wakes \subseteq Connection
    /\ watermark \in 0..last
    /\ drain \in DrainType(last)
    /\ budget \in [drops : Nat, faults : Nat, breaks : Nat]

ClientsTyped ==
    /\ stream \in [Client -> StreamType(last)]
    /\ \A c \in Client : /\ Cardinality(stream[c].pending) <= ReplayLimit
                         /\ stream[c].overflow => stream[c].pending = {}
    /\ tasks \in [Client -> SUBSET TaskType(last)]
    /\ \A c \in Client : \A t \in tasks[c] : t.stage = "replay" => t.after # NoCursor
    /\ browser \in [Client -> BrowserType(last)]
    /\ crossed \subseteq Client

LEMMA TypesGrow ==
    ASSUME NEW m \in Nat, NEW n \in Nat, m <= n
    PROVE  /\ ConnType(m) \subseteq ConnType(n) /\ DrainType(m) \subseteq DrainType(n)
           /\ StreamType(m) \subseteq StreamType(n) /\ TaskType(m) \subseteq TaskType(n)
           /\ BrowserType(m) \subseteq BrowserType(n)
<1>1. 0..m \subseteq 0..n
  OBVIOUS
<1>2. CursorType(m) \subseteq CursorType(n)
  BY <1>1 DEF CursorType
<1>3. SUBSET (0..m) \subseteq SUBSET (0..n)
  BY <1>1
<1> QED
  BY <1>1, <1>2, <1>3 DEF ConnType, DrainType, StreamType, TaskType, BrowserType

LEMMA TypesImplyTypeOK == LogInv /\ BrokerTyped /\ ClientsTyped => TypeOK
<1> SUFFICES ASSUME LogInv, BrokerTyped, ClientsTyped PROVE TypeOK
  OBVIOUS
<1>1. Cardinality(Event) \in Nat /\ last <= Cardinality(Event) /\ last \in Nat
  BY PlacesFit, EventAssumption, FS_CardinalityType DEF LogInv
<1> DEFINE N == Cardinality(Event)
<1>2. /\ conn \in [Connection -> ConnType(N)] /\ drain \in DrainType(N)
      /\ stream \in [Client -> StreamType(N)] /\ browser \in [Client -> BrowserType(N)]
      /\ \A c \in Client : tasks[c] \subseteq TaskType(N)
      /\ watermark \in 0..N
  <2>1. /\ ConnType(last) \subseteq ConnType(N) /\ DrainType(last) \subseteq DrainType(N)
        /\ StreamType(last) \subseteq StreamType(N) /\ TaskType(last) \subseteq TaskType(N)
        /\ BrowserType(last) \subseteq BrowserType(N)
    BY <1>1, TypesGrow
  <2> QED
    BY <1>1, <2>1 DEF BrokerTyped, ClientsTyped
<1>3. LogTypeOK
  BY DEF LogInv, LogTypeOK
<1> QED
  BY <1>2, <1>3 DEF TypeOK, BrokerTyped, ClientsTyped, ConnType, DrainType, StreamType, TaskType,
                    BrowserType, CursorType, Task, Cursor, Place

-----------------------------------------------------------------------------
(* What one stream and its browser are sent.                               *)

LEMMA PastCursor ==
    ASSUME NEW N \in Nat, NEW x \in CursorType(N)
    PROVE  Past(x) \in 0..N /\ (x # NoCursor => Past(x) = x)
BY NoCursorAssumption DEF CursorType, Past

(* A browser that is connected holds the cursor its stream has; one that is *)
(* not keeps what it had.                                                  *)
InStep(v) == v.b.link = "up" => v.b.cursor = v.s.last

(* It was told of everything for it that its cursor is past. *)
NoGap(v, mine) == \A n \in mine : n <= Past(v.b.cursor) => n \in v.b.got

(* The view v after a frame with this id that tells of these places. *)
Framed(v, id, places, r) ==
    /\ r.s = [v.s EXCEPT !.last = id] /\ r.s.last = id
    /\ r.b.link = v.b.link
    /\ v.b.link # "up" => r.b = v.b
    /\ v.b.link = "up" => r.b.cursor = id /\ r.b.got = v.b.got \union places

LEMMA FrameFacts ==
    ASSUME NEW N \in Nat, NEW v \in ViewType(N), NEW id \in 0..N, NEW places \in SUBSET (0..N)
    PROVE  /\ Frame(v, id, places) \in ViewType(N)
           /\ Framed(v, id, places, Frame(v, id, places))
<1>1. id \in CursorType(N)
  BY DEF CursorType
<1> QED
  BY <1>1 DEF Frame, Framed, ViewType, StreamType, BrowserType

(* The view v after the events at these places: its cursor has only moved   *)
(* past them, if it had not before.                                        *)
Advanced(v, places, r) ==
    /\ r.s = [v.s EXCEPT !.last = r.s.last]
    /\ r.b.link = v.b.link
    /\ v.b.link # "up" => r.b = v.b
    /\ Past(v.s.last) <= Past(r.s.last)
    /\ \A n \in places : n <= Past(r.s.last)
    /\ r.s.last = v.s.last \/ r.s.last \in places

(* Nothing of its client lies unsent below these places. *)
Unbroken(v, mine, places) ==
    /\ InStep(v) /\ NoGap(v, mine)
    /\ \A n \in mine, m \in places : Past(v.s.last) < n /\ n < m => n \in places

LEMMA SentFacts ==
    ASSUME NEW N \in Nat, NEW v \in ViewType(N), NEW places \in SUBSET (0..N),
           NEW mine \in SUBSET (0..N)
    PROVE  /\ Sent(v, places) \in ViewType(N)
           /\ Advanced(v, places, Sent(v, places))
           /\ Unbroken(v, mine, places) => InStep(Sent(v, places)) /\ NoGap(Sent(v, places), mine)
<1> DEFINE fresh == {n \in places : n > Past(v.s.last)}
           r == Sent(v, places)
<1>0. v.s.last \in CursorType(N) /\ Past(v.s.last) \in 0..N
  BY PastCursor DEF ViewType, StreamType
<1>1. CASE fresh = {}
  <2>1. r = v
    BY <1>1 DEF Sent
  <2>2. v.s = [v.s EXCEPT !.last = v.s.last]
    BY DEF ViewType, StreamType
  <2>3. \A n \in places : n <= Past(v.s.last)
    BY <1>0, <1>1
  <2> HIDE DEF r
  <2> QED
    BY <1>0, <2>1, <2>2, <2>3 DEF Advanced, Unbroken, r
<1>2. CASE fresh # {}
  <2>1. fresh \in SUBSET (0..N)
    OBVIOUS
  <2>2. PICK top \in fresh : r = Frame(v, top, fresh) /\ \A n \in fresh : n <= top
    <3>1. Max(fresh) \in fresh /\ \A n \in fresh : n <= Max(fresh)
      BY <1>2, <2>1, Largest
    <3>2. r = Frame(v, Max(fresh), fresh)
      BY <1>2 DEF Sent
    <3> QED
      BY <3>1, <3>2
  <2>3. top \in 0..N /\ top \in places /\ top > Past(v.s.last)
    OBVIOUS
  <2>4. r \in ViewType(N) /\ Framed(v, top, fresh, r)
    BY <2>1, <2>2, <2>3, FrameFacts
  <2>5. \A n \in places : n <= top
    BY <1>0, <2>2, <2>3
  <2>6. Past(top) = top
    BY <2>3, NoCursorAssumption DEF Past
  <2>7. ASSUME Unbroken(v, mine, places), NEW n \in mine, Past(v.s.last) < n, n <= top
        PROVE  n \in fresh
    <3>1. n = top \/ n < top
      BY <2>3, <2>7
    <3> QED
      BY <1>0, <2>3, <2>7, <3>1 DEF Unbroken
  <2> HIDE DEF r, fresh
  <2>8. Advanced(v, places, r) /\ InStep(r)
    BY <1>0, <2>3, <2>4, <2>5, <2>6 DEF Advanced, Framed, InStep
  <2>9. ASSUME Unbroken(v, mine, places) PROVE NoGap(r, mine)
    <3>0. NoGap(v, mine) /\ InStep(v)
      BY <2>9 DEF Unbroken
    <3>1. CASE v.b.link # "up"
      BY <2>4, <3>0, <3>1 DEF Framed, NoGap
    <3>2. CASE v.b.link = "up"
      <4>1. r.b.cursor = top /\ r.b.got = v.b.got \union fresh /\ v.b.cursor = v.s.last
        BY <2>4, <3>0, <3>2 DEF Framed, InStep
      <4> SUFFICES ASSUME NEW n \in mine, n <= top PROVE n \in v.b.got \union fresh
        BY <2>6, <4>1 DEF NoGap
      <4> QED
        BY <1>0, <2>7, <2>9, <3>0, <4>1 DEF NoGap
    <3> QED
      BY <3>1, <3>2
  <2> QED
    BY <2>4, <2>8, <2>9 DEF r
<1> QED
  BY <1>1, <1>2

LEMMA SyncedFacts ==
    ASSUME NEW N \in Nat, NEW v \in ViewType(N), NEW w \in 0..N, NEW mine \in SUBSET (1..N),
           NoGap(v, mine)
    PROVE  /\ Synced(v, w) \in ViewType(N)
           /\ Framed(v, w, 1..w, Synced(v, w)) /\ Past(w) = w
           /\ InStep(Synced(v, w)) /\ NoGap(Synced(v, w), mine)
<1> DEFINE r == Synced(v, w)
<1>1. 1..w \in SUBSET (0..N) /\ r = Frame(v, w, 1..w)
  BY DEF Synced
<1>2. Past(w) = w
  BY NoCursorAssumption DEF Past
<1> HIDE DEF r
<1>3. r \in ViewType(N) /\ Framed(v, w, 1..w, r)
  BY <1>1, FrameFacts
<1>4. InStep(r)
  BY <1>3 DEF Framed, InStep
<1>5. NoGap(r, mine)
  BY <1>2, <1>3 DEF Framed, NoGap
<1> QED
  BY <1>2, <1>3, <1>4, <1>5 DEF r

(* What waits in a buffer stays, unless the buffer overflows. *)
Kept(s, places, r) ==
    /\ Cardinality(r.pending) <= ReplayLimit
    /\ r.open = s.open /\ r.last = s.last /\ r.replaying = s.replaying
    /\ r.overflow => r.pending = {}
    /\ ~r.overflow => /\ ~s.overflow
                      /\ r.pending = s.pending \union {n \in places : n > Past(s.last)}

LEMMA BufferedFacts ==
    ASSUME NEW N \in Nat, NEW s \in StreamType(N), NEW places \in SUBSET (0..N),
           Cardinality(s.pending) <= ReplayLimit, s.overflow => s.pending = {}
    PROVE  Buffered(s, places) \in StreamType(N) /\ Kept(s, places, Buffered(s, places))
<1> DEFINE r == Buffered(s, places)
<1> DEFINE fresh == {n \in places : n > Past(s.last)}
           full == \E n \in fresh :
                      Cardinality(s.pending \union {m \in fresh : m < n}) >= ReplayLimit
<1>0. ReplayLimit \in Nat \ {0} /\ s.pending \in SUBSET (0..N) /\ fresh \in SUBSET (0..N)
  BY LimitsAssumption DEF StreamType
<1>1. CASE s.overflow
  <2>1. r = s
    BY <1>1 DEF Buffered
  <2> HIDE DEF r
  <2> QED
    BY <1>1, <2>1 DEF Kept, r
<1>2. CASE ~s.overflow /\ full
  <2>1. r = [s EXCEPT !.overflow = TRUE, !.pending = {}]
    BY <1>2 DEF Buffered
  <2>2. r \in StreamType(N) /\ r.open = s.open /\ r.last = s.last /\ r.replaying = s.replaying
    BY <2>1 DEF StreamType
  <2>3. r.overflow /\ r.pending = {}
    BY <2>1 DEF StreamType
  <2>4. Cardinality({}) = 0 /\ 0 <= ReplayLimit
    BY <1>0, FS_EmptySet
  <2> QED
    BY <2>2, <2>3, <2>4 DEF Kept
<1>3. CASE ~s.overflow /\ ~full
  <2>1. r = [s EXCEPT !.pending = s.pending \union fresh]
    BY <1>3 DEF Buffered
  <2>2. Cardinality(s.pending \union fresh) <= ReplayLimit
    <3>1. CASE fresh = {}
      <4>1. s.pending \union fresh = s.pending
        BY <3>1
      <4> QED
        BY <4>1
    <3>2. CASE fresh # {}
      <4> DEFINE top == Max(fresh)
                 under == s.pending \union {m \in fresh : m < top}
      <4>1. top \in fresh /\ \A n \in fresh : n <= top
        BY <1>0, <3>2, Largest
      <4>2. s.pending \union fresh = under \union {top}
        BY <1>0, <4>1
      <4>3. IsFiniteSet(under) /\ Cardinality(under) \in Nat
        <5>1. IsFiniteSet(0..N) /\ under \in SUBSET (0..N)
          BY <1>0, FS_Interval
        <5> QED
          BY <5>1, FS_Subset, FS_CardinalityType
      <4>4. ~(Cardinality(under) >= ReplayLimit)
        BY <1>3, <4>1
      <4>5. /\ IsFiniteSet(under \union {top})
            /\ Cardinality(under \union {top}) \in {Cardinality(under), Cardinality(under) + 1}
        <5> HIDE DEF under, top
        <5> QED
          BY <4>3, FS_AddElement, Zenon
      <4> HIDE DEF under, fresh, top
      <4>6. Cardinality(under \union {top}) \in Nat
        BY <4>5, FS_CardinalityType
      <4> QED
        BY <1>0, <4>2, <4>3, <4>4, <4>5, <4>6
    <3> QED
      BY <3>1, <3>2
  <2>3. s.pending \union fresh \in SUBSET (0..N)
    BY <1>0
  <2> HIDE DEF fresh
  <2>4. r.pending = s.pending \union fresh /\ ~r.overflow
    BY <1>3, <2>1 DEF StreamType
  <2>5. r \in StreamType(N) /\ r.open = s.open /\ r.last = s.last /\ r.replaying = s.replaying
    BY <2>1, <2>3 DEF StreamType
  <2>6. Kept(s, places, r)
    BY <1>3, <2>2, <2>4, <2>5 DEF Kept, fresh
  <2> QED
    BY <2>5, <2>6
<1> QED
  BY <1>1, <1>2, <1>3

-----------------------------------------------------------------------------
(* How a stream stands to the places of its client and to those the drain  *)
(* has gone past.                                                          *)

(* The answer of a task and the buffer leave nothing out between them. *)
Covers(s, t, mine, behind) ==
    /\ Past(s.last) <= t.max
    /\ ~s.overflow => \A n \in mine \cap behind : n <= t.max \/ n \in s.pending
    /\ \A n \in mine, m \in s.pending : t.max < n /\ n < m => n \in s.pending

Served(v, T, mine, behind) ==
    /\ T # {} => v.s.open /\ v.s.replaying
    /\ \A t, u \in T : t = u
    /\ v.s.open => InStep(v)
    /\ v.s.open /\ ~v.s.replaying =>
         /\ ~v.s.overflow /\ v.s.pending = {}
         /\ \A n \in mine \cap behind : n <= Past(v.s.last)
    /\ \A t \in T : t.stage = "replay" => t.after = v.s.last
    /\ \A t \in T : t.answered => Covers(v.s, t, mine, behind)
    /\ NoGap(v, mine)

(* A new event at the end of the log, and a drain that goes past no more    *)
(* than before, leave a stream as well served as it was.                   *)
LEMMA ServedLater ==
    ASSUME NEW N \in Nat, NEW v \in ViewType(N), NEW T \in SUBSET TaskType(N),
           NEW mine \in SUBSET (1..N), NEW behind,
           NEW mine2 \in SUBSET (mine \union {N + 1}), NEW behind2,
           Served(v, T, mine, behind), N + 1 \notin behind2, mine \cap behind2 \subseteq behind
    PROVE  Served(v, T, mine2, behind2)
<1>1. mine2 \cap behind2 \subseteq mine \cap behind
  OBVIOUS
<1>2. NoGap(v, mine2)
  <2>1. v.b.cursor \in CursorType(N) /\ Past(v.b.cursor) \in 0..N
    BY PastCursor DEF ViewType, BrowserType
  <2> QED
    BY <2>1 DEF Served, NoGap
<1>3. ASSUME NEW t \in T, t.answered PROVE Covers(v.s, t, mine2, behind2)
  <2>1. v.s.pending \in SUBSET (0..N)
    BY DEF ViewType, StreamType
  <2>2. Covers(v.s, t, mine, behind)
    BY <1>3 DEF Served
  <2>3. \A n \in mine2, m \in v.s.pending : n < m => n \in mine
    BY <2>1
  <2> QED
    BY <1>1, <2>2, <2>3 DEF Covers
<1> QED
  BY <1>1, <1>2, <1>3 DEF Served

(* A query that was just answered tells of the whole log. *)
LEMMA ServedAnswered ==
    ASSUME NEW N \in Nat, NEW v \in ViewType(N), NEW T \in SUBSET TaskType(N),
           NEW mine \in SUBSET (1..N), NEW behind, Served(v, T, mine, behind),
           NEW t \in T, NEW low
    PROVE  Served(v, (T \ {t}) \union {[t EXCEPT !.answered = TRUE, !.max = N, !.low = low]},
                  mine, behind)
<1> DEFINE u == [t EXCEPT !.answered = TRUE, !.max = N, !.low = low]
           U == (T \ {t}) \union {u}
<1>1. U = {u}
  BY DEF Served
<1>2. u.stage = t.stage /\ u.after = t.after /\ u.max = N
  BY DEF TaskType
<1>3. Past(v.s.last) \in 0..N /\ v.s.pending \in SUBSET (0..N)
  BY PastCursor DEF ViewType, StreamType
<1> HIDE DEF u
<1>4. Covers(v.s, u, mine, behind)
  BY <1>2, <1>3 DEF Covers
<1>5. Served(v, {u}, mine, behind)
  BY <1>2, <1>4 DEF Served
<1> QED
  BY <1>1, <1>5 DEF u

(* A stream that begins to recover, and only now has a call at work. *)
LEMMA ServedBegin ==
    ASSUME NEW N \in Nat, NEW v \in ViewType(N), NEW T, NEW mine, NEW behind, NEW behind2,
           Served(v, T, mine, behind), v.s.open, T = {}, NEW starter
    PROVE  Served([s |-> [v.s EXCEPT !.replaying = TRUE], b |-> v.b],
                  T \union {Begin(starter, v.s.last)}, mine, behind2)
<1> DEFINE r == [s |-> [v.s EXCEPT !.replaying = TRUE], b |-> v.b]
           u == Begin(starter, v.s.last)
<1>1. /\ r.b = v.b /\ r.s.open /\ r.s.replaying /\ r.s.last = v.s.last
  BY DEF ViewType, StreamType
<1>2. ~u.answered /\ (u.stage = "replay" => u.after = v.s.last)
  BY DEF Begin, Query
<1> HIDE DEF r, u
<1>3. InStep(r) /\ NoGap(r, mine)
  BY <1>1 DEF Served, InStep, NoGap
<1>4. T \union {u} = {u}
  OBVIOUS
<1>5. Served(r, {u}, mine, behind2)
  BY <1>1, <1>2, <1>3 DEF Served
<1> QED
  BY <1>4, <1>5 DEF r, u

(* A stream that has been sent the answer of its task, and only has its     *)
(* buffer left to look at.                                                 *)
Finishing(v, mine, behind) ==
    /\ v.s.open /\ v.s.replaying
    /\ InStep(v) /\ NoGap(v, mine)
    /\ ~v.s.overflow => \A n \in mine \cap behind : n <= Past(v.s.last) \/ n \in v.s.pending
    /\ \A n \in mine, m \in v.s.pending : Past(v.s.last) < n /\ n < m => n \in v.s.pending

Live(v) ==
    LET flushed == Sent(v, v.s.pending)
    IN  [s |-> [flushed.s EXCEPT !.pending = {}, !.replaying = FALSE], b |-> flushed.b]

LEMMA ServedLive ==
    ASSUME NEW N \in Nat, NEW v \in ViewType(N), NEW mine \in SUBSET (1..N), NEW behind,
           Finishing(v, mine, behind), ~v.s.overflow
    PROVE  /\ Live(v) \in ViewType(N) /\ Served(Live(v), {}, mine, behind)
           /\ Live(v).s.pending = {} /\ ~Live(v).s.overflow
           /\ \A n \in mine : n > Past(Live(v).s.last) => n > Past(v.s.last) /\ n \notin v.s.pending
<1> DEFINE f == Sent(v, v.s.pending)
           r == Live(v)
<1>1. v.s.pending \in SUBSET (0..N) /\ mine \in SUBSET (0..N) /\ v.s.last \in CursorType(N)
  BY DEF ViewType, StreamType
<1>2. f \in ViewType(N) /\ Advanced(v, v.s.pending, f) /\ InStep(f) /\ NoGap(f, mine)
  <2>1. Unbroken(v, mine, v.s.pending)
    BY DEF Finishing, Unbroken
  <2> QED
    BY <1>1, <2>1, SentFacts
<1> HIDE DEF f
<1>3. /\ r \in ViewType(N) /\ r.b = f.b /\ r.s.last = f.s.last
      /\ r.s.pending = {} /\ ~r.s.replaying
      /\ r.s.overflow = f.s.overflow /\ r.s.open = f.s.open
  BY <1>2 DEF Live, f, ViewType, StreamType
<1>4. f.s.overflow = v.s.overflow /\ f.s.open = v.s.open
  BY <1>2 DEF Advanced, ViewType, StreamType
<1>5. /\ Past(v.s.last) \in 0..N /\ Past(f.s.last) \in 0..N
      /\ Past(v.s.last) <= Past(f.s.last) /\ \A n \in v.s.pending : n <= Past(f.s.last)
  BY <1>1, <1>2, PastCursor DEF Advanced, ViewType, StreamType
<1> HIDE DEF r
<1>6. \A n \in mine \cap behind : n <= Past(r.s.last)
  BY <1>1, <1>3, <1>5 DEF Finishing
<1>7. InStep(r) /\ NoGap(r, mine)
  BY <1>2, <1>3 DEF InStep, NoGap
<1>8. Served(r, {}, mine, behind)
  BY <1>3, <1>4, <1>6, <1>7 DEF Served
<1>9. ASSUME NEW n \in mine, n > Past(r.s.last) PROVE n > Past(v.s.last) /\ n \notin v.s.pending
  <2>1. n \in 0..N /\ Past(r.s.last) = Past(f.s.last)
    BY <1>1, <1>3
  <2>2. n > Past(v.s.last)
    BY <1>5, <1>9, <2>1
  <2>3. ~(n <= Past(f.s.last))
    BY <1>5, <1>9, <2>1
  <2> QED
    BY <1>5, <2>2, <2>3
<1> QED
  BY <1>3, <1>4, <1>8, <1>9 DEF r

Resynced(v) == [s |-> [v.s EXCEPT !.overflow = FALSE, !.pending = {}], b |-> v.b]

LEMMA ServedResynced ==
    ASSUME NEW N \in Nat, NEW v \in ViewType(N), NEW mine, NEW behind,
           Finishing(v, mine, behind), NEW starter, NEW stage \in {"sync", "retry", "finish"}
    PROVE  /\ Resynced(v) \in ViewType(N) /\ Resynced(v).s.pending = {}
           /\ Served(Resynced(v), {Query(starter, stage, NoCursor)}, mine, behind)
<1> DEFINE r == Resynced(v)
           u == Query(starter, stage, NoCursor)
<1>1. /\ r \in ViewType(N) /\ r.b = v.b /\ r.s.last = v.s.last /\ r.s.pending = {}
      /\ r.s.open = v.s.open /\ r.s.replaying = v.s.replaying
  BY DEF Resynced, ViewType, StreamType
<1>2. ~u.answered /\ u.stage # "replay"
  BY DEF Query
<1> HIDE DEF r, u
<1>3. InStep(r) /\ NoGap(r, mine)
  BY <1>1 DEF Finishing, InStep, NoGap
<1>4. Served(r, {u}, mine, behind)
  BY <1>1, <1>2, <1>3 DEF Served, Finishing
<1> QED
  BY <1>1, <1>4 DEF r, u

LEMMA FinishingReplay ==
    ASSUME NEW N \in Nat, NEW v \in ViewType(N), NEW T \in SUBSET TaskType(N),
           NEW mine \in SUBSET (1..N), NEW behind, Served(v, T, mine, behind),
           NEW t \in T, t.answered, t.stage = "replay", t.after # NoCursor, t.low <= t.after,
           NEW rows, rows = {n \in (t.after + 1)..t.max : n > t.low /\ n \in mine}
    PROVE  /\ Finishing(Sent(v, rows), mine, behind)
           /\ \A n \in mine : n > Past(Sent(v, rows).s.last) => n > t.max
<1> DEFINE r == Sent(v, rows)
<1>1. /\ t.after \in 0..N /\ t.max \in 0..N /\ t.low \in 0..N
      /\ v.s.last = t.after /\ Past(v.s.last) = t.after
  BY NoCursorAssumption DEF TaskType, CursorType, Served, Past
<1>2. rows \in SUBSET (0..N) /\ mine \in SUBSET (0..N)
  BY <1>1
<1>3. v.s.open /\ v.s.replaying /\ InStep(v) /\ NoGap(v, mine) /\ Covers(v.s, t, mine, behind)
  BY DEF Served
<1>4. ASSUME NEW n \in mine, NEW m \in rows, Past(v.s.last) < n, n < m PROVE n \in rows
  <2>1. n \in 0..N /\ m \in (t.after + 1)..t.max
    BY <1>2
  <2>2. n \in (t.after + 1)..t.max /\ n > t.low
    BY <1>1, <1>4, <2>1
  <2> QED
    BY <2>2
<1>5. \A n \in mine : n \in rows \/ n <= t.after \/ n > t.max
  <2> SUFFICES ASSUME NEW n \in mine, ~(n <= t.after), ~(n > t.max) PROVE n \in rows
    OBVIOUS
  <2>1. n \in 0..N
    BY <1>2
  <2>2. n \in (t.after + 1)..t.max /\ n > t.low
    BY <1>1, <2>1
  <2> QED
    BY <2>2
<1>6. r \in ViewType(N) /\ Advanced(v, rows, r) /\ InStep(r) /\ NoGap(r, mine)
  <2> HIDE DEF r
  <2>1. r = Sent(v, rows)
    BY DEF r
  <2>2. Unbroken(v, mine, rows)
    BY <1>3, <1>4 DEF Unbroken
  <2> QED
    BY <1>2, <2>1, <2>2, SentFacts
<1> HIDE DEF r
<1>7. /\ r.s.open /\ r.s.replaying /\ r.s.pending = v.s.pending /\ r.s.overflow = v.s.overflow
      /\ r.s.last \in CursorType(N) /\ Past(r.s.last) \in 0..N
  BY <1>3, <1>6, PastCursor DEF Advanced, ViewType, StreamType
<1>8. t.after <= Past(r.s.last) /\ \A n \in rows : n <= Past(r.s.last)
  BY <1>1, <1>6 DEF Advanced
<1>9. \A n \in mine : n > Past(r.s.last) => n > t.max
  <2> SUFFICES ASSUME NEW n \in mine, n > Past(r.s.last) PROVE n > t.max
    OBVIOUS
  <2>1. n \in 0..N
    BY <1>2
  <2>2. n \notin rows /\ ~(n <= t.after)
    BY <1>1, <1>7, <1>8, <2>1
  <2> QED
    BY <1>5, <2>2
<1>10. ~r.s.overflow => \A n \in mine \cap behind : n <= Past(r.s.last) \/ n \in r.s.pending
  BY <1>1, <1>2, <1>3, <1>7, <1>9 DEF Covers
<1>11. \A n \in mine, m \in r.s.pending : Past(r.s.last) < n /\ n < m => n \in r.s.pending
  BY <1>1, <1>2, <1>3, <1>7, <1>9 DEF Covers
<1> QED
  BY <1>6, <1>7, <1>9, <1>10, <1>11 DEF Finishing, r

LEMMA FinishingSync ==
    ASSUME NEW N \in Nat, NEW v \in ViewType(N), NEW T \in SUBSET TaskType(N),
           NEW mine \in SUBSET (1..N), NEW behind, Served(v, T, mine, behind),
           NEW t \in T, t.answered
    PROVE  /\ Synced(v, t.max) \in ViewType(N) /\ Finishing(Synced(v, t.max), mine, behind)
           /\ Synced(v, t.max).s.pending = v.s.pending /\ Synced(v, t.max).s.overflow = v.s.overflow
           /\ Past(Synced(v, t.max).s.last) = t.max
<1> DEFINE r == Synced(v, t.max)
<1>1. t.max \in 0..N
  BY DEF TaskType
<1>2. v.s.open /\ v.s.replaying /\ NoGap(v, mine) /\ Covers(v.s, t, mine, behind)
  BY DEF Served
<1>3. /\ r \in ViewType(N) /\ Framed(v, t.max, 1..t.max, r) /\ Past(t.max) = t.max
      /\ InStep(r) /\ NoGap(r, mine)
  BY <1>1, <1>2, SyncedFacts
<1> HIDE DEF r
<1>4. /\ r.s.open /\ r.s.replaying /\ r.s.pending = v.s.pending /\ r.s.overflow = v.s.overflow
      /\ Past(r.s.last) = t.max
  BY <1>2, <1>3 DEF Framed, ViewType, StreamType
<1>5. ~r.s.overflow => \A n \in mine \cap behind : n <= Past(r.s.last) \/ n \in r.s.pending
  BY <1>2, <1>4 DEF Covers
<1>6. \A n \in mine, m \in r.s.pending : Past(r.s.last) < n /\ n < m => n \in r.s.pending
  BY <1>2, <1>4 DEF Covers
<1> QED
  BY <1>3, <1>4, <1>5, <1>6 DEF Finishing, r

(* The rows of a drain query, which begin where the drain was. *)
LEMMA ServedRows ==
    ASSUME NEW N \in Nat, NEW v \in ViewType(N), NEW T \in SUBSET TaskType(N),
           NEW mine \in SUBSET (1..N), NEW behind, NEW behind2, NEW rows \in SUBSET mine,
           NEW from \in 0..N, NEW w \in 0..N,
           Served(v, T, mine, behind), v.s.open, Cardinality(v.s.pending) <= ReplayLimit,
           v.s.overflow => v.s.pending = {},
           \A n \in mine : n <= from => n \in behind,
           \A n \in mine : n \in rows <=> from < n /\ n <= w,
           \A n \in mine \cap behind2 : n <= w
    PROVE  LET r == IF v.s.replaying THEN [s |-> Buffered(v.s, rows), b |-> v.b] ELSE Sent(v, rows)
           IN  Served(r, T, mine, behind2)
<1>1. rows \in SUBSET (0..N) /\ mine \in SUBSET (0..N) /\ v.s \in StreamType(N)
  BY DEF ViewType
<1>2. Past(v.s.last) \in 0..N /\ v.s.pending \in SUBSET (0..N)
  BY PastCursor DEF ViewType, StreamType
<1>3. \A n \in mine : n \in rows \/ n \in behind \/ n > w
  <2> SUFFICES ASSUME NEW n \in mine, n \notin rows, n \notin behind PROVE n > w
    OBVIOUS
  <2>1. n \in 0..N /\ ~(n <= from)
    BY <1>1
  <2>2. ~(from < n /\ n <= w)
    OBVIOUS
  <2> QED
    BY <2>1, <2>2
<1>4. CASE v.s.replaying
  <2> DEFINE s == Buffered(v.s, rows)
             r == [s |-> s, b |-> v.b]
  <2>1. s \in StreamType(N) /\ Kept(v.s, rows, s)
    BY <1>1, BufferedFacts
  <2> HIDE DEF s
  <2>2. r.s.open /\ r.s.replaying /\ r.s.last = v.s.last /\ r.b = v.b /\ r.s = s
    BY <1>4, <2>1 DEF Kept
  <2>3. ASSUME NEW t \in T, t.answered PROVE Covers(s, t, mine, behind2)
    <3>1. Covers(v.s, t, mine, behind) /\ t.max \in 0..N
      BY <2>3 DEF Served, TaskType
    <3>2. Past(s.last) <= t.max
      BY <2>2, <3>1 DEF Covers
    <3>3. ASSUME ~s.overflow, NEW n \in mine \cap behind2 PROVE n <= t.max \/ n \in s.pending
      <4>1. n \in behind \/ n \in rows
        BY <1>1, <1>3
      <4>2. ~v.s.overflow /\ s.pending = v.s.pending \union {m \in rows : m > Past(v.s.last)}
        BY <2>1, <3>3 DEF Kept
      <4>3. n \in behind => n <= t.max \/ n \in v.s.pending
        BY <3>1, <4>2 DEF Covers
      <4>4. n \in rows => n <= t.max \/ n \in s.pending
        BY <1>1, <1>2, <2>2, <3>1, <3>2, <4>2
      <4> QED
        BY <4>1, <4>2, <4>3, <4>4
    <3>4. ASSUME NEW n \in mine, NEW m \in s.pending, t.max < n, n < m PROVE n \in s.pending
      <4>1. ~s.overflow
        BY <2>1 DEF Kept
      <4>2. ~v.s.overflow /\ s.pending = v.s.pending \union {k \in rows : k > Past(v.s.last)}
        BY <2>1, <4>1 DEF Kept
      <4>3. CASE m \in v.s.pending
        BY <3>1, <3>4, <4>2, <4>3 DEF Covers
      <4>4. CASE m \in rows
        <5>1. n \in 0..N /\ m \in 0..N /\ m <= w
          BY <1>1, <4>4
        <5>2. n \in rows \/ n \in behind
          BY <1>3, <3>4, <5>1
        <5>3. n > Past(v.s.last)
          BY <1>2, <2>2, <3>1, <3>2, <3>4, <5>1
        <5>4. n \in behind => n \in v.s.pending
          BY <3>1, <3>4, <4>2, <5>1 DEF Covers
        <5> QED
          BY <4>2, <5>2, <5>3, <5>4
      <4> QED
        BY <4>2, <4>3, <4>4
    <3> QED
      BY <3>2, <3>3, <3>4 DEF Covers
  <2>4. InStep(r) /\ NoGap(r, mine)
    BY <2>2 DEF Served, InStep, NoGap
  <2> HIDE DEF r
  <2>5. Served(r, T, mine, behind2)
    BY <2>2, <2>3, <2>4 DEF Served
  <2> QED
    BY <1>4, <2>5 DEF r, s
<1>5. CASE ~v.s.replaying
  <2> DEFINE r == Sent(v, rows)
  <2>1. /\ T = {} /\ ~v.s.overflow /\ v.s.pending = {} /\ InStep(v) /\ NoGap(v, mine)
        /\ \A n \in mine \cap behind : n <= Past(v.s.last)
    BY <1>5 DEF Served
  <2>2. Unbroken(v, mine, rows)
    <3> SUFFICES ASSUME NEW n \in mine, NEW m \in rows, Past(v.s.last) < n, n < m
                 PROVE  n \in rows
      BY <2>1 DEF Unbroken
    <3>1. n \in 0..N /\ m \in 0..N /\ m <= w
      BY <1>1
    <3>2. n \notin behind
      BY <1>2, <2>1, <3>1
    <3> QED
      BY <1>3, <3>1, <3>2
  <2>3. r \in ViewType(N) /\ Advanced(v, rows, r) /\ InStep(r) /\ NoGap(r, mine)
    BY <1>1, <2>2, SentFacts
  <2> HIDE DEF r
  <2>4. /\ r.s.open /\ ~r.s.replaying /\ r.s.pending = {} /\ ~r.s.overflow
        /\ Past(r.s.last) \in 0..N /\ Past(v.s.last) <= Past(r.s.last)
        /\ \A n \in rows : n <= Past(r.s.last)
    BY <1>5, <2>1, <2>3, PastCursor DEF Advanced, ViewType, StreamType
  <2>5. ASSUME NEW n \in mine \cap behind2 PROVE n <= Past(r.s.last)
    <3>1. n \in 0..N /\ n <= w
      BY <1>1
    <3>2. n \in rows \/ n <= Past(v.s.last)
      BY <1>3, <2>1, <3>1
    <3> QED
      BY <1>2, <2>4, <3>1, <3>2
  <2>6. Served(r, T, mine, behind2)
    BY <2>1, <2>3, <2>4, <2>5 DEF Served
  <2> QED
    BY <1>5, <2>6 DEF r
<1> QED
  BY <1>4, <1>5

-----------------------------------------------------------------------------
(* The invariant.                                                          *)

(* The places the drain has gone past, or asks for the rows after. *)
Behind == {n \in 1..last : n <= watermark \/ n <= drain.from}

ClientServed(c) == Served(View(c), tasks[c], Mine(c), Behind)

(* The broker is a connection that is up; without one, or with one that is  *)
(* not ready, a call of connectBroker is running or will be made.          *)
BrokerInv ==
    /\ broker # 0 => conn[broker].up
    /\ broker = 0 => timer \/ \E g \in Connection : conn[g].call = "dialing"
    /\ ready \/ BrokerIsComing

StreamInv ==
    /\ LogInv /\ BrokerTyped /\ ClientsTyped /\ BrokerInv
    /\ \A c \in Client \ crossed : ClientServed(c)

LEMMA LogSteps ==
    ASSUME LogInv, [Next]_vars
    PROVE  /\ LogInv' /\ last' \in Nat /\ last <= last'
           /\ \A c \in Client : Mine(c)' \subseteq Mine(c) \union {last + 1}
           /\ \/ last' = last /\ \A c \in Client : Mine(c)' = Mine(c)
              \/ \E e \in Event : Publish(e)
<1>1. CASE \E e \in Event : Publish(e)
  <2>1. PICK e \in Event : Publish(e)
    BY <1>1
  <2>2. last' = last + 1 /\ AppendBatch({e})
    BY <2>1 DEF Publish
  <2>3. LogInv' /\ \A c \in Client : Mine(c)' \subseteq Mine(c) \union {last + 1}
    BY <2>2, PublishExtendsLog
  <2> QED
    BY <1>1, <2>2, <2>3 DEF LogInv
<1>2. CASE Expire
  BY <1>2 DEF Expire, Trim, LogInv, Mine, For, EventAt
<1>3. CASE UNCHANGED logVars
  BY <1>3 DEF logVars, LogInv, Mine, For, EventAt
<1>4. CASE ResumeDrain \/ DrainThrows \/ RepairEnds \/ AnswerDrain \/ TimerFires \/ ProcessRestarts
  BY <1>3, <1>4 DEF ResumeDrain, DrainThrows, RepairEnds, AnswerDrain, TimerFires, ProcessRestarts
<1>5. CASE \E g \in Connection : BrokerStep(g) \/ DialOrReadFails(g) \/ SocketDrops(g)
  BY <1>3, <1>5 DEF BrokerStep, Listens, AnswerWatermark, BecomeReady, ConnectReturns, Notified,
                    DialOrReadFails, SocketDrops
<1>6. CASE \E c \in Client : TaskStep(c)
  BY <1>3, <1>6 DEF TaskStep, AnswerTask, ResumeReplay, ResumeFullSync
<1>7. CASE \E c \in Client : \E t \in tasks[c] : TaskFails(c, t) \/ FinishFails(c, t)
  BY <1>3, <1>7 DEF TaskFails, FinishFails
<1>8. CASE \E c \in Client : Connect(c) \/ Refuse(c) \/ Reopen(c) \/ LinkBreaks(c) \/ ServerNotices(c)
  BY <1>3, <1>8 DEF Connect, Refuse, Reopen, LinkBreaks, ServerNotices
<1>9. CASE UNCHANGED vars
  BY <1>3, <1>9 DEF vars
<1> QED
  BY <1>1, <1>2, <1>4, <1>5, <1>6, <1>7, <1>8, <1>9 DEF Next

(* The drain goes past new places only where it reads rows and where a      *)
(* connection becomes ready.                                               *)
LEMMA BehindStays ==
    ASSUME LogInv, BrokerTyped, last' \in Nat, last <= last',
           watermark' = watermark, drain'.from \in {0, watermark, drain.from}
    PROVE  Behind' \subseteq Behind /\ last + 1 \notin Behind'
<1>1. /\ last \in Nat /\ watermark \in 0..last /\ drain.from \in 0..last
  BY DEF LogInv, BrokerTyped, DrainType
<1>2. ASSUME NEW n \in Behind' PROVE n \in Behind
  <2>1. n \in 1..last' /\ (n <= watermark \/ n <= drain'.from)
    BY DEF Behind
  <2>2. n <= watermark \/ n <= drain.from
    BY <1>1, <2>1
  <2> QED
    BY <1>1, <2>1, <2>2 DEF Behind
<1>3. last + 1 \notin Behind
  BY <1>1 DEF Behind
<1> QED
  BY <1>2, <1>3

-----------------------------------------------------------------------------
(* The broker's side.                                                      *)

LEMMA LimitsFacts ==
    /\ Connection \subseteq Nat \ {0} /\ 1 \in Connection /\ 0 \notin Connection
    /\ BatchSize \in Nat \ {0} /\ ReplayLimit \in Nat \ {0}
BY LimitsAssumption DEF Connection

LEMMA SpendFacts ==
    ASSUME budget \in [drops : Nat, faults : Nat, breaks : Nat],
           NEW what \in {"drops", "faults", "breaks"}, Spend(what)
    PROVE  budget' \in [drops : Nat, faults : Nat, breaks : Nat]
BY DEF Spend

LEMMA ConnectFailsFacts ==
    ASSUME BrokerTyped, BrokerInv, NEW g \in Connection, ConnectFails(g), last \in Nat
    PROVE  /\ conn' \in [Connection -> ConnType(last)] /\ broker' \in Connection \union {0}
           /\ wakes' \subseteq Connection /\ ready' \in BOOLEAN /\ timer'
           /\ BrokerInv'
<1>1. /\ conn' \in [Connection -> ConnType(last)] /\ broker' \in Connection \union {0}
      /\ wakes' \subseteq Connection /\ ready' \in BOOLEAN /\ timer'
  <2>1. NoConnection \in ConnType(last)
    BY DEF NoConnection, ConnType
  <2>2. conn' = [conn EXCEPT ![g] = NoConnection] /\ broker' \in {0, broker} /\ wakes' = wakes \ {g}
        /\ ready' = FALSE /\ timer' = TRUE
    BY DEF ConnectFails
  <2> QED
    BY <2>1, <2>2 DEF BrokerTyped
<1>2. broker' # 0 => conn'[broker'].up
  BY DEF ConnectFails, BrokerTyped, BrokerInv
<1> QED
  BY <1>1, <1>2 DEF ConnectFails, BrokerInv, BrokerIsComing

LEMMA RestartFacts ==
    ASSUME LogInv, Restart, budget' \in [drops : Nat, faults : Nat, breaks : Nat], last' = last
    PROVE  BrokerTyped' /\ BrokerInv'
<1>1. last \in Nat /\ 0 \in 0..last /\ 1 \in Connection /\ 0 \notin Connection
  BY LimitsFacts DEF LogInv
<1>2. FirstDial \in [Connection -> ConnType(last)] /\ FirstDial[1].call = "dialing"
  BY <1>1 DEF FirstDial, NoConnection, ConnType
<1>3. IdleDrain \in DrainType(last)
  BY <1>1 DEF IdleDrain, DrainType
<1>4. BrokerTyped'
  BY <1>1, <1>2, <1>3 DEF Restart, BrokerTyped
<1>5. BrokerInv'
  BY <1>1, <1>2 DEF Restart, BrokerInv, BrokerIsComing
<1> QED
  BY <1>4, <1>5

(* A step that leaves the broker, the watermark and the drain alone. *)
LEMMA BrokerUntouched ==
    ASSUME LogInv, BrokerTyped, BrokerInv, last' = last, UNCHANGED <<brokerVars, watermark, drain>>,
           budget' \in [drops : Nat, faults : Nat, breaks : Nat]
    PROVE  BrokerTyped' /\ BrokerInv'
BY DEF brokerVars, BrokerTyped, BrokerInv, BrokerIsComing

LEMMA DrainFacts ==
    ASSUME LogInv, BrokerTyped
    PROVE  /\ \A d \in BOOLEAN, w \in 0..last : SendDrain(d, w) \in DrainType(last)
           /\ \A w \in 0..last : NextDrain(w) \in DrainType(last)
           /\ watermark \in 0..last /\ drain.from \in 0..last /\ drain.max \in 0..last
           /\ drain.requested \in BOOLEAN
<1>1. last \in Nat /\ 0 \in 0..last
  BY DEF LogInv
<1>2. \A d \in BOOLEAN, w \in 0..last : SendDrain(d, w) \in DrainType(last)
  BY <1>1 DEF SendDrain, DrainType
<1>3. IdleDrain \in DrainType(last)
  BY <1>1 DEF IdleDrain, DrainType
<1> QED
  BY <1>2, <1>3 DEF NextDrain, BrokerTyped, DrainType

LEMMA ConnectionSteps ==
    ASSUME LogInv, BrokerTyped, BrokerInv, NEW g \in Connection,
           \/ Listens(g) \/ AnswerWatermark(g) \/ BecomeReady(g) \/ ConnectReturns(g)
    PROVE  BrokerTyped' /\ BrokerInv'
<1>1. /\ last' = last /\ wakes' = wakes /\ drain' = drain /\ budget' = budget /\ timer' = timer
      /\ ready' \in {ready, TRUE} /\ last \in Nat /\ {0, last} \subseteq 0..last
  <2>1. last \in Nat /\ {0, last} \subseteq 0..last
    BY DEF LogInv
  <2> USE DEF logVars
  <2>2. CASE Listens(g)
    BY <2>1, <2>2 DEF Listens
  <2>3. CASE AnswerWatermark(g)
    BY <2>1, <2>3 DEF AnswerWatermark
  <2>4. CASE BecomeReady(g)
    BY <2>1, <2>4 DEF BecomeReady
  <2>5. CASE ConnectReturns(g)
    BY <2>1, <2>5 DEF ConnectReturns
  <2> QED
    BY <2>2, <2>3, <2>4, <2>5
<1>2. conn[g] \in ConnType(last) /\ g # 0
  BY LimitsFacts DEF BrokerTyped
<1>3. CASE Listens(g)
  <2>1. conn' = [conn EXCEPT ![g] = [@ EXCEPT !.call = "reading", !.up = TRUE]] /\ broker' = g
    BY <1>3 DEF Listens
  <2>2. conn' \in [Connection -> ConnType(last)] /\ conn'[g].call = "reading" /\ conn'[g].up
    BY <1>2, <2>1 DEF BrokerTyped, ConnType
  <2> QED
    BY <1>1, <1>2, <1>3, <2>1, <2>2 DEF Listens, BrokerTyped, BrokerInv, BrokerIsComing
<1>4. CASE AnswerWatermark(g)
  <2>1. conn' = [conn EXCEPT ![g] = [@ EXCEPT !.call = "read", !.mark = last]]
        /\ conn[g].call = "reading"
    BY <1>4 DEF AnswerWatermark
  <2>2. /\ conn' \in [Connection -> ConnType(last)] /\ conn'[g].call = "read"
        /\ conn'[g].up = conn[g].up /\ \A h \in Connection \ {g} : conn'[h] = conn[h]
    BY <1>1, <1>2, <2>1 DEF BrokerTyped, ConnType
  <2> QED
    BY <1>1, <1>2, <1>4, <2>1, <2>2 DEF AnswerWatermark, BrokerTyped, BrokerInv, BrokerIsComing
<1>5. CASE BecomeReady(g)
  <2>1. /\ conn' = [conn EXCEPT ![g] = [@ EXCEPT !.call = "recovering", !.mark = 0]]
        /\ conn[g].call = "read" /\ watermark' = conn[g].mark /\ ready' /\ broker' = broker
    BY <1>5 DEF BecomeReady
  <2>2. /\ conn' \in [Connection -> ConnType(last)]
        /\ conn'[g].up = conn[g].up /\ \A h \in Connection \ {g} : conn'[h] = conn[h]
    BY <1>1, <1>2, <2>1 DEF BrokerTyped, ConnType
  <2>3. watermark' \in 0..last
    BY <1>2, <2>1 DEF ConnType
  <2> QED
    BY <1>1, <1>2, <2>1, <2>2, <2>3 DEF BrokerTyped, BrokerInv
<1>6. CASE ConnectReturns(g)
  <2>1. /\ conn' = [conn EXCEPT ![g] = [@ EXCEPT !.call = "none"]] /\ conn[g].call = "recovering"
        /\ UNCHANGED <<broker, ready, watermark>>
    BY <1>6 DEF ConnectReturns
  <2>2. /\ conn' \in [Connection -> ConnType(last)]
        /\ conn'[g].up = conn[g].up /\ \A h \in Connection \ {g} : conn'[h] = conn[h]
    BY <1>2, <2>1 DEF BrokerTyped, ConnType
  <2> QED
    BY <1>1, <1>2, <2>1, <2>2 DEF BrokerTyped, BrokerInv, BrokerIsComing
<1> QED
  BY <1>3, <1>4, <1>5, <1>6

LEMMA SocketSteps ==
    ASSUME LogInv, BrokerTyped, BrokerInv, NEW g \in Connection,
           \/ DialOrReadFails(g) \/ SocketDrops(g) \/ Notified(g)
    PROVE  BrokerTyped' /\ BrokerInv'
<1>0. last \in Nat /\ g # 0
  BY LimitsFacts DEF LogInv
<1>1. CASE DialOrReadFails(g)
  <2>1. /\ ConnectFails(g) /\ Spend("faults")
        /\ last' = last /\ watermark' = watermark /\ drain' = drain
    BY <1>1 DEF DialOrReadFails, logVars
  <2>2. budget' \in [drops : Nat, faults : Nat, breaks : Nat]
    BY <2>1, SpendFacts DEF BrokerTyped
  <2> QED
    BY <1>0, <2>1, <2>2, ConnectFailsFacts DEF BrokerTyped
<1>2. CASE SocketDrops(g)
  <2>1. /\ Spend("drops") /\ conn' = [conn EXCEPT ![g] = [@ EXCEPT !.up = FALSE]]
        /\ wakes' = wakes \ {g} /\ last' = last /\ watermark' = watermark /\ drain' = drain
        /\ IF broker = g
             THEN broker' = 0 /\ ready' = FALSE /\ timer' = TRUE
             ELSE UNCHANGED <<broker, ready, timer>>
    BY <1>2 DEF SocketDrops, logVars
  <2>2. /\ conn' \in [Connection -> ConnType(last)] /\ conn'[g].call = conn[g].call
        /\ \A h \in Connection \ {g} : conn'[h] = conn[h]
    BY <2>1 DEF BrokerTyped, ConnType
  <2>3. budget' \in [drops : Nat, faults : Nat, breaks : Nat]
    BY <2>1, SpendFacts DEF BrokerTyped
  <2>4. \A h \in Connection : conn'[h].call = conn[h].call
    BY <2>2
  <2>5. BrokerInv'
    BY <1>0, <2>1, <2>2, <2>4 DEF BrokerTyped, BrokerInv, BrokerIsComing
  <2> QED
    BY <2>1, <2>2, <2>3, <2>5 DEF BrokerTyped
<1>3. CASE Notified(g)
  <2>1. /\ wakes' = wakes \ {g} /\ UNCHANGED <<last, conn, broker, ready, timer, watermark, budget>>
        /\ \/ drain' = drain
           \/ drain' = SendDrain(FALSE, watermark)
           \/ drain' = [drain EXCEPT !.requested = TRUE]
    BY <1>3 DEF Notified, logVars
  <2>2. drain' \in DrainType(last)
    <3>1. SendDrain(FALSE, watermark) \in DrainType(last)
      BY DrainFacts
    <3>2. [drain EXCEPT !.requested = TRUE] \in DrainType(last)
      BY DEF BrokerTyped, DrainType
    <3> QED
      BY <2>1, <3>1, <3>2 DEF BrokerTyped
  <2> QED
    BY <2>1, <2>2 DEF BrokerTyped, BrokerInv, BrokerIsComing
<1> QED
  BY <1>1, <1>2, <1>3

(* The watermark after a drain query, which read everything up to it. *)
ReadTo == IF DrainRows = {} THEN drain.max ELSE Max(DrainRows)

LEMMA DrainReads ==
    ASSUME LogInv, BrokerTyped
    PROVE  /\ ReadTo \in 0..drain.max
           /\ \A n \in 1..last : n \in DrainRows <=> drain.from < n /\ n <= ReadTo
<1>1. drain.max \in Nat /\ drain.from \in Nat /\ last \in Nat
  BY DrainFacts DEF LogInv
<1>2. BatchSize \in Nat \ {0}
  BY LimitsFacts
<1>3. DrainRows \in SUBSET (0..drain.max)
  BY <1>1 DEF DrainRows
<1>4. CASE DrainRows = {}
  <2>1. ~(drain.from + 1 <= drain.max)
    BY <1>1, <1>2, <1>4 DEF DrainRows
  <2> QED
    BY <1>1, <1>4, <2>1 DEF ReadTo
<1>5. CASE DrainRows # {}
  <2>1. ReadTo \in DrainRows /\ \A n \in DrainRows : n <= ReadTo
    BY <1>1, <1>3, <1>5, Largest DEF ReadTo
  <2>2. ReadTo \in 0..drain.max /\ ReadTo <= drain.from + BatchSize
    BY <1>3, <2>1 DEF DrainRows
  <2>3. ASSUME NEW n \in 1..last, drain.from < n, n <= ReadTo PROVE n \in DrainRows
    BY <1>1, <1>2, <2>2, <2>3 DEF DrainRows
  <2>4. ASSUME NEW n \in DrainRows PROVE drain.from < n /\ n <= ReadTo
    BY <1>1, <2>1 DEF DrainRows
  <2> QED
    BY <2>2, <2>3, <2>4
<1> QED
  BY <1>4, <1>5

LEMMA DrainSteps ==
    ASSUME LogInv, BrokerTyped, BrokerInv,
           AnswerDrain \/ ResumeDrain \/ DrainThrows \/ RepairEnds
    PROVE  BrokerTyped' /\ BrokerInv'
<1>0. /\ last' = last /\ UNCHANGED brokerVars /\ last \in Nat /\ {0, last} \subseteq 0..last
      /\ watermark \in 0..last /\ drain.from \in 0..last /\ drain.max \in 0..last
      /\ drain.requested \in BOOLEAN
  <2>1. last' = last /\ UNCHANGED brokerVars
    BY DEF AnswerDrain, ResumeDrain, DrainThrows, RepairEnds, logVars
  <2> QED
    BY <2>1, DrainFacts DEF LogInv
<1>1. CASE AnswerDrain
  <2>1. drain' \in DrainType(last)
    BY <1>0, <1>1 DEF AnswerDrain, BrokerTyped, DrainType
  <2> QED
    BY <1>0, <1>1, <2>1 DEF AnswerDrain, BrokerTyped, BrokerInv, BrokerIsComing, brokerVars
<1>2. CASE ResumeDrain
  <2>1. PICK w : /\ w = ReadTo
                 /\ watermark' = w /\ budget' = budget
                 /\ drain' = IF w < drain.max THEN SendDrain(drain.requested, w) ELSE NextDrain(w)
    BY <1>2 DEF ResumeDrain, ReadTo
  <2>2. w \in 0..last
    BY <1>0, <2>1, DrainReads DEF ReadTo
  <2>3. drain' \in DrainType(last)
    BY <1>0, <2>1, <2>2, DrainFacts
  <2> QED
    BY <1>0, <2>1, <2>2, <2>3 DEF BrokerTyped, BrokerInv, BrokerIsComing, brokerVars
<1>3. CASE DrainThrows
  <2>1. drain' = [IdleDrain EXCEPT !.phase = "repairing", !.requested = drain.requested]
        /\ watermark' = watermark
    BY <1>3 DEF DrainThrows
  <2>2. drain' \in DrainType(last)
    BY <1>0, <2>1 DEF IdleDrain, DrainType
  <2>3. budget' = budget \/ Spend("faults")
    BY <1>3 DEF DrainThrows
  <2>4. budget' \in [drops : Nat, faults : Nat, breaks : Nat]
    BY <2>3, SpendFacts DEF BrokerTyped
  <2> QED
    BY <1>0, <2>1, <2>2, <2>4 DEF BrokerTyped, BrokerInv, BrokerIsComing, brokerVars
<1>4. CASE RepairEnds
  <2>1. drain' \in DrainType(last)
    BY <1>0, <1>4, DrainFacts DEF RepairEnds
  <2> QED
    BY <1>0, <1>4, <2>1 DEF RepairEnds, BrokerTyped, BrokerInv, BrokerIsComing, brokerVars
<1> QED
  BY <1>1, <1>2, <1>3, <1>4

LEMMA BrokerSteps ==
    ASSUME LogInv, BrokerTyped, BrokerInv, [Next]_vars
    PROVE  BrokerTyped' /\ BrokerInv'
<1>0. /\ last' \in Nat /\ last <= last' /\ last \in Nat
  BY LogSteps DEF LogInv
<1>1. CASE \E e \in Event : Publish(e)
  <2>1. /\ UNCHANGED <<conn, broker, ready, timer, watermark, drain, budget>>
        /\ wakes' = wakes \union {g \in Connection : conn[g].up}
    BY <1>1 DEF Publish
  <2>2. ConnType(last) \subseteq ConnType(last') /\ DrainType(last) \subseteq DrainType(last')
    BY <1>0, TypesGrow
  <2>3. watermark' \in 0..last'
    BY <1>0, <2>1 DEF BrokerTyped
  <2>4. conn' \in [Connection -> ConnType(last')] /\ drain' \in DrainType(last')
    BY <2>1, <2>2 DEF BrokerTyped
  <2> QED
    BY <2>1, <2>3, <2>4 DEF BrokerTyped, BrokerInv, BrokerIsComing
<1>2. CASE /\ last' = last /\ UNCHANGED <<brokerVars, watermark, drain>>
           /\ \/ budget' = budget
              \/ \E what \in {"drops", "faults", "breaks"} : Spend(what)
  <2>1. budget' \in [drops : Nat, faults : Nat, breaks : Nat]
    BY <1>2, SpendFacts DEF BrokerTyped
  <2> QED
    BY <1>2, <2>1, BrokerUntouched
<1>3. CASE \E g \in Connection : BrokerStep(g) \/ DialOrReadFails(g) \/ SocketDrops(g)
  BY <1>3, ConnectionSteps, SocketSteps DEF BrokerStep
<1>4. CASE AnswerDrain \/ ResumeDrain \/ DrainThrows \/ RepairEnds
  BY <1>4, DrainSteps
<1>5. CASE TimerFires
  <2>1. PICK g \in Connection : conn' = [conn EXCEPT ![g] = [@ EXCEPT !.call = "dialing"]]
    BY <1>5 DEF TimerFires
  <2>2. /\ conn' \in [Connection -> ConnType(last)] /\ conn'[g].call = "dialing"
        /\ \A h \in Connection : conn'[h].up = conn[h].up
    BY <2>1 DEF BrokerTyped, ConnType
  <2>3. /\ UNCHANGED <<last, broker, ready, watermark, wakes, drain, budget>> /\ timer' = FALSE
    BY <1>5 DEF TimerFires, logVars
  <2>4. BrokerInv'
    BY <2>2, <2>3 DEF BrokerTyped, BrokerInv, BrokerIsComing
  <2> QED
    BY <2>2, <2>3, <2>4 DEF BrokerTyped
<1>6. CASE \E c \in Client : \E t \in tasks[c] : FinishFails(c, t)
  <2>0. PICK c \in Client : \E t \in tasks[c] : FinishFails(c, t)
    BY <1>6
  <2>1. PICK t \in tasks[c] : FinishFails(c, t)
    BY <2>0
  <2>2. last' = last /\ Spend("faults")
    BY <2>1 DEF FinishFails, logVars
  <2>3. budget' \in [drops : Nat, faults : Nat, breaks : Nat]
    BY <2>2, SpendFacts DEF BrokerTyped
  <2>4. \/ Restart
        \/ /\ UNCHANGED <<watermark, drain>>
           /\ UNCHANGED brokerVars \/ \E g \in Connection : ConnectFails(g)
    BY <2>1 DEF FinishFails
  <2>5. CASE Restart
    BY <2>2, <2>3, <2>5, RestartFacts
  <2>6. CASE UNCHANGED <<watermark, drain, brokerVars>>
    BY <2>2, <2>3, <2>6, BrokerUntouched
  <2>7. CASE UNCHANGED <<watermark, drain>> /\ \E g \in Connection : ConnectFails(g)
    <3>1. PICK g \in Connection : ConnectFails(g)
      BY <2>7
    <3> QED
      BY <1>0, <2>2, <2>3, <2>7, <3>1, ConnectFailsFacts DEF BrokerTyped
  <2> QED
    BY <2>4, <2>5, <2>6, <2>7
<1>7. CASE ProcessRestarts
  <2>1. Restart /\ last' = last /\ Spend("drops")
    BY <1>7 DEF ProcessRestarts, logVars
  <2> QED
    BY <2>1, RestartFacts, SpendFacts DEF BrokerTyped
<1>8. CASE Expire \/ UNCHANGED vars
  BY <1>2, <1>8 DEF Expire, Trim, vars, logVars
<1>9. CASE \E c \in Client : TaskStep(c)
  BY <1>2, <1>9 DEF TaskStep, AnswerTask, ResumeReplay, ResumeFullSync, logVars
<1>10. CASE \E c \in Client : \E t \in tasks[c] : TaskFails(c, t)
  BY <1>2, <1>10 DEF TaskFails, logVars
<1>11. CASE \E c \in Client : Connect(c) \/ Refuse(c) \/ Reopen(c) \/ LinkBreaks(c) \/ ServerNotices(c)
  BY <1>2, <1>11 DEF Connect, Refuse, Reopen, LinkBreaks, ServerNotices, logVars
<1> QED
  BY <1>1, <1>3, <1>4, <1>5, <1>6, <1>7, <1>8, <1>9, <1>10, <1>11 DEF Next

-----------------------------------------------------------------------------
(* The streams' side.                                                      *)

LEMMA ViewsTyped ==
    ASSUME LogInv, ClientsTyped, NEW c \in Client
    PROVE  /\ View(c) \in ViewType(last) /\ View(c).s = stream[c] /\ View(c).b = browser[c]
           /\ tasks[c] \in SUBSET TaskType(last)
           /\ Mine(c) \in SUBSET (1..last) /\ last \in Nat
BY DEF View, ViewType, ClientsTyped, Mine, LogInv

(* Steps that touch no stream. *)
LEMMA QuietTyped ==
    ASSUME LogInv, ClientsTyped, UNCHANGED clientVars, last' \in Nat, last <= last'
    PROVE  ClientsTyped'
<1>1. /\ StreamType(last) \subseteq StreamType(last') /\ TaskType(last) \subseteq TaskType(last')
      /\ BrowserType(last) \subseteq BrowserType(last')
  BY TypesGrow DEF LogInv
<1>2. /\ stream' \in [Client -> StreamType(last')] /\ browser' \in [Client -> BrowserType(last')]
      /\ tasks' \in [Client -> SUBSET TaskType(last')]
  BY <1>1 DEF clientVars, ClientsTyped
<1> QED
  BY <1>2 DEF clientVars, ClientsTyped

LEMMA QuietServed ==
    ASSUME StreamInv, UNCHANGED clientVars, last + 1 \notin Behind', Behind' \subseteq Behind,
           \A c \in Client : Mine(c)' \subseteq Mine(c) \union {last + 1}
    PROVE  \A c \in Client \ crossed' : ClientServed(c)'
<1> SUFFICES ASSUME NEW c \in Client \ crossed PROVE ClientServed(c)'
  BY DEF clientVars
<1>1. /\ View(c) \in ViewType(last) /\ tasks[c] \in SUBSET TaskType(last)
      /\ Mine(c) \in SUBSET (1..last) /\ last \in Nat
  BY ViewsTyped DEF StreamInv
<1>2. Served(View(c), tasks[c], Mine(c), Behind)
  BY DEF StreamInv, ClientServed
<1>3. Served(View(c), tasks[c], Mine(c)', Behind')
  BY <1>1, <1>2, ServedLater
<1>4. View(c)' = View(c) /\ tasks'[c] = tasks[c]
  BY DEF View, clientVars
<1> QED
  BY <1>3, <1>4 DEF ClientServed

(* Steps of one stream. *)
OneClient(c, v, T) ==
    /\ stream' = [stream EXCEPT ![c] = v.s]
    /\ browser' = [browser EXCEPT ![c] = v.b]
    /\ tasks' = [tasks EXCEPT ![c] = T]
    /\ crossed' = crossed

WellTyped(v, T) ==
    /\ v \in ViewType(last) /\ T \in SUBSET TaskType(last)
    /\ Cardinality(v.s.pending) <= ReplayLimit /\ (v.s.overflow => v.s.pending = {})
    /\ \A t \in T : t.stage = "replay" => t.after # NoCursor

LEMMA OneClientSteps ==
    ASSUME StreamInv, NEW c \in Client, NEW v, NEW T, OneClient(c, v, T), WellTyped(v, T),
           last' = last, \A d \in Client : Mine(d)' = Mine(d), Behind' \subseteq Behind,
           c \notin crossed => Served(v, T, Mine(c), Behind)
    PROVE  ClientsTyped' /\ \A d \in Client \ crossed' : ClientServed(d)'
<1>1. ClientsTyped'
  <2>1. v.s \in StreamType(last) /\ v.b \in BrowserType(last)
    BY DEF WellTyped, ViewType
  <2>2. /\ stream' \in [Client -> StreamType(last)] /\ browser' \in [Client -> BrowserType(last)]
        /\ tasks' \in [Client -> SUBSET TaskType(last)]
    BY <2>1 DEF OneClient, WellTyped, StreamInv, ClientsTyped
  <2> QED
    BY <2>2 DEF OneClient, WellTyped, StreamInv, ClientsTyped
<1>2. ASSUME NEW d \in Client \ crossed PROVE ClientServed(d)'
  <2> DEFINE r == IF d = c THEN v ELSE View(d)
             R == IF d = c THEN T ELSE tasks[d]
  <2>1. View(d)' = r /\ tasks'[d] = R
    BY DEF OneClient, View, StreamInv, ClientsTyped, WellTyped, ViewType
  <2>2. /\ r \in ViewType(last) /\ R \in SUBSET TaskType(last) /\ Mine(d) \in SUBSET (1..last)
        /\ last \in Nat
    BY ViewsTyped DEF StreamInv, WellTyped
  <2>3. Served(r, R, Mine(d), Behind)
    BY DEF StreamInv, ClientServed
  <2>4. Mine(d) \in SUBSET (Mine(d) \union {last + 1}) /\ last + 1 \notin Behind'
    BY <2>2 DEF Behind
  <2> HIDE DEF r, R
  <2>5. Served(r, R, Mine(d), Behind')
    BY <2>2, <2>3, <2>4, ServedLater
  <2> QED
    BY <2>1, <2>5 DEF ClientServed
<1> QED
  BY <1>1, <1>2 DEF OneClient

(* finishReplay, after the answer was sent. *)
LEMMA FinishSteps ==
    ASSUME StreamInv, NEW c \in Client, NEW t \in tasks[c], NEW v, FinishReplay(c, t, v),
           crossed' = crossed, v \in ViewType(last),
           Cardinality(v.s.pending) <= ReplayLimit,
           c \notin crossed => Finishing(v, Mine(c), Behind)
    PROVE  \E r, R : /\ OneClient(c, r, R) /\ WellTyped(r, R)
                     /\ c \notin crossed => Served(r, R, Mine(c), Behind)
                     /\ \/ v.s.overflow /\ \E u \in R : ~u.answered
                        \/ ~v.s.overflow /\ r = Live(v) /\ R = tasks[c] \ {t}
<1>1. /\ tasks[c] \in SUBSET TaskType(last) /\ Mine(c) \in SUBSET (1..last) /\ last \in Nat
      /\ \A u \in tasks[c] : u.stage = "replay" => u.after # NoCursor
      /\ c \notin crossed => tasks[c] = {t}
  <2>1. c \notin crossed => \A u \in tasks[c] : u = t
    BY DEF StreamInv, ClientServed, Served
  <2> QED
    BY <2>1, ViewsTyped DEF StreamInv, ClientsTyped
<1>2. Cardinality({}) <= ReplayLimit
  BY FS_EmptySet, LimitsFacts
<1>3. CASE v.s.overflow
  <2> DEFINE r == Resynced(v)
             u == Query(t.starter, "finish", NoCursor)
             R == (tasks[c] \ {t}) \union {u}
  <2>1. OneClient(c, r, R)
    BY <1>3 DEF FinishReplay, OneClient, Resynced
  <2>2. u \in TaskType(last) /\ ~u.answered /\ u.stage = "finish"
    BY <1>1 DEF Query, TaskType, CursorType
  <2>3. r \in ViewType(last) /\ r.s.pending = {}
    BY DEF Resynced, ViewType, StreamType
  <2> HIDE DEF u, r
  <2>4. WellTyped(r, R)
    BY <1>1, <1>2, <2>2, <2>3 DEF WellTyped
  <2>5. c \notin crossed => R = {u}
    BY <1>1
  <2>6. c \notin crossed => Served(r, {u}, Mine(c), Behind)
    BY <1>1, ServedResynced DEF r, u
  <2>7. c \notin crossed => Served(r, R, Mine(c), Behind)
    BY <2>5, <2>6
  <2>8. \E w \in R : ~w.answered
    BY <2>2
  <2> HIDE DEF R
  <2> QED
    BY <1>3, <2>1, <2>4, <2>7, <2>8
<1>4. CASE ~v.s.overflow
  <2> DEFINE r == Live(v)
             R == tasks[c] \ {t}
  <2>1. OneClient(c, r, R)
    BY <1>4 DEF FinishReplay, OneClient, Live
  <2>2. r \in ViewType(last) /\ r.s.pending = {}
    <3>1. v.s.pending \in SUBSET (0..last)
      BY DEF ViewType, StreamType
    <3>2. Sent(v, v.s.pending) \in ViewType(last)
      BY <1>1, <3>1, SentFacts
    <3> QED
      BY <3>2 DEF Live, ViewType, StreamType
  <2>3. c \notin crossed => Served(r, {}, Mine(c), Behind)
    BY <1>1, <1>4, ServedLive
  <2>4. c \notin crossed => R = {}
    BY <1>1
  <2> HIDE DEF r
  <2>5. WellTyped(r, R)
    BY <1>1, <1>2, <2>2 DEF WellTyped
  <2>6. c \notin crossed => Served(r, R, Mine(c), Behind)
    BY <2>3, <2>4
  <2>7. ~v.s.overflow /\ r = Live(v) /\ R = tasks[c] \ {t}
    BY <1>4 DEF r
  <2> HIDE DEF R
  <2> QED
    BY <2>1, <2>5, <2>6, <2>7
<1> QED
  BY <1>3, <1>4

(* What becomes of the events a stream still lacks when it comes to this:   *)
(* it is closed or stranded, a query is under way, nothing changed, or it   *)
(* lacks only what neither its buffer nor its task had.                    *)
Carried(c, r, R) ==
    \/ ~r.s.open \/ (r.s.replaying /\ R = {})
    \/ \E u \in R : ~u.answered \/ u.max = last
    \/ r.s = stream[c] /\ R = tasks[c]
    \/ /\ tasks[c] # {}
       /\ \A n \in Mine(c) : n > Past(r.s.last) =>
            /\ n > Past(stream[c].last) /\ n \notin stream[c].pending /\ ~stream[c].overflow
            /\ \A t \in tasks[c] : t.answered /\ n > t.max

StepOf(c) ==
    \E r, R : /\ OneClient(c, r, R) /\ WellTyped(r, R)
              /\ c \notin crossed => Served(r, R, Mine(c), Behind) /\ Carried(c, r, R)

(* A replay that gives way to a full sync. *)
LEMMA ResyncSteps ==
    ASSUME StreamInv, NEW c \in Client, NEW t \in tasks[c], NEW stage \in {"sync", "retry"},
           tasks' = [tasks EXCEPT ![c] = (@ \ {t}) \union {Query(t.starter, stage, NoCursor)}],
           UNCHANGED <<stream, browser, crossed>>
    PROVE  StepOf(c)
<1> DEFINE u == Query(t.starter, stage, NoCursor)
           R == (tasks[c] \ {t}) \union {u}
<1>1. /\ View(c) \in ViewType(last) /\ View(c).s = stream[c] /\ View(c).b = browser[c]
      /\ tasks[c] \in SUBSET TaskType(last) /\ Mine(c) \in SUBSET (1..last) /\ last \in Nat
      /\ Cardinality(stream[c].pending) <= ReplayLimit
      /\ stream[c].overflow => stream[c].pending = {}
      /\ \A w \in tasks[c] : w.stage = "replay" => w.after # NoCursor
  BY ViewsTyped DEF StreamInv, ClientsTyped
<1>2. OneClient(c, View(c), R)
  BY <1>1 DEF OneClient, StreamInv, ClientsTyped
<1>3. u \in TaskType(last) /\ ~u.answered /\ u.stage # "replay"
  BY <1>1 DEF Query, TaskType, CursorType
<1> HIDE DEF u
<1>4. WellTyped(View(c), R)
  BY <1>1, <1>3 DEF WellTyped
<1>5. ASSUME c \notin crossed PROVE Served(View(c), R, Mine(c), Behind)
  <2>1. Served(View(c), tasks[c], Mine(c), Behind)
    BY <1>5 DEF StreamInv, ClientServed
  <2>2. R = {u}
    BY <2>1 DEF Served
  <2> QED
    BY <1>3, <2>1, <2>2 DEF Served
<1>6. Carried(c, View(c), R)
  BY <1>3 DEF Carried
<1> QED
  BY <1>2, <1>4, <1>5, <1>6 DEF StepOf

LEMMA ResumeSteps ==
    ASSUME StreamInv, NEW c \in Client, NEW t \in tasks[c], ResumeReplay(c, t) \/ ResumeFullSync(c, t)
    PROVE  StepOf(c)
<1>1. /\ View(c) \in ViewType(last) /\ View(c).s = stream[c] /\ tasks[c] \in SUBSET TaskType(last)
      /\ Mine(c) \in SUBSET (1..last) /\ last \in Nat
      /\ Cardinality(stream[c].pending) <= ReplayLimit
      /\ \A u \in tasks[c] : u.stage = "replay" => u.after # NoCursor
  BY ViewsTyped DEF StreamInv, ClientsTyped
<1>2. crossed' = crossed /\ t.answered
  BY DEF ResumeReplay, ResumeFullSync
<1>3. c \notin crossed =>
        /\ Served(View(c), tasks[c], Mine(c), Behind) /\ tasks[c] = {t}
        /\ Past(stream[c].last) <= t.max
  <2>1. c \notin crossed => Served(View(c), tasks[c], Mine(c), Behind)
    BY DEF StreamInv, ClientServed
  <2> QED
    BY <1>1, <1>2, <2>1 DEF Served, Covers
<1>4. ASSUME NEW v \in ViewType(last), FinishReplay(c, t, v),
             v.s.pending = stream[c].pending, v.s.overflow = stream[c].overflow,
             c \notin crossed => /\ Finishing(v, Mine(c), Behind)
                                 /\ \A n \in Mine(c) : n > Past(v.s.last) => n > t.max
      PROVE  StepOf(c)
  <2>1. PICK r, R : /\ OneClient(c, r, R) /\ WellTyped(r, R)
                    /\ c \notin crossed => Served(r, R, Mine(c), Behind)
                    /\ \/ v.s.overflow /\ \E u \in R : ~u.answered
                       \/ ~v.s.overflow /\ r = Live(v) /\ R = tasks[c] \ {t}
    BY <1>1, <1>2, <1>4, FinishSteps
  <2>2. ASSUME c \notin crossed, ~v.s.overflow, r = Live(v) PROVE Carried(c, r, R)
    <3>1. \A n \in Mine(c) : n > Past(r.s.last) => n > Past(v.s.last) /\ n \notin v.s.pending
      BY <1>1, <1>4, <2>2, ServedLive
    <3>2. Past(stream[c].last) \in 0..last /\ t.max \in 0..last
      BY <1>1, PastCursor DEF ViewType, StreamType, TaskType
    <3>3. ASSUME NEW n \in Mine(c), n > Past(r.s.last)
          PROVE  /\ n > Past(stream[c].last) /\ n \notin stream[c].pending /\ ~stream[c].overflow
                 /\ \A u \in tasks[c] : u.answered /\ n > u.max
      <4>1. n > t.max /\ n \notin v.s.pending
        BY <1>4, <2>2, <3>1, <3>3
      <4>2. n > Past(stream[c].last)
        BY <1>1, <1>3, <2>2, <3>2, <4>1
      <4> QED
        BY <1>2, <1>3, <1>4, <2>2, <4>1, <4>2
    <3> QED
      BY <3>3 DEF Carried
  <2>3. c \notin crossed => Carried(c, r, R)
    BY <2>1, <2>2 DEF Carried
  <2> QED
    BY <2>1, <2>3 DEF StepOf
<1>5. CASE ResumeFullSync(c, t)
  <2> DEFINE v == Synced(View(c), t.max)
  <2>1. FinishReplay(c, t, v)
    BY <1>5 DEF ResumeFullSync
  <2>2. t.max \in 0..last /\ 1..t.max \in SUBSET (0..last)
    BY <1>1 DEF TaskType
  <2>3. v \in ViewType(last) /\ Framed(View(c), t.max, 1..t.max, v)
    BY <1>1, <2>2, FrameFacts DEF Synced
  <2>4. v.s.pending = stream[c].pending /\ v.s.overflow = stream[c].overflow
    <3> HIDE DEF v
    <3> QED
      BY <1>1, <2>3 DEF Framed, ViewType, StreamType
  <2>5. c \notin crossed => Finishing(v, Mine(c), Behind) /\ Past(v.s.last) = t.max
    BY <1>1, <1>2, <1>3, FinishingSync
  <2> HIDE DEF v
  <2> QED
    BY <1>4, <2>1, <2>3, <2>4, <2>5
<1>6. CASE ResumeReplay(c, t) /\ Replayable(c, t)
  <2> DEFINE v == Sent(View(c), Replayed(c, t))
  <2>1. FinishReplay(c, t, v) /\ t.stage = "replay" /\ t.low <= t.after
    BY <1>6 DEF ResumeReplay, Replayable
  <2>2. t.max \in 0..last /\ t.after \in 0..last /\ t.low \in 0..last
    BY <1>1, <2>1 DEF TaskType, CursorType
  <2>3. Replayed(c, t) = {n \in (t.after + 1)..t.max : n > t.low /\ n \in Mine(c)}
    <3>1. \A n \in (t.after + 1)..t.max : n \in 1..last
      BY <1>1, <2>2
    <3> QED
      BY <3>1 DEF Replayed, Mine
  <2>4. Replayed(c, t) \in SUBSET (0..last)
    BY <1>1, <2>3
  <2>5. v \in ViewType(last) /\ Advanced(View(c), Replayed(c, t), v)
    BY <1>1, <2>4, SentFacts
  <2>6. v.s.pending = stream[c].pending /\ v.s.overflow = stream[c].overflow
    <3> HIDE DEF v
    <3> QED
      BY <1>1, <2>5 DEF Advanced, ViewType, StreamType
  <2>7. c \notin crossed => /\ Finishing(v, Mine(c), Behind)
                            /\ \A n \in Mine(c) : n > Past(v.s.last) => n > t.max
    <3> SUFFICES ASSUME c \notin crossed
                 PROVE  /\ Finishing(Sent(View(c), Replayed(c, t)), Mine(c), Behind)
                        /\ \A n \in Mine(c) : n > Past(Sent(View(c), Replayed(c, t)).s.last) => n > t.max
      OBVIOUS
    <3> HIDE DEF v
    <3>1. t.after # NoCursor
      BY <1>1, <2>1
    <3> QED
      BY <1>1, <1>2, <1>3, <2>1, <2>3, <3>1, FinishingReplay
  <2> HIDE DEF v
  <2> QED
    BY <1>4, <2>1, <2>5, <2>6, <2>7
<1>7. CASE ResumeReplay(c, t) /\ ~Replayable(c, t)
  BY <1>7, ResyncSteps DEF ResumeReplay
<1> QED
  BY <1>5, <1>6, <1>7

LEMMA AnswerSteps ==
    ASSUME StreamInv, NEW c \in Client, NEW t \in tasks[c], AnswerTask(c, t)
    PROVE  StepOf(c)
<1>1. /\ View(c) \in ViewType(last) /\ View(c).s = stream[c] /\ View(c).b = browser[c]
      /\ tasks[c] \in SUBSET TaskType(last) /\ Mine(c) \in SUBSET (1..last) /\ last \in Nat
      /\ floor \in 0..last /\ Cardinality(stream[c].pending) <= ReplayLimit
      /\ stream[c].overflow => stream[c].pending = {}
      /\ \A w \in tasks[c] : w.stage = "replay" => w.after # NoCursor
  BY ViewsTyped DEF StreamInv, ClientsTyped, LogInv
<1> DEFINE low == IF t.stage = "replay" THEN floor ELSE 0
           u == [t EXCEPT !.answered = TRUE, !.max = last, !.low = low]
           R == (tasks[c] \ {t}) \union {u}
<1>2. tasks' = [tasks EXCEPT ![c] = R] /\ UNCHANGED <<stream, browser, crossed>>
  BY DEF AnswerTask
<1>3. OneClient(c, View(c), R)
  BY <1>1, <1>2 DEF OneClient, StreamInv, ClientsTyped
<1>4. u \in TaskType(last) /\ u.stage = t.stage /\ u.after = t.after /\ u.max = last
  <2>1. low \in 0..last /\ last \in 0..last
    BY <1>1
  <2> HIDE DEF low
  <2> QED
    BY <1>1, <2>1 DEF TaskType
<1>5. WellTyped(View(c), R)
  <2> HIDE DEF u
  <2> QED
    BY <1>1, <1>4 DEF WellTyped
<1>6. ASSUME c \notin crossed PROVE Served(View(c), R, Mine(c), Behind)
  <2>1. Served(View(c), tasks[c], Mine(c), Behind)
    BY <1>6 DEF StreamInv, ClientServed
  <2> QED
    BY <1>1, <2>1, ServedAnswered
<1>7. Carried(c, View(c), R)
  <2>1. u \in R
    OBVIOUS
  <2> HIDE DEF u, R
  <2> QED
    BY <1>4, <2>1 DEF Carried
<1> QED
  BY <1>3, <1>5, <1>6, <1>7 DEF StepOf

LEMMA CloseSteps ==
    ASSUME StreamInv, NEW c \in Client, Close(c), UNCHANGED <<browser, crossed>>
    PROVE  StepOf(c)
<1> DEFINE r == [s |-> ClosedStream, b |-> browser[c]]
<1>1. /\ browser[c] \in BrowserType(last) /\ last \in Nat
      /\ r.s = ClosedStream /\ r.b = browser[c]
  BY DEF StreamInv, ClientsTyped, LogInv
<1>2. ClosedStream \in StreamType(last) /\ ~ClosedStream.open /\ ClosedStream.pending = {}
  BY <1>1 DEF ClosedStream, StreamType, CursorType
<1>3. OneClient(c, r, {})
  BY <1>1 DEF Close, OneClient, StreamInv, ClientsTyped
<1>4. WellTyped(r, {})
  <2>1. Cardinality({}) <= ReplayLimit
    BY FS_EmptySet, LimitsFacts
  <2> QED
    BY <1>1, <1>2, <2>1 DEF WellTyped, ViewType
<1>5. ASSUME c \notin crossed PROVE Served(r, {}, Mine(c), Behind)
  <2>1. Served(View(c), tasks[c], Mine(c), Behind)
    BY <1>5 DEF StreamInv, ClientServed
  <2>2. NoGap(r, Mine(c))
    BY <1>1, <2>1 DEF Served, NoGap, View
  <2> HIDE DEF r
  <2> QED
    BY <1>1, <1>2, <2>2 DEF Served
<1>6. Carried(c, r, {})
  BY <1>1, <1>2 DEF Carried
<1> QED
  BY <1>3, <1>4, <1>5, <1>6 DEF StepOf

LEMMA FailSteps ==
    ASSUME StreamInv, NEW c \in Client, NEW t \in tasks[c],
           TaskFails(c, t) \/ (FinishFails(c, t) /\ ~Restart)
    PROVE  StepOf(c)
<1>1. /\ View(c) \in ViewType(last) /\ View(c).s = stream[c] /\ View(c).b = browser[c]
      /\ tasks[c] \in SUBSET TaskType(last)
      /\ Cardinality(stream[c].pending) <= ReplayLimit
      /\ stream[c].overflow => stream[c].pending = {}
      /\ \A w \in tasks[c] : w.stage = "replay" => w.after # NoCursor
  BY ViewsTyped DEF StreamInv, ClientsTyped
<1>2. CASE TaskFails(c, t)
  <2>1. CASE t.stage = "retry"
    BY <1>2, <2>1, CloseSteps DEF TaskFails
  <2>2. CASE t.stage # "retry"
    BY <1>2, <2>2, ResyncSteps DEF TaskFails
  <2> QED
    BY <2>1, <2>2
<1>3. CASE FinishFails(c, t) /\ ~Restart
  <2> DEFINE R == tasks[c] \ {t}
  <2>1. tasks' = [tasks EXCEPT ![c] = R] /\ UNCHANGED <<stream, browser, crossed>>
    BY <1>3 DEF FinishFails
  <2>2. OneClient(c, View(c), R)
    BY <1>1, <2>1 DEF OneClient, StreamInv, ClientsTyped
  <2>3. WellTyped(View(c), R)
    BY <1>1 DEF WellTyped
  <2>4. ASSUME c \notin crossed
        PROVE  Served(View(c), R, Mine(c), Behind) /\ Carried(c, View(c), R)
    <3>1. Served(View(c), tasks[c], Mine(c), Behind)
      BY <2>4 DEF StreamInv, ClientServed
    <3>2. R = {} /\ stream[c].replaying
      BY <1>1, <3>1 DEF Served
    <3>3. Served(View(c), {}, Mine(c), Behind)
      BY <1>1, <3>1, <3>2 DEF Served
    <3> QED
      BY <1>1, <3>2, <3>3 DEF Carried
  <2> QED
    BY <2>2, <2>3, <2>4 DEF StepOf
<1> QED
  BY <1>2, <1>3

LEMMA ConnectSteps ==
    ASSUME StreamInv, NEW c \in Client, Connect(c)
    PROVE  StepOf(c)
<1> DEFINE cursor == browser[c].cursor
           s == [ClosedStream EXCEPT !.open = TRUE, !.last = cursor, !.replaying = TRUE]
           b == [browser[c] EXCEPT !.link = "up"]
           r == [s |-> s, b |-> b]
           u == Begin(Request, cursor)
<1>1. browser[c] \in BrowserType(last) /\ cursor \in CursorType(last) /\ last \in Nat
  BY DEF StreamInv, ClientsTyped, BrowserType, LogInv
<1>2. OneClient(c, r, {u})
  BY DEF Connect, OneClient, StreamInv, ClientsTyped
<1>3. /\ s \in StreamType(last) /\ s.open /\ s.replaying /\ s.last = cursor /\ s.pending = {}
  BY <1>1 DEF ClosedStream, StreamType
<1>4. b \in BrowserType(last) /\ b.cursor = cursor /\ b.got = browser[c].got
  BY <1>1 DEF BrowserType
<1>5. u \in TaskType(last) /\ ~u.answered /\ (u.stage = "replay" => u.after = cursor /\ cursor # NoCursor)
  <2>1. Request \in Starter /\ 0 \in 0..last /\ NoCursor \in CursorType(last)
    BY <1>1 DEF Starter, CursorType
  <2> QED
    BY <1>1, <2>1 DEF Begin, Query, TaskType
<1> HIDE DEF s, b, u
<1>6. r \in ViewType(last) /\ r.s = s /\ r.b = b
  BY <1>3, <1>4 DEF ViewType
<1> HIDE DEF r
<1>7. WellTyped(r, {u})
  <2>1. Cardinality({}) <= ReplayLimit
    BY FS_EmptySet, LimitsFacts
  <2> QED
    BY <1>3, <1>5, <1>6, <2>1 DEF WellTyped
<1>8. ASSUME c \notin crossed PROVE Served(r, {u}, Mine(c), Behind)
  <2>1. NoGap(View(c), Mine(c))
    BY <1>8 DEF StreamInv, ClientServed, Served
  <2>2. NoGap(r, Mine(c)) /\ InStep(r)
    BY <1>3, <1>4, <1>6, <2>1 DEF NoGap, InStep, View
  <2> QED
    BY <1>3, <1>5, <1>6, <2>2 DEF Served
<1>9. Carried(c, r, {u})
  BY <1>5 DEF Carried
<1> QED
  BY <1>2, <1>7, <1>8, <1>9 DEF StepOf

(* The browser gives up, starts again or loses its connection. *)
LEMMA LinkSteps ==
    ASSUME StreamInv, NEW c \in Client, Refuse(c) \/ Reopen(c) \/ LinkBreaks(c)
    PROVE  StepOf(c)
<1>1. /\ stream[c] \in StreamType(last) /\ browser[c] \in BrowserType(last)
      /\ tasks[c] \in SUBSET TaskType(last) /\ Mine(c) \in SUBSET (1..last) /\ last \in Nat
      /\ Cardinality(stream[c].pending) <= ReplayLimit
      /\ stream[c].overflow => stream[c].pending = {}
      /\ \A w \in tasks[c] : w.stage = "replay" => w.after # NoCursor
  BY ViewsTyped DEF StreamInv, ClientsTyped
<1>2. PICK b \in BrowserType(last) :
        /\ browser' = [browser EXCEPT ![c] = b] /\ b.link # "up" /\ b.got = browser[c].got
        /\ b.cursor = browser[c].cursor \/ b.cursor = NoCursor
  <2>1. CASE Refuse(c)
    <3> DEFINE b == [browser[c] EXCEPT !.link = "stopped"]
    <3>1. /\ b \in BrowserType(last) /\ b.link # "up" /\ b.got = browser[c].got
          /\ b.cursor = browser[c].cursor
      BY <1>1 DEF BrowserType
    <3> QED
      BY <2>1, <3>1 DEF Refuse
  <2>2. CASE Reopen(c)
    <3> DEFINE b == [browser[c] EXCEPT !.link = "retrying", !.cursor = NoCursor]
    <3>1. /\ b \in BrowserType(last) /\ b.link # "up" /\ b.got = browser[c].got
          /\ b.cursor = NoCursor
      BY <1>1 DEF BrowserType, CursorType
    <3> QED
      BY <2>2, <3>1 DEF Reopen
  <2>3. CASE LinkBreaks(c)
    <3> DEFINE b == [browser[c] EXCEPT !.link = "retrying"]
    <3>1. /\ b \in BrowserType(last) /\ b.link # "up" /\ b.got = browser[c].got
          /\ b.cursor = browser[c].cursor
      BY <1>1 DEF BrowserType
    <3> QED
      BY <2>3, <3>1 DEF LinkBreaks
  <2> QED
    BY <2>1, <2>2, <2>3
<1> DEFINE r == [s |-> stream[c], b |-> b]
<1>3. r \in ViewType(last) /\ r.s = stream[c] /\ r.b = b
  BY <1>1 DEF ViewType
<1>4. OneClient(c, r, tasks[c])
  <2>1. UNCHANGED <<stream, tasks, crossed>>
    BY DEF Refuse, Reopen, LinkBreaks
  <2> QED
    BY <1>2, <1>3, <2>1 DEF OneClient, StreamInv, ClientsTyped
<1> HIDE DEF r
<1>5. WellTyped(r, tasks[c]) /\ Carried(c, r, tasks[c])
  BY <1>1, <1>3 DEF WellTyped, Carried
<1>6. ASSUME c \notin crossed PROVE Served(r, tasks[c], Mine(c), Behind)
  <2>1. Served(View(c), tasks[c], Mine(c), Behind) /\ View(c).s = stream[c] /\ View(c).b = browser[c]
    BY <1>6 DEF StreamInv, ClientServed, View
  <2>2. NoGap(r, Mine(c)) /\ InStep(r)
    <3>1. \A n \in Mine(c) : ~(n <= Past(NoCursor))
      BY <1>1 DEF Past
    <3> QED
      BY <1>2, <1>3, <2>1, <3>1 DEF Served, NoGap, InStep
  <2> QED
    BY <1>3, <2>1, <2>2 DEF Served
<1> QED
  BY <1>4, <1>5, <1>6 DEF StepOf

LEMMA ServedClosed ==
    ASSUME NEW v, ~v.s.open, NEW mine, NEW behind, NoGap(v, mine)
    PROVE  Served(v, {}, mine, behind)
BY DEF Served

LEMMA RecoverSteps ==
    ASSUME StreamInv, NEW starter \in Starter, Recover(starter), last' = last,
           \A c \in Client : Mine(c)' = Mine(c)
    PROVE  ClientsTyped' /\ \A c \in Client \ crossed' : ClientServed(c)'
<1>0. /\ last \in Nat /\ 0 \in 0..last /\ NoCursor \in CursorType(last)
      /\ stream \in [Client -> StreamType(last)] /\ tasks \in [Client -> SUBSET TaskType(last)]
  BY DEF StreamInv, LogInv, ClientsTyped, CursorType
<1>1. ASSUME NEW c \in Client, stream[c].open
      PROVE  /\ [stream[c] EXCEPT !.replaying = TRUE] \in StreamType(last)
             /\ Begin(starter, stream[c].last) \in TaskType(last)
             /\ Begin(starter, stream[c].last).stage = "replay" =>
                  Begin(starter, stream[c].last).after # NoCursor
  <2>1. stream[c] \in StreamType(last) /\ stream[c].last \in CursorType(last)
    BY <1>0 DEF StreamType
  <2> QED
    BY <1>0, <2>1 DEF StreamType, Begin, Query, TaskType
<1>2. ClientsTyped'
  <2>1. stream' \in [Client -> StreamType(last)]
    BY <1>0, <1>1 DEF Recover, OpenClients
  <2>2. tasks' \in [Client -> SUBSET TaskType(last)]
    BY <1>0, <1>1 DEF Recover, OpenClients
  <2>3. \A c \in Client : stream'[c].pending = stream[c].pending /\ stream'[c].overflow = stream[c].overflow
    BY <1>0 DEF Recover, OpenClients, StreamType
  <2>4. \A c \in Client : \A t \in tasks'[c] : t.stage = "replay" => t.after # NoCursor
    <3> SUFFICES ASSUME NEW c \in Client, NEW t \in tasks'[c], t.stage = "replay"
                 PROVE  t.after # NoCursor
      OBVIOUS
    <3>1. t \in tasks[c] \/ (stream[c].open /\ t = Begin(starter, stream[c].last))
      BY DEF Recover, OpenClients
    <3> QED
      BY <1>1, <3>1 DEF StreamInv, ClientsTyped
  <2>5. browser' = browser /\ crossed' \subseteq Client
    BY DEF Recover, OpenClients, StreamInv, ClientsTyped
  <2> QED
    BY <2>1, <2>2, <2>3, <2>4, <2>5 DEF StreamInv, ClientsTyped
<1>3. ASSUME NEW c \in Client \ crossed' PROVE ClientServed(c)'
  <2>1. c \notin crossed /\ browser' = browser /\ (stream[c].open => tasks[c] = {})
    BY <1>3 DEF Recover, OpenClients
  <2>2. Served(View(c), tasks[c], Mine(c), Behind) /\ last \in Nat
    BY <1>0, <2>1 DEF StreamInv, ClientServed
  <2>3. /\ View(c) \in ViewType(last) /\ View(c).s = stream[c] /\ View(c).b = browser[c]
    BY ViewsTyped DEF StreamInv
  <2>4. CASE stream[c].open
    <3>1. Served([s |-> [stream[c] EXCEPT !.replaying = TRUE], b |-> browser[c]],
                 tasks[c] \union {Begin(starter, stream[c].last)}, Mine(c), Behind')
      BY <2>1, <2>2, <2>3, <2>4, ServedBegin
    <3>2. /\ View(c)' = [s |-> [stream[c] EXCEPT !.replaying = TRUE], b |-> browser[c]]
          /\ tasks'[c] = tasks[c] \union {Begin(starter, stream[c].last)}
      BY <2>1, <2>4 DEF Recover, OpenClients, View
    <3> QED
      BY <3>1, <3>2 DEF ClientServed
  <2>5. CASE ~stream[c].open
    <3>1. View(c)' = View(c) /\ tasks'[c] = tasks[c]
      BY <2>1, <2>5 DEF Recover, OpenClients, View
    <3>2. tasks[c] = {} /\ NoGap(View(c), Mine(c))
      BY <2>2, <2>3, <2>5 DEF Served
    <3>3. Served(View(c), {}, Mine(c), Behind')
      BY <2>3, <2>5, <3>2, ServedClosed
    <3> QED
      BY <3>1, <3>2, <3>3 DEF ClientServed
  <2> QED
    BY <2>4, <2>5
<1> QED
  BY <1>2, <1>3

LEMMA RestartSteps ==
    ASSUME StreamInv, Restart, UNCHANGED <<browser, crossed>>, last' = last,
           \A c \in Client : Mine(c)' = Mine(c)
    PROVE  ClientsTyped' /\ \A c \in Client \ crossed' : ClientServed(c)'
<1>1. /\ last \in Nat /\ ClosedStream.pending = {} /\ ~ClosedStream.overflow /\ ~ClosedStream.open
      /\ ClosedStream \in StreamType(last)
  BY DEF StreamInv, LogInv, ClosedStream, StreamType, CursorType
<1>2. Cardinality({}) <= ReplayLimit
  BY FS_EmptySet, LimitsFacts
<1>3. ClientsTyped'
  BY <1>1, <1>2 DEF Restart, StreamInv, ClientsTyped
<1>4. ASSUME NEW c \in Client \ crossed PROVE ClientServed(c)'
  <2>1. View(c)' = [s |-> ClosedStream, b |-> browser[c]] /\ tasks'[c] = {}
    BY DEF Restart, View
  <2>2. NoGap(View(c), Mine(c))
    BY DEF StreamInv, ClientServed, Served
  <2>3. NoGap([s |-> ClosedStream, b |-> browser[c]], Mine(c))
    BY <2>2 DEF NoGap, View
  <2>4. Served([s |-> ClosedStream, b |-> browser[c]], {}, Mine(c), Behind')
    BY <1>1, <2>3, ServedClosed
  <2> QED
    BY <2>1, <2>4 DEF ClientServed
<1> QED
  BY <1>3, <1>4

LEMMA DispatchSteps ==
    ASSUME StreamInv, ResumeDrain, last' = last, \A c \in Client : Mine(c)' = Mine(c)
    PROVE  ClientsTyped' /\ \A c \in Client \ crossed' : ClientServed(c)'
<1>0. /\ last \in Nat /\ watermark \in 0..last /\ drain.from \in 0..last /\ drain.max \in 0..last
      /\ ReadTo \in 0..last
      /\ \A n \in 1..last : n \in DrainRows <=> drain.from < n /\ n <= ReadTo
  <2>1. last \in Nat /\ drain.from \in 0..last /\ drain.max \in 0..last /\ watermark \in 0..last
    BY DrainFacts DEF StreamInv, LogInv
  <2> QED
    BY <2>1, DrainReads DEF StreamInv
<1>1. \A n \in Behind' : n <= ReadTo
  <2>1. watermark' = ReadTo /\ drain'.from \in {0, ReadTo}
    BY DEF ResumeDrain, ReadTo, NextDrain, SendDrain, IdleDrain
  <2> QED
    BY <1>0, <2>1 DEF Behind
<1>2. ASSUME NEW c \in Client
      PROVE  LET v == DispatchTo(c, DrainRows)
             IN  /\ v \in ViewType(last) /\ Cardinality(v.s.pending) <= ReplayLimit
                 /\ v.s.overflow => v.s.pending = {}
                 /\ c \notin crossed => Served(v, tasks[c], Mine(c), Behind')
  <2> DEFINE rows == {n \in DrainRows : For(c, n)}
  <2>1. /\ View(c) \in ViewType(last) /\ View(c).s = stream[c] /\ View(c).b = browser[c]
        /\ tasks[c] \in SUBSET TaskType(last) /\ Mine(c) \in SUBSET (1..last)
        /\ Cardinality(stream[c].pending) <= ReplayLimit
        /\ stream[c].overflow => stream[c].pending = {}
        /\ c \notin crossed => Served(View(c), tasks[c], Mine(c), Behind)
    BY ViewsTyped DEF StreamInv, ClientsTyped, ClientServed
  <2>2. DrainRows \in SUBSET (1..last)
    BY <1>0 DEF DrainRows
  <2>3. rows \in SUBSET Mine(c) /\ rows \in SUBSET (0..last)
    <3>1. ASSUME NEW n \in rows PROVE n \in Mine(c) /\ n \in 0..last
      <4>1. n \in DrainRows /\ For(c, n)
        OBVIOUS
      <4> QED
        BY <1>0, <2>2, <4>1 DEF Mine
    <3> QED
      BY <3>1
  <2>4. /\ \A n \in Mine(c) : n \in rows <=> drain.from < n /\ n <= ReadTo
        /\ \A n \in Mine(c) : n <= drain.from => n \in Behind
    BY <1>0 DEF Mine, Behind
  <2> HIDE DEF rows
  <2>5. CASE ~stream[c].open
    <3>1. DispatchTo(c, DrainRows) = View(c)
      BY <2>5 DEF DispatchTo
    <3>2. c \notin crossed => tasks[c] = {} /\ Served(View(c), {}, Mine(c), Behind')
      BY <2>1, <2>5, ServedClosed DEF Served
    <3> QED
      BY <2>1, <3>1, <3>2
  <2>6. CASE stream[c].open
    <3> DEFINE v == IF stream[c].replaying THEN [s |-> Buffered(stream[c], rows), b |-> browser[c]]
                                           ELSE Sent(View(c), rows)
    <3>1. DispatchTo(c, DrainRows) = v
      BY <2>6 DEF DispatchTo, rows
    <3>2. c \notin crossed => Served(v, tasks[c], Mine(c), Behind')
      <4> SUFFICES ASSUME c \notin crossed PROVE Served(v, tasks[c], Mine(c), Behind')
        OBVIOUS
      <4>1. /\ View(c).s.open /\ Cardinality(View(c).s.pending) <= ReplayLimit
            /\ View(c).s.overflow => View(c).s.pending = {}
            /\ \A n \in Mine(c) \cap Behind' : n <= ReadTo
        BY <1>1, <2>1, <2>6
      <4>2. Served(IF View(c).s.replaying
                     THEN [s |-> Buffered(View(c).s, rows), b |-> View(c).b]
                     ELSE Sent(View(c), rows), tasks[c], Mine(c), Behind')
        <5> HIDE DEF v
        <5>1. Served(View(c), tasks[c], Mine(c), Behind) /\ rows \in SUBSET Mine(c)
          BY <2>1, <2>3
        <5> QED
          BY <1>0, <2>1, <2>4, <4>1, <5>1, ServedRows
      <4> QED
        BY <2>1, <4>2
    <3>3. /\ v \in ViewType(last) /\ Cardinality(v.s.pending) <= ReplayLimit
          /\ v.s.overflow => v.s.pending = {}
      <4>1. CASE stream[c].replaying
        <5> DEFINE s == Buffered(stream[c], rows)
        <5>1. s \in StreamType(last) /\ Kept(stream[c], rows, s)
          BY <1>0, <2>1, <2>3, BufferedFacts DEF ViewType
        <5>2. v = [s |-> s, b |-> browser[c]]
          BY <4>1
        <5> HIDE DEF s, v
        <5> QED
          BY <2>1, <5>1, <5>2 DEF Kept, ViewType
      <4>2. CASE ~stream[c].replaying
        <5>1. v = Sent(View(c), rows)
          BY <4>2
        <5> HIDE DEF v
        <5>2. v \in ViewType(last) /\ Advanced(View(c), rows, v)
          BY <1>0, <2>1, <2>3, <5>1, SentFacts
        <5> QED
          BY <2>1, <5>2 DEF Advanced, ViewType, StreamType
      <4> QED
        BY <4>1, <4>2
    <3> HIDE DEF v
    <3> QED
      BY <3>1, <3>2, <3>3
  <2> QED
    BY <2>5, <2>6
<1>3. /\ stream' = [c \in Client |-> DispatchTo(c, DrainRows).s]
      /\ browser' = [c \in Client |-> DispatchTo(c, DrainRows).b]
      /\ UNCHANGED <<tasks, crossed>>
  BY DEF ResumeDrain
<1>4. ClientsTyped'
  <2>1. stream' \in [Client -> StreamType(last)] /\ browser' \in [Client -> BrowserType(last)]
    BY <1>2, <1>3 DEF ViewType
  <2>2. \A c \in Client : /\ Cardinality(stream'[c].pending) <= ReplayLimit
                          /\ stream'[c].overflow => stream'[c].pending = {}
    BY <1>2, <1>3
  <2> QED
    BY <1>3, <2>1, <2>2 DEF StreamInv, ClientsTyped
<1>5. ASSUME NEW c \in Client \ crossed' PROVE ClientServed(c)'
  <2>1. View(c)' = DispatchTo(c, DrainRows)
    BY <1>2, <1>3 DEF View, ViewType
  <2> QED
    BY <1>2, <1>3, <1>5, <2>1 DEF ClientServed
<1> QED
  BY <1>4, <1>5

(* What a step may be to the streams: it leaves them alone, it is a step of *)
(* one of them, it makes them recover, it brings them rows, or it is the    *)
(* end of the process.                                                     *)
Quiet ==
    UNCHANGED clientVars /\ watermark' = watermark /\ drain'.from \in {0, watermark, drain.from}

OneStream == \E c \in Client : StepOf(c) /\ UNCHANGED <<watermark, drain>>

LEMMA StepKinds ==
    ASSUME StreamInv, [Next]_vars
    PROVE  \/ Quiet
           \/ OneStream
           \/ \E starter \in Starter : Recover(starter)
           \/ ResumeDrain
           \/ Restart /\ UNCHANGED <<browser, crossed>>
<1>1. CASE (\E e \in Event : Publish(e)) \/ Expire \/ TimerFires \/ UNCHANGED vars
  BY <1>1 DEF Publish, Expire, TimerFires, vars, Quiet
<1>2. CASE \E g \in Connection : BrokerStep(g) \/ DialOrReadFails(g) \/ SocketDrops(g)
  <2>1. PICK g \in Connection : BrokerStep(g) \/ DialOrReadFails(g) \/ SocketDrops(g)
    BY <1>2
  <2>2. CASE Listens(g) \/ AnswerWatermark(g) \/ ConnectReturns(g) \/ DialOrReadFails(g) \/ SocketDrops(g)
    BY <2>2 DEF Listens, AnswerWatermark, ConnectReturns, DialOrReadFails, SocketDrops, Quiet
  <2>3. CASE BecomeReady(g)
    <3>1. Connecting(g) \in Starter /\ Recover(Connecting(g))
      BY <2>3 DEF BecomeReady, Starter
    <3> QED
      BY <3>1
  <2>4. CASE Notified(g)
    <3>1. UNCHANGED clientVars /\ watermark' = watermark
      BY <2>4 DEF Notified
    <3>2. \/ drain' = drain
          \/ drain' = SendDrain(FALSE, watermark)
          \/ drain' = [drain EXCEPT !.requested = TRUE]
      BY <2>4 DEF Notified
    <3>3. drain'.from \in {watermark, drain.from}
      BY <3>2 DEF SendDrain, StreamInv, BrokerTyped, DrainType
    <3> QED
      BY <3>1, <3>3 DEF Quiet
  <2> QED
    BY <2>1, <2>2, <2>3, <2>4 DEF BrokerStep
<1>3. CASE AnswerDrain
  BY <1>3 DEF AnswerDrain, Quiet, StreamInv, BrokerTyped, DrainType
<1>4. CASE RepairEnds
  BY <1>4 DEF RepairEnds, Quiet, NextDrain, SendDrain, IdleDrain
<1>5. CASE DrainThrows
  BY <1>5 DEF DrainThrows, Starter
<1>6. CASE \E c \in Client : TaskStep(c)
  <2>1. PICK c \in Client : TaskStep(c)
    BY <1>6
  <2>2. PICK t \in tasks[c] : AnswerTask(c, t) \/ ResumeReplay(c, t) \/ ResumeFullSync(c, t)
    BY <2>1 DEF TaskStep
  <2>3. StepOf(c)
    BY <2>2, AnswerSteps, ResumeSteps
  <2>4. UNCHANGED <<watermark, drain>>
    BY <2>2 DEF AnswerTask, ResumeReplay, ResumeFullSync
  <2> QED
    BY <2>3, <2>4 DEF OneStream
<1>7. CASE \E c \in Client : \E t \in tasks[c] : TaskFails(c, t) \/ FinishFails(c, t)
  <2>1. PICK c \in Client : \E t \in tasks[c] : TaskFails(c, t) \/ FinishFails(c, t)
    BY <1>7
  <2>2. PICK t \in tasks[c] : TaskFails(c, t) \/ FinishFails(c, t)
    BY <2>1
  <2>3. CASE FinishFails(c, t) /\ Restart
    BY <2>3 DEF FinishFails
  <2>4. CASE TaskFails(c, t) \/ (FinishFails(c, t) /\ ~Restart)
    <3>1. StepOf(c)
      BY <2>4, FailSteps
    <3>2. UNCHANGED <<watermark, drain>>
      BY <2>4 DEF TaskFails, FinishFails
    <3> QED
      BY <3>1, <3>2 DEF OneStream
  <2> QED
    BY <2>2, <2>3, <2>4
<1>8. CASE \E c \in Client : Connect(c) \/ Refuse(c) \/ Reopen(c) \/ LinkBreaks(c) \/ ServerNotices(c)
  <2>1. PICK c \in Client : Connect(c) \/ Refuse(c) \/ Reopen(c) \/ LinkBreaks(c) \/ ServerNotices(c)
    BY <1>8
  <2>2. StepOf(c)
    <3>1. CASE ServerNotices(c)
      BY <3>1, CloseSteps DEF ServerNotices
    <3> QED
      BY <2>1, <3>1, ConnectSteps, LinkSteps
  <2>3. UNCHANGED <<watermark, drain>>
    BY <2>1 DEF Connect, Refuse, Reopen, LinkBreaks, ServerNotices
  <2> QED
    BY <2>2, <2>3 DEF OneStream
<1>9. CASE ProcessRestarts
  BY <1>9 DEF ProcessRestarts
<1> QED
  BY <1>1, <1>2, <1>3, <1>4, <1>5, <1>6, <1>7, <1>8, <1>9 DEF Next

(* Only a step that leaves the streams alone is a publication. *)
LEMMA LogStill ==
    ASSUME StreamInv, [Next]_vars, ~Quiet
    PROVE  last' = last /\ \A c \in Client : Mine(c)' = Mine(c)
<1>1. ASSUME NEW e \in Event, Publish(e) PROVE Quiet
  BY <1>1 DEF Publish, Quiet
<1> QED
  BY <1>1, LogSteps DEF StreamInv

LEMMA ClientSteps ==
    ASSUME StreamInv, [Next]_vars
    PROVE  ClientsTyped' /\ \A c \in Client \ crossed' : ClientServed(c)'
<1>1. /\ last' \in Nat /\ last <= last'
      /\ \A c \in Client : Mine(c)' \subseteq Mine(c) \union {last + 1}
  BY LogSteps DEF StreamInv
<1>2. watermark' = watermark /\ drain'.from \in {0, watermark, drain.from} =>
        Behind' \subseteq Behind /\ last + 1 \notin Behind'
  BY <1>1, BehindStays DEF StreamInv
<1>3. CASE Quiet
  <2>1. ClientsTyped'
    BY <1>1, <1>3, QuietTyped DEF Quiet, StreamInv
  <2>2. \A c \in Client \ crossed' : ClientServed(c)'
    BY <1>1, <1>2, <1>3, QuietServed DEF Quiet
  <2> QED
    BY <2>1, <2>2
<1>4. CASE OneStream /\ ~Quiet
  <2>1. PICK c \in Client : StepOf(c) /\ UNCHANGED <<watermark, drain>>
    BY <1>4 DEF OneStream
  <2>2. PICK r, R : /\ OneClient(c, r, R) /\ WellTyped(r, R)
                    /\ c \notin crossed => Served(r, R, Mine(c), Behind)
    BY <2>1 DEF StepOf
  <2>3. Behind' \subseteq Behind
    BY <1>2, <2>1
  <2>4. last' = last /\ \A d \in Client : Mine(d)' = Mine(d)
    BY <1>4, LogStill
  <2> QED
    BY <2>2, <2>3, <2>4, OneClientSteps
<1>5. CASE (\E starter \in Starter : Recover(starter)) /\ ~Quiet
  BY <1>5, LogStill, RecoverSteps
<1>6. CASE ResumeDrain /\ ~Quiet
  BY <1>6, LogStill, DispatchSteps
<1>7. CASE Restart /\ UNCHANGED <<browser, crossed>> /\ ~Quiet
  BY <1>7, LogStill, RestartSteps
<1> QED
  BY <1>3, <1>4, <1>5, <1>6, <1>7, StepKinds

LEMMA InitStreamInv == Init => StreamInv
<1> SUFFICES ASSUME Init PROVE StreamInv
  OBVIOUS
<1>1. LogInv
  BY DEF Init, LogInit, LogInv
<1>2. last = 0 /\ 0 \in 0..last /\ 1 \in Connection /\ 0 \notin Connection
  BY LimitsFacts DEF Init, LogInit
<1>3. FirstDial \in [Connection -> ConnType(last)] /\ FirstDial[1].call = "dialing"
  BY <1>2 DEF FirstDial, NoConnection, ConnType
<1>4. BrokerTyped
  <2>1. budget \in [drops : Nat, faults : Nat, breaks : Nat]
    BY BoundsAssumption DEF Init
  <2>2. IdleDrain \in DrainType(last)
    BY <1>2 DEF IdleDrain, DrainType
  <2> QED
    BY <1>2, <1>3, <2>1, <2>2 DEF Init, BrokerTyped
<1>5. BrokerInv
  BY <1>2, <1>3 DEF Init, BrokerInv, BrokerIsComing
<1>6. /\ ClosedStream \in StreamType(last) /\ ClosedStream.pending = {} /\ ~ClosedStream.overflow
      /\ ~ClosedStream.open /\ NoCursor \in CursorType(last)
  BY DEF ClosedStream, StreamType, CursorType
<1>7. ClientsTyped
  <2>1. Cardinality({}) <= ReplayLimit
    BY FS_EmptySet, LimitsFacts
  <2> QED
    BY <1>6, <2>1 DEF Init, ClientsTyped, BrowserType
<1>8. ASSUME NEW c \in Client PROVE ClientServed(c)
  <2>1. NoGap(View(c), Mine(c)) /\ ~View(c).s.open
    <3>1. Mine(c) = {}
      BY <1>2 DEF Mine
    <3> QED
      BY <1>6, <3>1 DEF Init, NoGap, View
  <2> QED
    BY <2>1, ServedClosed DEF Init, ClientServed
<1> QED
  BY <1>1, <1>4, <1>5, <1>7, <1>8 DEF StreamInv

(* The invariant holds of every execution of the broker, the drain and the  *)
(* calls of openStream and recoverConnectedClients.                        *)
THEOREM StreamInvHolds == Spec => []StreamInv
<1>1. StreamInv /\ [Next]_vars => StreamInv'
  <2> SUFFICES ASSUME StreamInv, [Next]_vars PROVE StreamInv'
    OBVIOUS
  <2>1. LogInv'
    BY LogSteps DEF StreamInv
  <2>2. BrokerTyped' /\ BrokerInv'
    BY BrokerSteps DEF StreamInv
  <2>3. ClientsTyped' /\ \A c \in Client \ crossed' : ClientServed(c)'
    BY ClientSteps
  <2> QED
    BY <2>1, <2>2, <2>3 DEF StreamInv
<1> QED
  BY InitStreamInv, <1>1, PTL DEF Spec

(* What the service keeps of the log (watermark, cursors, buffers, answers  *)
(* of queries) lies in the log, and no buffer exceeds EVENT_REPLAY_LIMIT.  *)
THEOREM StreamIsTyped == Spec => []TypeOK
<1>1. StreamInv => TypeOK
  BY TypesImplyTypeOK DEF StreamInv
<1> QED
  BY <1>1, StreamInvHolds, PTL

(* A browser is never moved past an event it was not told of, whatever was  *)
(* published, lost, expired or broken, unless two recoveries crossed.      *)
THEOREM NoBrowserIsMovedPast == Spec => []NoGapUnlessCrossed
<1>1. StreamInv => NoGapUnlessCrossed
  <2> SUFFICES ASSUME StreamInv, NEW c \in Client \ crossed,
                      NEW n \in 1..Past(browser[c].cursor), For(c, n)
               PROVE  n \in browser[c].got
    BY DEF NoGapUnlessCrossed, HasNoGap
  <2>1. Past(browser[c].cursor) \in 0..last /\ last \in Nat
    BY PastCursor DEF StreamInv, LogInv, ClientsTyped, BrowserType
  <2>2. n \in Mine(c) /\ n <= Past(browser[c].cursor)
    BY <2>1 DEF Mine
  <2>3. NoGap(View(c), Mine(c))
    BY DEF StreamInv, ClientServed, Served
  <2> QED
    BY <2>2, <2>3 DEF NoGap, View
<1> QED
  BY <1>1, StreamInvHolds, PTL

(* The watermark never jumps over a stream that is live: what the drain has *)
(* gone past was dispatched to it.                                         *)
THEOREM LiveStreamsAreCurrent == Spec => []LiveClientsAreCurrent
<1>1. StreamInv => LiveClientsAreCurrent
  <2> SUFFICES ASSUME StreamInv, NEW c \in OpenClients \ crossed, ~stream[c].replaying,
                      NEW n \in 1..watermark, For(c, n)
               PROVE  n <= Past(stream[c].last)
    BY DEF LiveClientsAreCurrent
  <2>1. watermark \in 0..last /\ last \in Nat
    BY DEF StreamInv, LogInv, BrokerTyped
  <2>2. n \in Mine(c) /\ n \in Behind
    BY <2>1 DEF Mine, Behind
  <2>3. c \in Client /\ stream[c].open /\ Served(View(c), tasks[c], Mine(c), Behind)
    BY DEF OpenClients, StreamInv, ClientServed
  <2> QED
    BY <2>2, <2>3 DEF Served, View
<1> QED
  BY <1>1, StreamInvHolds, PTL

-----------------------------------------------------------------------------
(* Every replay ends.                                                      *)

(* What dispatch does to a stream ends no replay and begins none. *)
LEMMA DispatchKeepsReplays ==
    ASSUME StreamInv, NEW c \in Client, NEW rows
    PROVE  /\ DispatchTo(c, rows).s.open = stream[c].open
           /\ DispatchTo(c, rows).s.replaying = stream[c].replaying
<1>1. stream[c] \in StreamType(last)
  BY DEF StreamInv, ClientsTyped
<1>2. ASSUME NEW places
      PROVE  /\ Sent(View(c), places).s.open = stream[c].open
             /\ Sent(View(c), places).s.replaying = stream[c].replaying
  BY <1>1 DEF Sent, Frame, View, StreamType
<1>3. ASSUME NEW places
      PROVE  /\ Buffered(stream[c], places).open = stream[c].open
             /\ Buffered(stream[c], places).replaying = stream[c].replaying
  BY <1>1 DEF Buffered, StreamType
<1> QED
  BY <1>2, <1>3 DEF DispatchTo, View

(* finishReplay goes live, or leaves another call behind. *)
LEMMA FinishEndsReplay ==
    ASSUME StreamInv, ReplaysEnd, NEW c \in Client, NEW t \in tasks[c],
           NEW v \in ViewType(last), FinishReplay(c, t, v)
    PROVE  ReplaysEnd'
<1>1. stream \in [Client -> StreamType(last)] /\ tasks \in [Client -> SUBSET TaskType(last)]
  BY DEF StreamInv, ClientsTyped
<1>2. ASSUME NEW d \in Client, d # c PROVE ~Stranded(d)'
  BY <1>1, <1>2 DEF FinishReplay, ReplaysEnd, Stranded
<1>3. CASE v.s.overflow
  BY <1>1, <1>2, <1>3 DEF FinishReplay, ReplaysEnd, Stranded
<1>4. CASE ~v.s.overflow
  <2>1. last \in Nat /\ v.s.pending \in SUBSET (0..last)
    BY DEF StreamInv, LogInv, ViewType, StreamType
  <2>2. Sent(v, v.s.pending).s \in StreamType(last)
    BY <2>1, SentFacts DEF ViewType
  <2>3. stream' = [stream EXCEPT ![c] = [Sent(v, v.s.pending).s EXCEPT
                                             !.pending = {}, !.replaying = FALSE]]
    BY <1>4 DEF FinishReplay
  <2>4. ~stream'[c].replaying
    BY <1>1, <2>2, <2>3 DEF StreamType
  <2> QED
    BY <1>2, <2>4 DEF ReplaysEnd, Stranded
<1> QED
  BY <1>3, <1>4

LEMMA ResumeEndsReplay ==
    ASSUME StreamInv, ReplaysEnd, NEW c \in Client, NEW t \in tasks[c],
           ResumeReplay(c, t) \/ ResumeFullSync(c, t)
    PROVE  ReplaysEnd'
<1>1. /\ View(c) \in ViewType(last) /\ t \in TaskType(last) /\ last \in Nat
      /\ Mine(c) \in SUBSET (1..last) /\ tasks \in [Client -> SUBSET TaskType(last)]
  BY ViewsTyped DEF StreamInv, ClientsTyped
<1>2. CASE ResumeFullSync(c, t)
  <2>1. t.max \in 0..last /\ 1..t.max \in SUBSET (0..last)
    BY <1>1 DEF TaskType
  <2>2. Synced(View(c), t.max) \in ViewType(last)
    BY <1>1, <2>1, FrameFacts DEF Synced
  <2> QED
    BY <1>2, <2>2, FinishEndsReplay DEF ResumeFullSync
<1>3. CASE ResumeReplay(c, t) /\ Replayable(c, t)
  <2>1. Replayed(c, t) \in SUBSET (0..last)
    <3>1. t.after \in 0..last /\ t.max \in 0..last
      BY <1>1, <1>3 DEF ResumeReplay, TaskType, CursorType, StreamInv, ClientsTyped
    <3> QED
      BY <1>1, <3>1 DEF Replayed
  <2>2. Sent(View(c), Replayed(c, t)) \in ViewType(last)
    BY <1>1, <2>1, SentFacts
  <2> QED
    BY <1>3, <2>2, FinishEndsReplay DEF ResumeReplay
<1>4. CASE ResumeReplay(c, t) /\ ~Replayable(c, t)
  BY <1>1, <1>4 DEF ResumeReplay, ReplaysEnd, Stranded
<1> QED
  BY <1>2, <1>3, <1>4

(* Only the failure of a query may leave a stream that buffers for ever. *)
LEMMA ReplaysKeepEnding ==
    ASSUME StreamInv, ReplaysEnd, [Next]_vars, budget'.faults = budget.faults
    PROVE  ReplaysEnd'
<1>1. /\ stream \in [Client -> StreamType(last)] /\ tasks \in [Client -> SUBSET TaskType(last)]
      /\ budget \in [drops : Nat, faults : Nat, breaks : Nat]
  BY DEF StreamInv, ClientsTyped, BrokerTyped
<1>2. ~Spend("faults")
  BY <1>1 DEF Spend
<1>3. CASE UNCHANGED <<stream, tasks>>
  BY <1>3 DEF ReplaysEnd, Stranded
<1>4. ASSUME NEW starter, Recover(starter) PROVE ReplaysEnd'
  BY <1>1, <1>4 DEF Recover, OpenClients, ReplaysEnd, Stranded
<1>5. CASE Restart
  BY <1>5 DEF Restart, ClosedStream, ReplaysEnd, Stranded
<1>6. CASE ResumeDrain
  BY <1>1, <1>6, DispatchKeepsReplays DEF ResumeDrain, ReplaysEnd, Stranded
<1>7. CASE (\E e \in Event : Publish(e)) \/ Expire \/ TimerFires \/ UNCHANGED vars
           \/ AnswerDrain \/ RepairEnds
  BY <1>3, <1>7 DEF Publish, Expire, TimerFires, vars, clientVars, AnswerDrain, RepairEnds
<1>8. CASE \E g \in Connection : BrokerStep(g) \/ DialOrReadFails(g) \/ SocketDrops(g)
  BY <1>3, <1>4, <1>8 DEF BrokerStep, Listens, AnswerWatermark, BecomeReady, ConnectReturns,
        Notified, DialOrReadFails, SocketDrops, clientVars
<1>9. CASE DrainThrows
  BY <1>4, <1>9 DEF DrainThrows
<1>10. CASE \E c \in Client : TaskStep(c)
  <2>0. PICK c \in Client : TaskStep(c)
    BY <1>10
  <2>1. PICK t \in tasks[c] : AnswerTask(c, t) \/ ResumeReplay(c, t) \/ ResumeFullSync(c, t)
    BY <2>0 DEF TaskStep
  <2>2. CASE AnswerTask(c, t)
    BY <1>1, <2>2 DEF AnswerTask, ReplaysEnd, Stranded
  <2> QED
    BY <2>1, <2>2, ResumeEndsReplay
<1>11. ASSUME NEW c \in Client, NEW t \in tasks[c], TaskFails(c, t) \/ FinishFails(c, t)
       PROVE  FALSE
  BY <1>2, <1>11 DEF TaskFails, FinishFails
<1>12. CASE \E c \in Client : Connect(c) \/ Refuse(c) \/ Reopen(c) \/ LinkBreaks(c)
                               \/ ServerNotices(c)
  <2>1. PICK c \in Client : Connect(c) \/ Refuse(c) \/ Reopen(c) \/ LinkBreaks(c)
                            \/ ServerNotices(c)
    BY <1>12
  <2>2. CASE Connect(c)
    BY <1>1, <2>2 DEF Connect, ReplaysEnd, Stranded
  <2>3. CASE ServerNotices(c)
    BY <1>1, <2>3 DEF ServerNotices, Close, ClosedStream, ReplaysEnd, Stranded
  <2> QED
    BY <1>3, <2>1, <2>2, <2>3 DEF Refuse, Reopen, LinkBreaks
<1>13. CASE ProcessRestarts
  BY <1>5, <1>13 DEF ProcessRestarts
<1> QED
  BY <1>6, <1>7, <1>8, <1>9, <1>10, <1>11, <1>12, <1>13 DEF Next

LEMMA FaultsOnlyCountDown ==
    ASSUME StreamInv, [Next]_vars
    PROVE  budget'.faults <= budget.faults
<1>1. budget \in [drops : Nat, faults : Nat, breaks : Nat]
  BY DEF StreamInv, BrokerTyped
<1>2. budget' = budget \/ \E what \in {"drops", "faults", "breaks"} : Spend(what)
  BY DEF Next, vars, Publish, Expire, BrokerStep, Listens, AnswerWatermark, BecomeReady,
         ConnectReturns, Notified, DialOrReadFails, SocketDrops, TimerFires, AnswerDrain,
         ResumeDrain, DrainThrows, RepairEnds, TaskStep, AnswerTask, ResumeReplay,
         ResumeFullSync, TaskFails, FinishFails, Connect, Refuse, Reopen, LinkBreaks,
         ServerNotices, ProcessRestarts
<1> QED
  BY <1>1, <1>2 DEF Spend

(* Until the query of a call fails, every stream is either sent what the   *)
(* drain goes past or has a call at work that will end its replay,         *)
(* whatever drops, restarts, breaks, expires or crosses.                   *)
THEOREM StreamsStayServed == Spec => [](budget.faults = MaxFaults => StreamsAreServed)
<1> DEFINE Unfailed == /\ budget.faults <= MaxFaults
                       /\ budget.faults = MaxFaults => ReplaysEnd
<1>1. Init => Unfailed
  BY BoundsAssumption DEF Init, ReplaysEnd, Stranded, ClosedStream
<1>2. StreamInv /\ StreamInv' /\ Unfailed /\ [Next]_vars => Unfailed'
  <2> SUFFICES ASSUME StreamInv, StreamInv', Unfailed, [Next]_vars PROVE Unfailed'
    OBVIOUS
  <2>1. {budget.faults, budget'.faults, MaxFaults} \subseteq Nat
    BY BoundsAssumption DEF StreamInv, BrokerTyped
  <2> QED
    BY <2>1, FaultsOnlyCountDown, ReplaysKeepEnding
<1>3. Unfailed /\ LiveClientsAreCurrent => (budget.faults = MaxFaults => StreamsAreServed)
  BY DEF StreamsAreServed
<1> QED
  BY <1>1, <1>2, <1>3, StreamInvHolds, LiveStreamsAreCurrent, PTL DEF Spec

-----------------------------------------------------------------------------
(* The log the streams read, and the cursors that move along it.           *)

(* Whatever the broker and the streams do, the log is the one EventOutbox   *)
(* promises: all that is proved here of readers holds of that log.         *)
THEOREM StreamsReadTheLog == Spec => LogSpec
<1>1. Init => LogInit
  BY DEF Init
<1>2. [Next]_vars => [LogNext]_logVars
  <2> SUFFICES ASSUME [Next]_vars PROVE [LogNext]_logVars
    OBVIOUS
  <2>1. CASE UNCHANGED logVars
    BY <2>1
  <2>2. CASE \E e \in Event : Publish(e)
    BY <2>2 DEF Publish, LogNext
  <2>3. CASE Expire
    BY <2>3 DEF Expire, LogNext
  <2> QED
    BY <2>1, <2>2, <2>3
       DEF Next, vars, BrokerStep, Listens, AnswerWatermark, BecomeReady, ConnectReturns,
           Notified, DialOrReadFails, SocketDrops, TimerFires, AnswerDrain, ResumeDrain,
           DrainThrows, RepairEnds, TaskStep, AnswerTask, ResumeReplay, ResumeFullSync,
           TaskFails, FinishFails, Connect, Refuse, Reopen, LinkBreaks, ServerNotices,
           ProcessRestarts
<1> QED
  BY <1>1, <1>2, PTL DEF Spec, LogSpec

MovesOn(c) == Past(browser[c].cursor) <= Past(browser'[c].cursor)

(* A browser that keeps step with its stream moves on with it.             *)
LEMMA InStepMovesOn ==
    ASSUME NEW N \in Nat, NEW v \in ViewType(N), NEW r \in ViewType(N),
           InStep(v), InStep(r), Past(v.s.last) <= Past(r.s.last),
           r.b.link = v.b.link, v.b.link # "up" => r.b = v.b
    PROVE  Past(v.b.cursor) <= Past(r.b.cursor)
<1>1. Past(v.b.cursor) \in 0..N
  BY PastCursor DEF ViewType, BrowserType
<1>2. CASE v.b.link = "up"
  BY <1>2 DEF InStep
<1>3. CASE v.b.link # "up"
  BY <1>1, <1>3
<1> QED
  BY <1>2, <1>3

(* What a stream is sent moves its browser on.                             *)
LEMMA SentMovesOn ==
    ASSUME NEW N \in Nat, NEW v \in ViewType(N), NEW places \in SUBSET (0..N), InStep(v)
    PROVE  /\ Sent(v, places) \in ViewType(N) /\ InStep(Sent(v, places))
           /\ Past(v.b.cursor) <= Past(Sent(v, places).b.cursor)
<1> DEFINE r == Sent(v, places)
<1>1. Unbroken(v, {}, places)
  BY DEF Unbroken, NoGap
<1>2. r \in ViewType(N) /\ Advanced(v, places, r) /\ InStep(r)
  BY <1>1, SentFacts
<1> HIDE DEF r
<1>3. Past(v.b.cursor) <= Past(r.b.cursor)
  BY <1>2, InStepMovesOn DEF Advanced
<1> QED
  BY <1>2, <1>3 DEF r

LEMMA ViewsInStep ==
    ASSUME StreamInv, NEW c \in Client \ crossed, stream[c].open
    PROVE  View(c) \in ViewType(last) /\ last \in Nat /\ InStep(View(c))
<1>1. View(c) \in ViewType(last) /\ last \in Nat
  BY ViewsTyped DEF StreamInv
<1>2. View(c).s = stream[c]
  BY DEF View
<1> QED
  BY <1>1, <1>2 DEF StreamInv, ClientServed, Served

LEMMA DispatchMovesOn ==
    ASSUME StreamInv, ResumeDrain, NEW c \in Client \ crossed
    PROVE  MovesOn(c)
<1>1. browser'[c] = DispatchTo(c, DrainRows).b /\ View(c).b = browser[c]
  BY DEF ResumeDrain, View
<1>2. CASE stream[c].open /\ ~stream[c].replaying
  <2> DEFINE mine == {n \in DrainRows : For(c, n)}
  <2>1. mine \in SUBSET (0..last)
    BY DEF DrainRows, StreamInv, LogInv, BrokerTyped, DrainType
  <2>2. browser'[c] = Sent(View(c), mine).b
    BY <1>1, <1>2 DEF DispatchTo
  <2> HIDE DEF mine
  <2> QED
    BY <1>1, <1>2, <2>1, <2>2, ViewsInStep, SentMovesOn DEF MovesOn
<1>3. CASE ~(stream[c].open /\ ~stream[c].replaying)
  <2>1. browser'[c] = browser[c]
    BY <1>1, <1>3 DEF DispatchTo, View
  <2>2. Past(browser[c].cursor) \in 0..last
    BY PastCursor DEF StreamInv, LogInv, ClientsTyped, BrowserType
  <2> QED
    BY <2>1, <2>2 DEF MovesOn
<1> QED
  BY <1>2, <1>3

LEMMA FinishMovesOn ==
    ASSUME StreamInv, NEW c \in Client, NEW t, NEW v \in ViewType(last), FinishReplay(c, t, v),
           InStep(v), Past(browser[c].cursor) <= Past(v.b.cursor)
    PROVE  \A d \in Client : MovesOn(d)
<1>1. /\ browser \in [Client -> BrowserType(last)] /\ last \in Nat
      /\ v.s.pending \in SUBSET (0..last) /\ Past(v.b.cursor) \in 0..last
      /\ \A d \in Client : Past(browser[d].cursor) \in 0..last
  BY PastCursor DEF StreamInv, LogInv, ClientsTyped, ViewType, StreamType, BrowserType
<1> DEFINE f == Sent(v, v.s.pending)
<1>2. f \in ViewType(last) /\ Past(v.b.cursor) <= Past(f.b.cursor)
  BY <1>1, SentMovesOn
<1>3. browser' = [browser EXCEPT ![c] = v.b] \/ browser' = [browser EXCEPT ![c] = f.b]
  BY DEF FinishReplay
<1> HIDE DEF f
<1>4. Past(f.b.cursor) \in 0..last
  BY <1>1, <1>2, PastCursor DEF ViewType, BrowserType
<1>5. MovesOn(c)
  BY <1>1, <1>2, <1>3, <1>4 DEF MovesOn
<1>6. ASSUME NEW d \in Client, d # c PROVE MovesOn(d)
  BY <1>1, <1>3, <1>6 DEF MovesOn
<1> QED
  BY <1>5, <1>6

(* A call answers with a place its stream has not gone past.               *)
LEMMA ResumeMovesOn ==
    ASSUME StreamInv, NEW c \in Client \ crossed, NEW t \in tasks[c],
           ResumeReplay(c, t) \/ ResumeFullSync(c, t)
    PROVE  \A d \in Client : MovesOn(d)
<1>1. /\ View(c) \in ViewType(last) /\ View(c).s = stream[c] /\ View(c).b = browser[c]
      /\ t \in TaskType(last) /\ last \in Nat /\ Mine(c) \in SUBSET (1..last)
  BY ViewsTyped DEF StreamInv
<1>2. /\ stream[c].open /\ InStep(View(c)) /\ t.answered
      /\ Past(View(c).s.last) <= t.max
  <2>1. Served(View(c), tasks[c], Mine(c), Behind) /\ t.answered
    BY DEF StreamInv, ClientServed, ResumeReplay, ResumeFullSync
  <2> QED
    BY <1>1, <2>1 DEF Served, Covers
<1>3. CASE ResumeFullSync(c, t)
  <2> DEFINE v == Synced(View(c), t.max)
  <2>1. t.max \in 0..last /\ NoGap(View(c), {})
    BY <1>1 DEF TaskType, NoGap
  <2>2. v \in ViewType(last) /\ Framed(View(c), t.max, 1..t.max, v) /\ InStep(v) /\ Past(t.max) = t.max
    BY <1>1, <2>1, SyncedFacts
  <2>3. FinishReplay(c, t, v)
    BY <1>3 DEF ResumeFullSync
  <2> HIDE DEF v
  <2>4. Past(View(c).b.cursor) <= Past(v.b.cursor)
    BY <1>1, <1>2, <2>2, InStepMovesOn DEF Framed
  <2> QED
    BY <1>1, <2>2, <2>3, <2>4, FinishMovesOn
<1>4. CASE ResumeReplay(c, t) /\ Replayable(c, t)
  <2> DEFINE v == Sent(View(c), Replayed(c, t))
  <2>1. Replayed(c, t) \in SUBSET (0..last)
    <3>1. t.after \in 0..last /\ t.max \in 0..last
      BY <1>1, <1>4 DEF ResumeReplay, TaskType, CursorType, StreamInv, ClientsTyped
    <3> QED
      BY <1>1, <3>1 DEF Replayed
  <2>2. v \in ViewType(last) /\ InStep(v) /\ Past(View(c).b.cursor) <= Past(v.b.cursor)
    BY <1>1, <1>2, <2>1, SentMovesOn
  <2>3. FinishReplay(c, t, v)
    BY <1>4 DEF ResumeReplay
  <2> HIDE DEF v
  <2> QED
    BY <1>1, <2>2, <2>3, FinishMovesOn
<1>5. CASE ResumeReplay(c, t) /\ ~Replayable(c, t)
  <2>1. browser' = browser
    BY <1>5 DEF ResumeReplay
  <2>2. \A d \in Client : Past(browser[d].cursor) \in 0..last
    BY <1>1, PastCursor DEF StreamInv, ClientsTyped, BrowserType
  <2> QED
    BY <2>1, <2>2 DEF MovesOn
<1> QED
  BY <1>3, <1>4, <1>5

(* A browser's cursor only moves on, through drains, replays, full syncs,   *)
(* reconnections and restarts, unless two recoveries of its stream crossed.*)
THEOREM CursorsNeverMoveBack == Spec => CursorsOnlyAdvance
<1>1. ASSUME StreamInv, Next, NEW c \in Client \ crossed', browser[c].link # "stopped"
      PROVE  MovesOn(c)
  <2>0. browser \in [Client -> BrowserType(last)] /\ Past(browser[c].cursor) \in 0..last
    BY <1>1, PastCursor DEF StreamInv, LogInv, ClientsTyped, BrowserType
  <2>1. ASSUME browser'[c].cursor = browser[c].cursor PROVE MovesOn(c)
    BY <2>0, <2>1 DEF MovesOn
  <2>2. CASE ResumeDrain
    <3>1. crossed' = crossed
      BY <2>2 DEF ResumeDrain
    <3> QED
      BY <1>1, <2>2, <3>1, DispatchMovesOn
  <2>3. CASE \E d \in Client : TaskStep(d)
    <3>1. PICK d \in Client : TaskStep(d)
      BY <2>3
    <3>2. PICK t \in tasks[d] : AnswerTask(d, t) \/ ResumeReplay(d, t) \/ ResumeFullSync(d, t)
      BY <3>1 DEF TaskStep
    <3>3. CASE AnswerTask(d, t)
      BY <2>1, <3>3 DEF AnswerTask
    <3>4. CASE d = c /\ (ResumeReplay(d, t) \/ ResumeFullSync(d, t))
      <4>1. crossed' = crossed
        BY <3>4 DEF ResumeReplay, ResumeFullSync
      <4> QED
        BY <1>1, <3>4, <4>1, ResumeMovesOn
    <3>5. CASE d # c /\ (ResumeReplay(d, t) \/ ResumeFullSync(d, t))
      <4>1. browser'[c] = browser[c]
        BY <2>0, <3>5 DEF ResumeReplay, ResumeFullSync, FinishReplay
      <4> QED
        BY <2>1, <4>1
    <3> QED
      BY <3>2, <3>3, <3>4, <3>5
  <2>4. CASE \E d \in Client : Connect(d) \/ Refuse(d) \/ Reopen(d) \/ LinkBreaks(d)
                                \/ ServerNotices(d)
    <3>1. PICK d \in Client : Connect(d) \/ Refuse(d) \/ Reopen(d) \/ LinkBreaks(d)
                              \/ ServerNotices(d)
      BY <2>4
    <3>2. browser'[c].cursor = browser[c].cursor
      BY <1>1, <2>0, <3>1 DEF Connect, Refuse, Reopen, LinkBreaks, ServerNotices, BrowserType
    <3> QED
      BY <2>1, <3>2
  <2>5. CASE browser' = browser
    BY <2>1, <2>5
  <2> QED
    BY <1>1, <2>2, <2>3, <2>4, <2>5
       DEF Next, Publish, Expire, BrokerStep, Listens, AnswerWatermark, BecomeReady, Recover,
           ConnectReturns, Notified, DialOrReadFails, SocketDrops, TimerFires, AnswerDrain,
           DrainThrows, RepairEnds, TaskFails, FinishFails, ProcessRestarts, clientVars
<1>2. StreamInv /\ [Next]_vars =>
        [\A c \in Client \ crossed' :
            browser[c].link # "stopped" => Past(browser[c].cursor) <= Past(browser'[c].cursor)]_vars
  BY <1>1 DEF MovesOn
<1> QED
  BY <1>2, StreamInvHolds, PTL DEF Spec, CursorsOnlyAdvance

-----------------------------------------------------------------------------
(* No wake-up is lost.                                                     *)

(* What is on its way to every stream. *)
Coming(n) ==
    \/ ready /\ broker \in wakes
    \/ drain.phase = "sent" \/ drain.requested
    \/ drain.phase = "answered" /\ (n <= drain.max \/ DrainIsStale)
    \/ BrokerIsComing

LEMMA ComingStays ==
    ASSUME StreamInv, [Next]_vars, NEW n \in 1..last, Coming(n)
    PROVE  \/ Coming(n)' \/ ResumeDrain \/ Restart
           \/ \E starter \in Starter : Recover(starter)
<1>0. /\ conn \in [Connection -> ConnType(last)] /\ drain \in DrainType(last) /\ last \in Nat
  BY DEF StreamInv, BrokerTyped, LogInv
<1>1. CASE UNCHANGED <<brokerVars, watermark, drain>>
  <2>1. UNCHANGED <<conn, broker, ready, timer, wakes>>
    BY <1>1 DEF brokerVars
  <2>2. DrainIsStale' = DrainIsStale
    BY <1>1 DEF DrainIsStale, DrainRows
  <2>3. BrokerIsComing' = BrokerIsComing
    BY <2>1 DEF BrokerIsComing
  <2> QED
    BY <1>1, <2>1, <2>2, <2>3 DEF Coming
<1>2. CASE timer'
  BY <1>2 DEF Coming, BrokerIsComing
<1>3. CASE \E e \in Event : Publish(e)
  <2>1. /\ UNCHANGED <<conn, broker, ready, timer, watermark, drain>> /\ wakes \subseteq wakes'
    BY <1>3 DEF Publish
  <2>2. DrainIsStale' = DrainIsStale
    BY <2>1 DEF DrainIsStale, DrainRows
  <2> QED
    BY <2>1, <2>2 DEF Coming, BrokerIsComing
<1>4. CASE \E g \in Connection : BrokerStep(g) \/ DialOrReadFails(g) \/ SocketDrops(g)
  <2>1. PICK g \in Connection : BrokerStep(g) \/ DialOrReadFails(g) \/ SocketDrops(g)
    BY <1>4
  <2>2. CASE Listens(g)
    <3>1. conn'[g].call = "reading"
      BY <1>0, <2>2 DEF Listens, ConnType
    <3> QED
      BY <3>1 DEF Coming, BrokerIsComing
  <2>3. CASE AnswerWatermark(g)
    <3>1. conn'[g].call = "read"
      BY <1>0, <2>3 DEF AnswerWatermark, ConnType
    <3> QED
      BY <3>1 DEF Coming, BrokerIsComing
  <2>4. CASE BecomeReady(g)
    BY <2>4 DEF BecomeReady, Starter
  <2>5. CASE ConnectReturns(g)
    <3>1. /\ UNCHANGED <<broker, ready, timer, watermark, wakes, drain>>
          /\ conn[g].call = "recovering" /\ \A h \in Connection \ {g} : conn'[h] = conn[h]
      BY <1>0, <2>5 DEF ConnectReturns
    <3>2. DrainIsStale' = DrainIsStale
      BY <3>1 DEF DrainIsStale, DrainRows
    <3>3. BrokerIsComing => BrokerIsComing'
      BY <3>1 DEF BrokerIsComing
    <3> QED
      BY <3>1, <3>2, <3>3 DEF Coming
  <2>6. CASE Notified(g)
    <3>1. UNCHANGED <<conn, broker, ready, timer, watermark>>
      BY <2>6 DEF Notified
    <3>2. CASE ready
      <4>1. drain'.phase = "sent" \/ drain'.requested
        BY <1>0, <2>6, <3>2 DEF Notified, SendDrain, DrainType
      <4> QED
        BY <4>1 DEF Coming
    <3>3. CASE ~ready
      BY <3>1, <3>3 DEF StreamInv, BrokerInv, Coming, BrokerIsComing
    <3> QED
      BY <3>2, <3>3
  <2>7. CASE DialOrReadFails(g)
    BY <1>2, <2>7 DEF DialOrReadFails, ConnectFails
  <2>8. CASE SocketDrops(g) /\ broker = g
    BY <1>2, <2>8 DEF SocketDrops
  <2>9. CASE SocketDrops(g) /\ broker # g
    <3>1. /\ UNCHANGED <<broker, ready, timer, watermark, drain>> /\ wakes' = wakes \ {g}
          /\ \A h \in Connection : conn'[h].call = conn[h].call
      BY <1>0, <2>9 DEF SocketDrops, ConnType
    <3>2. DrainIsStale' = DrainIsStale
      BY <3>1 DEF DrainIsStale, DrainRows
    <3>3. BrokerIsComing' = BrokerIsComing
      BY <3>1 DEF BrokerIsComing
    <3> QED
      BY <2>9, <3>1, <3>2, <3>3 DEF Coming
  <2> QED
    BY <2>1, <2>2, <2>3, <2>4, <2>5, <2>6, <2>7, <2>8, <2>9 DEF BrokerStep
<1>5. CASE TimerFires
  <2>1. PICK g \in Connection : conn' = [conn EXCEPT ![g] = [@ EXCEPT !.call = "dialing"]]
    BY <1>5 DEF TimerFires
  <2>2. conn'[g].call = "dialing"
    BY <1>0, <2>1 DEF ConnType
  <2> QED
    BY <2>2 DEF Coming, BrokerIsComing
<1>6. CASE AnswerDrain
  <2>1. drain'.phase = "answered" /\ drain'.max = last
    BY <1>0, <1>6 DEF AnswerDrain, DrainType
  <2> QED
    BY <1>0, <2>1 DEF Coming
<1>7. CASE RepairEnds
  <2>1. /\ UNCHANGED <<conn, broker, ready, timer, wakes>> /\ drain.phase = "repairing"
        /\ drain' = NextDrain(watermark)
    BY <1>7 DEF RepairEnds, brokerVars
  <2>2. drain.requested => drain'.phase = "sent"
    BY <2>1 DEF NextDrain, SendDrain
  <2> QED
    BY <2>1, <2>2 DEF Coming, BrokerIsComing
<1>8. CASE DrainThrows
  BY <1>8 DEF DrainThrows, Starter
<1>9. CASE Expire \/ UNCHANGED vars
  BY <1>1, <1>9 DEF Expire, vars
<1>10. CASE \E c \in Client : TaskStep(c)
  BY <1>1, <1>10 DEF TaskStep, AnswerTask, ResumeReplay, ResumeFullSync
<1>11. CASE \E c \in Client : \E t \in tasks[c] : TaskFails(c, t)
  BY <1>1, <1>11 DEF TaskFails
<1>12. CASE \E c \in Client : \E t \in tasks[c] : FinishFails(c, t)
  <2>1. PICK c \in Client : \E t \in tasks[c] : FinishFails(c, t)
    BY <1>12
  <2>2. PICK t \in tasks[c] : FinishFails(c, t)
    BY <2>1
  <2>3. Restart \/ timer' \/ UNCHANGED <<brokerVars, watermark, drain>>
    BY <2>2 DEF FinishFails, ConnectFails
  <2> QED
    BY <1>1, <1>2, <2>3
<1>13. CASE \E c \in Client : Connect(c) \/ Refuse(c) \/ Reopen(c) \/ LinkBreaks(c) \/ ServerNotices(c)
  BY <1>1, <1>13 DEF Connect, Refuse, Reopen, LinkBreaks, ServerNotices
<1>14. CASE ProcessRestarts
  BY <1>14 DEF ProcessRestarts
<1> QED
  BY <1>3, <1>4, <1>5, <1>6, <1>7, <1>8, <1>9, <1>10, <1>11, <1>12, <1>13, <1>14 DEF Next

LEMMA PublishComes ==
    ASSUME StreamInv, NEW e \in Event, Publish(e), NEW n
    PROVE  Coming(n)'
<1>1. /\ UNCHANGED <<conn, broker, ready, timer>>
      /\ wakes' = wakes \union {g \in Connection : conn[g].up}
  BY DEF Publish
<1>2. CASE ready /\ broker # 0
  <2>1. broker \in Connection /\ conn[broker].up
    BY <1>2 DEF StreamInv, BrokerTyped, BrokerInv
  <2> QED
    BY <1>1, <1>2, <2>1 DEF Coming
<1>3. CASE broker = 0
  BY <1>1, <1>3 DEF StreamInv, BrokerInv, BrokerIsComing, Coming
<1>4. CASE ~ready
  BY <1>1, <1>4 DEF StreamInv, BrokerInv, BrokerIsComing, Coming
<1> QED
  BY <1>2, <1>3, <1>4

(* What a stream lacks is on its way. *)
ToCome(c, n) ==
    \/ n \in stream[c].pending \/ stream[c].overflow
    \/ \E t \in tasks[c] : ~t.answered \/ n <= t.max
    \/ Coming(n)

AllToCome(c) ==
    stream[c].open /\ ~Stranded(c) => \A n \in Mine(c) : n > Past(stream[c].last) => ToCome(c, n)

(* A stream the drain brings rows to. *)
LEMMA DispatchCarries ==
    ASSUME StreamInv, NEW c \in Client, stream[c].open, NEW v, v = DispatchTo(c, DrainRows)
    PROVE  /\ v.s.open /\ v.s.replaying = stream[c].replaying
           /\ Past(stream[c].last) \in Nat /\ Past(v.s.last) \in Nat
           /\ Past(stream[c].last) <= Past(v.s.last)
           /\ stream[c].overflow => v.s.overflow
           /\ \A n \in stream[c].pending : n \in v.s.pending \/ v.s.overflow
           /\ \A n \in Mine(c) : n \in DrainRows =>
                n <= Past(v.s.last) \/ n \in v.s.pending \/ v.s.overflow
<1> DEFINE rows == {n \in DrainRows : For(c, n)}
<1>1. /\ View(c) \in ViewType(last) /\ View(c).s = stream[c] /\ View(c).b = browser[c]
      /\ stream[c] \in StreamType(last) /\ last \in Nat
      /\ Cardinality(stream[c].pending) <= ReplayLimit
      /\ stream[c].overflow => stream[c].pending = {}
  BY ViewsTyped DEF StreamInv, ClientsTyped
<1>2. Past(stream[c].last) \in 0..last
  BY <1>1, PastCursor DEF StreamType
<1>3. rows \in SUBSET (0..last) /\ \A n \in Mine(c) : n \in DrainRows => n \in rows
  <2>1. drain.from \in 0..last /\ drain.max \in 0..last
    BY DrainFacts DEF StreamInv
  <2>2. DrainRows \in SUBSET (0..last)
    BY <1>1, <2>1 DEF DrainRows
  <2> QED
    BY <2>2 DEF Mine
<1> HIDE DEF rows
<1>4. CASE stream[c].replaying
  <2> DEFINE s == Buffered(stream[c], rows)
  <2>1. v = [s |-> s, b |-> browser[c]]
    BY <1>4 DEF DispatchTo, rows
  <2>2. s \in StreamType(last) /\ Kept(stream[c], rows, s)
    BY <1>1, <1>3, BufferedFacts
  <2> HIDE DEF s
  <2>3. /\ v.s = s /\ s.open /\ s.replaying = stream[c].replaying /\ s.last = stream[c].last
        /\ ~s.overflow => /\ ~stream[c].overflow
                          /\ s.pending = stream[c].pending \union
                                           {n \in rows : n > Past(stream[c].last)}
    BY <2>1, <2>2 DEF Kept
  <2>4. ASSUME NEW n \in Mine(c), n \in DrainRows
        PROVE  n <= Past(s.last) \/ n \in s.pending \/ s.overflow
    <3>1. n \in rows /\ n \in 0..last
      BY <1>3, <2>4
    <3> QED
      BY <1>2, <2>3, <3>1
  <2> QED
    BY <1>2, <2>3, <2>4
<1>5. CASE ~stream[c].replaying
  <2>1. v = Sent(View(c), rows)
    BY <1>5 DEF DispatchTo, rows
  <2>2. v \in ViewType(last) /\ Advanced(View(c), rows, v)
    BY <1>1, <1>3, <2>1, SentFacts
  <2>3. /\ v.s.open /\ v.s.replaying = stream[c].replaying /\ v.s.overflow = stream[c].overflow
        /\ v.s.pending = stream[c].pending
    BY <1>1, <2>2 DEF Advanced, ViewType, StreamType
  <2>4. Past(v.s.last) \in 0..last
    BY <1>1, <2>2, PastCursor DEF ViewType, StreamType
  <2> QED
    BY <1>1, <1>2, <1>3, <2>2, <2>3, <2>4 DEF Advanced
<1> QED
  BY <1>4, <1>5

LEMMA DispatchForgetsNothing ==
    ASSUME StreamInv, ResumeDrain, NEW c \in Client \ crossed, AllToCome(c),
           last' = last, Mine(c)' = Mine(c)
    PROVE  AllToCome(c)'
<1> SUFFICES ASSUME stream'[c].open, ~Stranded(c)', NEW n \in Mine(c), n > Past(stream'[c].last)
             PROVE  ToCome(c, n)'
  BY DEF AllToCome
<1> DEFINE v == DispatchTo(c, DrainRows)
<1>1. /\ stream'[c] = v.s /\ tasks'[c] = tasks[c] /\ UNCHANGED brokerVars
      /\ drain.phase = "answered" /\ ~DrainIsStale
  BY DEF ResumeDrain
<1>2. stream[c].open
  BY <1>1 DEF DispatchTo, View
<1> HIDE DEF v
<1>3. /\ v.s.open /\ v.s.replaying = stream[c].replaying
      /\ Past(stream[c].last) \in Nat /\ Past(v.s.last) \in Nat
      /\ Past(stream[c].last) <= Past(v.s.last)
      /\ stream[c].overflow => v.s.overflow
      /\ \A m \in stream[c].pending : m \in v.s.pending \/ v.s.overflow
      /\ n \in DrainRows => n <= Past(v.s.last) \/ n \in v.s.pending \/ v.s.overflow
  BY <1>2, DispatchCarries DEF v
<1>4. /\ last \in Nat /\ n \in 1..last /\ drain.max \in 0..last /\ drain.from \in 0..last
      /\ ReadTo \in 0..drain.max
      /\ n \in DrainRows <=> drain.from < n /\ n <= ReadTo
  <2>1. n \in 1..last
    BY DEF Mine
  <2> QED
    BY <2>1, DrainFacts, DrainReads DEF StreamInv, LogInv
<1>5. ~Stranded(c) /\ n > Past(stream[c].last)
  BY <1>1, <1>3, <1>4 DEF Stranded
<1>6. ToCome(c, n) /\ Served(View(c), tasks[c], Mine(c), Behind) /\ View(c).s = stream[c]
  BY <1>2, <1>5 DEF AllToCome, StreamInv, ClientServed, View
<1>7. CASE drain'.phase = "sent"
  BY <1>7 DEF ToCome, Coming
<1>8. CASE drain'.phase # "sent"
  <2>1. ReadTo = drain.max /\ ~drain.requested
    <3>1. drain' = IF ReadTo < drain.max THEN SendDrain(drain.requested, ReadTo) ELSE NextDrain(ReadTo)
      BY DEF ResumeDrain, ReadTo
    <3>2. ~(ReadTo < drain.max) /\ ~drain.requested
      BY <1>8, <3>1 DEF SendDrain, NextDrain
    <3> QED
      BY <1>4, <3>2
  <2>2. CASE n > drain.max
    <3>1. Coming(n) => Coming(n)'
      <4>1. UNCHANGED <<conn, broker, ready, timer, wakes>>
        BY <1>1 DEF brokerVars
      <4>2. Coming(n) => (ready /\ broker \in wakes) \/ BrokerIsComing
        BY <1>1, <1>4, <2>1, <2>2 DEF Coming
      <4> QED
        BY <4>1, <4>2 DEF Coming, BrokerIsComing
    <3> QED
      BY <1>1, <1>3, <1>6, <3>1 DEF ToCome
  <2>3. CASE n <= drain.max /\ n \in DrainRows
    <3>1. n \in v.s.pending \/ v.s.overflow
      BY <1>1, <1>3, <1>4, <2>3
    <3> QED
      BY <1>1, <3>1 DEF ToCome
  <2>4. CASE n <= drain.max /\ n \notin DrainRows
    <3>1. n \in Mine(c) \cap Behind
      BY <1>4, <2>1, <2>4 DEF Behind
    <3>2. stream[c].replaying /\ tasks[c] # {}
      <4>1. ~(n <= Past(stream[c].last))
        BY <1>3, <1>4, <1>5
      <4> QED
        BY <1>2, <1>5, <1>6, <3>1, <4>1 DEF Served, Stranded
    <3>3. PICK t \in tasks[c] : TRUE
      BY <3>2
    <3>4. t.answered => stream[c].overflow \/ n <= t.max \/ n \in stream[c].pending
      BY <1>6, <3>1 DEF Served, Covers
    <3> QED
      BY <1>1, <1>3, <3>4 DEF ToCome
  <2> QED
    BY <1>4, <2>2, <2>3, <2>4
<1> QED
  BY <1>7, <1>8

(* An event that a stream lacks is buffered, about to be replayed or        *)
(* drained, or a notification or a new broker is on its way.               *)
THEOREM NothingIsEverForgotten == Spec => []NothingIsForgotten
<1>1. Init => NothingIsForgotten
  <2> SUFFICES ASSUME Init PROVE NothingIsForgotten
    OBVIOUS
  <2> QED
    BY DEF Init, NothingIsForgotten, OpenClients, ClosedStream
<1>2. StreamInv /\ NothingIsForgotten /\ [Next]_vars /\ StreamInv' => NothingIsForgotten'
  <2> SUFFICES ASSUME StreamInv, \A c \in Client \ crossed : AllToCome(c), [Next]_vars, StreamInv',
                      NEW c \in Client \ crossed'
               PROVE  AllToCome(c)'
    <3> USE DEF NothingIsForgotten, AllToCome, ToCome, Coming, OnItsWay, OpenClients, Mine
    <3>1. NothingIsForgotten => \A c \in Client \ crossed : AllToCome(c)
      OBVIOUS
    <3>2. (\A c \in Client \ crossed' : AllToCome(c)') => NothingIsForgotten'
      OBVIOUS
    <3> QED
      BY <3>1, <3>2
  <2>1. crossed \subseteq crossed'
    <3>1. OneStream => crossed' = crossed
      BY DEF OneStream, StepOf, OneClient
    <3> QED
      BY <3>1, StepKinds DEF Quiet, clientVars, Recover, ResumeDrain
  <2>2. AllToCome(c) /\ c \in Client
    BY <2>1
  <2>3. Mine(c) \in SUBSET (1..last) /\ last \in Nat
    BY <2>2, ViewsTyped DEF StreamInv
  <2>4. CASE \E starter \in Starter : Recover(starter)
    <3>1. PICK starter \in Starter : Recover(starter)
      BY <2>4
    <3>2. stream'[c].open => stream[c].open
      BY <2>2, <3>1 DEF Recover, OpenClients
    <3>3. stream[c].open => Begin(starter, stream[c].last) \in tasks'[c]
      BY <2>2, <3>1 DEF Recover, OpenClients
    <3>4. ~Begin(starter, stream[c].last).answered
      BY DEF Begin, Query
    <3> QED
      BY <3>2, <3>3, <3>4 DEF AllToCome, ToCome
  <2>5. CASE Restart
    BY <2>2, <2>5 DEF Restart, AllToCome, ClosedStream
  <2>6. CASE ResumeDrain
    <3>1. c \in Client \ crossed
      BY <2>1
    <3>2. last' = last /\ Mine(c)' = Mine(c)
      BY <2>6 DEF ResumeDrain, logVars, Mine, For, EventAt
    <3> QED
      BY <2>2, <2>6, <3>1, <3>2, DispatchForgetsNothing
  <2>7. CASE ~Restart /\ ~ResumeDrain /\ ~\E starter \in Starter : Recover(starter)
    <3>1. ASSUME NEW n \in Mine(c), Coming(n) PROVE Coming(n)'
      BY <2>3, <2>7, <3>1, ComingStays
    <3>2. CASE stream'[c] = stream[c] /\ tasks'[c] = tasks[c]
      <4>1. Stranded(c)' = Stranded(c)
        BY <3>2 DEF Stranded
      <4>2. ASSUME NEW n \in Mine(c), ToCome(c, n) PROVE ToCome(c, n)'
        BY <3>1, <3>2, <4>2 DEF ToCome
      <4>3. CASE Mine(c)' = Mine(c)
        BY <2>2, <3>2, <4>1, <4>2, <4>3 DEF AllToCome
      <4>4. CASE \E e \in Event : Publish(e)
        <5>1. ASSUME NEW n PROVE Coming(n)'
          BY <4>4, PublishComes
        <5> QED
          BY <5>1 DEF AllToCome, ToCome
      <4> QED
        BY <2>2, <4>3, <4>4, LogSteps DEF StreamInv
    <3>3. CASE Quiet
      BY <3>2, <3>3 DEF Quiet, clientVars
    <3>4. CASE OneStream /\ ~Quiet
      <4>1. PICK d \in Client : StepOf(d)
        BY <3>4 DEF OneStream
      <4>2. PICK r, R : /\ OneClient(d, r, R) /\ WellTyped(r, R)
                        /\ d \notin crossed => Carried(d, r, R)
        BY <4>1 DEF StepOf
      <4>3. Mine(c)' = Mine(c) /\ last' = last
        BY <2>2, <3>4, LogStill
      <4>4. CASE d # c
        BY <2>2, <3>2, <4>2, <4>4 DEF OneClient
      <4>5. CASE d = c
        <5>1. stream'[c] = r.s /\ tasks'[c] = R /\ Carried(c, r, R)
          BY <2>1, <4>2, <4>5 DEF OneClient, StreamInv, ClientsTyped
        <5>2. CASE ~r.s.open \/ (r.s.replaying /\ R = {})
          BY <5>1, <5>2 DEF AllToCome, Stranded
        <5>3. CASE \E u \in R : ~u.answered \/ u.max = last
          <6>1. \A n \in Mine(c) : n <= last
            BY <2>3
          <6> QED
            BY <4>3, <5>1, <5>3, <6>1 DEF AllToCome, ToCome
        <5>4. CASE r.s = stream[c] /\ R = tasks[c]
          BY <3>2, <5>1, <5>4
        <5>5. CASE /\ tasks[c] # {}
                   /\ \A n \in Mine(c) : n > Past(r.s.last) =>
                        /\ n > Past(stream[c].last) /\ n \notin stream[c].pending
                        /\ ~stream[c].overflow /\ \A t \in tasks[c] : t.answered /\ n > t.max
          <6> SUFFICES ASSUME NEW n \in Mine(c), n > Past(r.s.last), r.s.open,
                              ~(r.s.replaying /\ R = {})
                       PROVE  Coming(n)'
            BY <4>3, <5>1 DEF AllToCome, ToCome, Stranded
          <6>1. stream[c].open /\ ~Stranded(c)
            <7>1. Served(View(c), tasks[c], Mine(c), Behind) /\ View(c).s = stream[c]
              BY <2>1 DEF StreamInv, ClientServed, View
            <7> QED
              BY <5>5, <7>1 DEF Served, Stranded
          <6>2. ToCome(c, n)
            BY <2>2, <5>5, <6>1 DEF AllToCome
          <6>3. Coming(n)
            <7>1. \A t \in tasks[c] : t.max \in 0..last
              BY <2>2, ViewsTyped DEF StreamInv, TaskType
            <7>2. ~\E t \in tasks[c] : ~t.answered \/ n <= t.max
              BY <2>3, <5>5, <7>1
            <7> QED
              BY <5>5, <6>2, <7>2 DEF ToCome
          <6> QED
            BY <3>1, <6>3
        <5> QED
          BY <5>1, <5>2, <5>3, <5>4, <5>5 DEF Carried
      <4> QED
        BY <4>4, <4>5
    <3> QED
      BY <2>7, <3>3, <3>4, StepKinds
  <2> QED
    BY <2>4, <2>5, <2>6, <2>7, StepKinds
<1> QED
  BY <1>1, <1>2, StreamInvHolds, PTL DEF Spec

=============================================================================
