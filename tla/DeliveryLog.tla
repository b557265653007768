---------------------------- MODULE DeliveryLog ----------------------------
(***************************************************************************)
(* What event publication promises every reader of the outbox: one log of  *)
(* events, appended to in whole batches and never edited, whose oldest     *)
(* entries may be trimmed.                                                 *)
(*                                                                         *)
(* EventOutbox implements this module; EventStream is built on top of it.  *)
(***************************************************************************)
EXTENDS Naturals

CONSTANT Event          \* the rows that may ever enter event_outbox

VARIABLES
    position,   \* place of each event in the log, 0 when it is not there
    last,       \* length of the log: event_delivery_cursor.last_sequence
    floor       \* entries up to here may be gone: .replay_floor

logVars == <<position, last, floor>>

LogTypeOK ==
    /\ position \in [Event -> Nat]
    /\ last \in Nat
    /\ floor \in Nat

(* The entry at place n of the log. *)
EventAt(n) == CHOOSE e \in Event : position[e] = n

LogInit ==
    /\ position = [e \in Event |-> 0]
    /\ last = 0
    /\ floor = 0

(* A batch takes the next places of the log, all at once. *)
AppendBatch(batch) ==
    /\ batch # {}
    /\ \A e \in batch : position[e] = 0
    /\ last' \in Nat /\ last' > last
    /\ \E place \in [batch -> (last + 1)..last'] :
         /\ \A d, e \in batch : place[d] = place[e] => d = e
         /\ \A n \in (last + 1)..last' : \E e \in batch : place[e] = n
         /\ position' = [e \in Event |-> IF e \in batch THEN place[e] ELSE position[e]]
    /\ UNCHANGED floor

(* Retention forgets a prefix of the log. *)
Trim ==
    /\ floor' \in (floor + 1)..last
    /\ UNCHANGED <<position, last>>

LogNext ==
    \/ \E batch \in SUBSET Event : AppendBatch(batch)
    \/ Trim

LogSpec == LogInit /\ [][LogNext]_logVars
=============================================================================
