----------------------------- MODULE PeerBatch -----------------------------
(***************************************************************************)
(* A batch of requests to many chats over one Telegram client:             *)
(* TelethonGateway.acknowledge_reads and snapshot_peer_tops, with          *)
(* _gather_peer_tasks and _disconnect_client.                              *)
(*                                                                         *)
(* A task per chat waits for one of a few slots, asks, and for a read mark *)
(* goes on to the topics of a forum within what is left of one deadline.   *)
(* A chat that fails fails alone.  Whatever ends the batch - its results,  *)
(* a cancellation, a future that the client cancelled itself - every task  *)
(* is joined before the client disconnects.                                *)
(***************************************************************************)
EXTENDS Naturals, FiniteSets

CONSTANTS
  Peers,           \* the chats of the batch
  Slots,           \* PEER_OPERATION_CONCURRENCY
  Patience,        \* PEER_OPERATION_TIMEOUT_S, in ticks
  MaxBatchCancels  \* bound: cancellations of the caller

ASSUME PeerBatchAssumption ==
  /\ IsFiniteSet(Peers) /\ Peers # {} /\ Slots \in Nat \ {0} /\ Patience \in Nat \ {0}
  /\ MaxBatchCancels \in Nat

VARIABLES
  batch,     \* the call: its kind, its place, its report, and whether a cancellation was heard
  unit,      \* the task of each chat
  left,      \* what is left of the deadline of each chat
  mark,      \* the read mark at Telegram: none, made, or made and answered
  clock,     \* time since the tasks were created
  pokes      \* cancellations delivered

batchVars == <<batch, unit, left, mark, clock, pokes>>

NoBatch == [kind |-> "none", at |-> "idle", report |-> "none", heard |-> FALSE]
Unfinished == {"queued", "asking", "topics"}
Running == {p \in Peers : unit[p] \in {"asking", "topics"}}
AllDone == \A p \in Peers : unit[p] \notin Unfinished
Waves == (Cardinality(Peers) + Slots - 1) \div Slots
SetUnit(p, u) == unit' = [unit EXCEPT ![p] = u]
Gathering == batch.at = "gathering"

-----------------------------------------------------------------------------
BeginBatch(kind) ==
  /\ batch = NoBatch
  /\ batch' = [NoBatch EXCEPT !.kind = kind, !.at = "connecting"]
  /\ UNCHANGED <<unit, left, mark, clock, pokes>>

ConnectBatch ==
  /\ batch.at = "connecting"
  /\ \/ /\ batch' = [batch EXCEPT !.at = "gathering"]
        /\ unit' = [p \in Peers |-> "queued"]
     \/ /\ batch' = [batch EXCEPT !.at = "disconnecting", !.report = "error"]
        /\ UNCHANGED unit
  /\ UNCHANGED <<left, mark, clock, pokes>>

Admits(p) == unit[p] = "queued" /\ Cardinality(Running) < Slots
AdmitPeer(p) ==
  /\ Gathering /\ Admits(p)
  /\ SetUnit(p, "asking") /\ left' = [left EXCEPT ![p] = Patience]
  /\ UNCHANGED <<batch, mark, clock, pokes>>

(* A request takes effect before its answer, and perhaps without one.      *)
MarkLands(p) ==
  /\ unit[p] = "asking" /\ batch.kind = "acknowledge" /\ mark[p] = "none"
  /\ mark' = [mark EXCEPT ![p] = "made"]
  /\ UNCHANGED <<batch, unit, left, clock, pokes>>

AnswerPeer(p) ==
  /\ Gathering /\ unit[p] = "asking"
  /\ \/ batch.kind = "snapshot" /\ SetUnit(p, "ok") /\ UNCHANGED mark
     \/ /\ mark[p] = "made" /\ mark' = [mark EXCEPT ![p] = "answered"]
        /\ SetUnit(p, IF left[p] > 0 THEN "topics" ELSE "ok")
  /\ UNCHANGED <<batch, left, clock, pokes>>

(* An error answer or the deadline of the chat.                            *)
RefusePeer(p) ==
  /\ Gathering /\ unit[p] = "asking" /\ SetUnit(p, "failed")
  /\ UNCHANGED <<batch, left, mark, clock, pokes>>

(* _acknowledge_forum_topics: done, refused, or out of time.               *)
TopicsEnd(p) ==
  /\ Gathering /\ unit[p] = "topics" /\ SetUnit(p, "ok")
  /\ UNCHANGED <<batch, left, mark, clock, pokes>>

(* Time passes while no task can act by itself and no deadline is due.     *)
PassTime ==
  /\ Gathering /\ ~AllDone
  /\ \A p \in Peers : ~Admits(p) /\ (p \in Running => left[p] > 0)
  /\ left' = [p \in Peers |-> IF p \in Running THEN left[p] - 1 ELSE left[p]]
  /\ clock' = clock + 1
  /\ UNCHANGED <<batch, unit, mark, pokes>>

-----------------------------------------------------------------------------
GatherEnds ==
  /\ Gathering /\ AllDone
  /\ batch' = [batch EXCEPT !.at = "disconnecting", !.report = "results"]
  /\ UNCHANGED <<unit, left, mark, clock, pokes>>

(* Faulty variant: gather's error passes by without joining the other      *)
(* tasks.                                                                  *)
FutureCancelledUnjoined(p) ==
  /\ Gathering /\ p \in Running /\ SetUnit(p, "cancelled")
  /\ batch' = [batch EXCEPT !.at = "disconnecting", !.report = "cancelled"]
  /\ UNCHANGED <<left, mark, clock, pokes>>

(* The client cancels a future of its own: gather raises at once and       *)
(* leaves the other tasks to cancel_and_join.                              *)
FutureCancelled(p) ==
  /\ Gathering /\ p \in Running /\ SetUnit(p, "cancelled")
  /\ batch' = [batch EXCEPT !.at = "joining", !.report = "cancelled"]
  /\ UNCHANGED <<left, mark, clock, pokes>>

JoinPeer(p) ==
  /\ batch.at = "joining" /\ unit[p] \in Unfinished /\ SetUnit(p, "cancelled")
  /\ UNCHANGED <<batch, left, mark, clock, pokes>>
Joined ==
  /\ batch.at = "joining" /\ AllDone
  /\ batch' = [batch EXCEPT !.at = "disconnecting"]
  /\ UNCHANGED <<unit, left, mark, clock, pokes>>

(* _disconnect_client: its own failure replaces a cancellation it heard.   *)
Disconnect ==
  /\ batch.at = "disconnecting"
  /\ \E fails \in BOOLEAN :
       batch' = [batch EXCEPT !.at = "over",
                              !.report = IF fails THEN "error"
                                         ELSE IF batch.heard THEN "cancelled" ELSE @]
  /\ UNCHANGED <<unit, left, mark, clock, pokes>>

BatchReturns ==
  /\ batch.at = "over" /\ batch' = NoBatch
  /\ unit' = [p \in Peers |-> "none"] /\ left' = [p \in Peers |-> 0]
  /\ mark' = [p \in Peers |-> "none"] /\ clock' = 0 /\ pokes' = 0

(* The epoch ends, or the limit of _bounded_external is over.              *)
CancelBatch ==
  /\ pokes < MaxBatchCancels /\ pokes' = pokes + 1
  /\ \/ /\ batch.at = "connecting"
        /\ batch' = [batch EXCEPT !.at = "disconnecting", !.report = "cancelled"]
     \/ Gathering /\ batch' = [batch EXCEPT !.at = "joining", !.report = "cancelled"]
     \/ batch.at = "joining" /\ UNCHANGED batch
     \/ batch.at = "disconnecting" /\ batch' = [batch EXCEPT !.heard = TRUE]
  /\ UNCHANGED <<unit, left, mark, clock>>

-----------------------------------------------------------------------------
BatchInit ==
  /\ batch = NoBatch /\ unit = [p \in Peers |-> "none"] /\ left = [p \in Peers |-> 0]
  /\ mark = [p \in Peers |-> "none"] /\ clock = 0 /\ pokes = 0

PeerStep(p) ==
  AdmitPeer(p) \/ MarkLands(p) \/ AnswerPeer(p) \/ RefusePeer(p) \/ TopicsEnd(p)
  \/ FutureCancelled(p) \/ JoinPeer(p)
BatchNext ==
  \/ \E kind \in {"acknowledge", "snapshot"} : BeginBatch(kind)
  \/ \E p \in Peers : PeerStep(p)
  \/ ConnectBatch \/ PassTime \/ GatherEnds \/ Joined \/ Disconnect \/ BatchReturns \/ CancelBatch
BatchSpec == BatchInit /\ [][BatchNext]_batchVars

-----------------------------------------------------------------------------
BatchTypeOK ==
  /\ batch \in [kind : {"none", "acknowledge", "snapshot"},
                at : {"idle", "connecting", "gathering", "joining", "disconnecting", "over"},
                report : {"none", "results", "error", "cancelled"}, heard : BOOLEAN]
  /\ unit \in [Peers -> Unfinished \cup {"none", "ok", "failed", "cancelled"}]
  /\ left \in [Peers -> 0..Patience] /\ mark \in [Peers -> {"none", "made", "answered"}]
  /\ clock \in Nat /\ pokes \in 0..MaxBatchCancels

(* No task still uses the client when it disconnects.  A batch gives its   *)
(* results within one deadline per wave of slots, topics included, which   *)
(* is what the limit of its caller is made for.  A mark that Telegram has  *)
(* answered is reported whatever became of the topics, and a cancellation  *)
(* is never taken for a result.                                            *)
BatchIsAccounted ==
  /\ batch.at \in {"disconnecting", "over"} => AllDone
  /\ Gathering => clock <= Waves * Patience /\ Cardinality(Running) <= Slots
  /\ batch.at = "over" /\ batch.report = "results" =>
       /\ pokes = 0
       /\ \A p \in Peers :
            /\ unit[p] \in {"ok", "failed"}
            /\ batch.kind = "acknowledge" => (unit[p] = "ok" <=> mark[p] = "answered")
=============================================================================
