----------------------------- MODULE CallProofs -----------------------------
(***************************************************************************)
(* Proofs about the calls the guardian makes to the outside: Children, for *)
(* any number of cancellations of the caller; and PeerBatch, for every set *)
(* of chats, every number of slots and every deadline.                     *)
(***************************************************************************)
EXTENDS Children, PeerBatch, FiniteSetTheorems, TLAPS

-----------------------------------------------------------------------------
(***************************************************************************)
(* Children.                                                               *)
(***************************************************************************)

(* What is known of the child and its exchange at each place, and how far  *)
(* a cancellation has got.  NothingOutlives alone is not inductive: that a *)
(* cancellation is reported in the end depends on where it was kept.       *)
PlaceInv ==
  /\ call.at = "idle" => call = NoCall /\ process = "none" /\ exchange = "none" /\ ~secrets
  /\ call.at # "idle" => call.kind \in Kinds
  /\ exchange \in {"answered", "bad_code"} => process = "reaped"
  /\ call.at \in {"drain", "leaving", "over"} => process = "reaped"
  /\ call.at \in {"leaving", "over"} => exchange # "running"
  /\ call.at = "over" => ~secrets

CancelInv ==
  /\ call.at \in {"idle", "checking", "waiting", "serving"} => cancels = 0
  /\ cancels > 0 /\ ~call.deaf =>
       /\ Cleaning => call.heard \/ call.report = "cancelled"
       /\ call.at \in {"leaving", "over"} => call.report = "cancelled"

ChildInv == ChildrenTypeOK /\ PlaceInv /\ CancelInv

LEMMA IdleFields ==
  /\ NoCall.at = "idle" /\ NoCall.report = "none" /\ NoCall.kind = "none"
  /\ NoCall.heard = FALSE /\ NoCall.deaf = FALSE
BY DEF NoCall

LEMMA BooleanTests ==
  \A kind : (kind = "model_job") \in BOOLEAN /\ WithSecrets(kind) \in BOOLEAN
BY SMT DEF WithSecrets

LEMMA NoCallIsACall == NoCall \in Calls
BY Zenon DEF NoCall, Calls

LEMMA ChildInitially == ChildrenInit => ChildInv
<1> SUFFICES ASSUME ChildrenInit PROVE ChildInv
  OBVIOUS
<1>1. ChildrenTypeOK
  <2>1. call \in Calls
    BY NoCallIsACall DEF ChildrenInit
  <2>2. secrets \in BOOLEAN /\ revoked \in BOOLEAN
    BY Zenon DEF ChildrenInit
  <2>3. cancels \in 0..MaxCancels
    BY ChildrenAssumption DEF ChildrenInit
  <2> QED
    BY <2>1, <2>2, <2>3 DEF ChildrenInit, ChildrenTypeOK
<1>2. PlaceInv
  BY IdleFields DEF ChildrenInit, PlaceInv
<1>3. CancelInv
  BY IdleFields DEF ChildrenInit, CancelInv
<1> QED
  BY <1>1, <1>2, <1>3 DEF ChildInv

(* A call that fails goes to its cleanup, and nobody has cancelled it yet. *)
LEMMA FailsKeeps ==
  ASSUME ChildInv, call.at \in {"waiting", "serving"}, Same, UNCHANGED <<process, exchange>>,
         NEW report \in {"value", "error", "cancelled"}, Fails(report)
  PROVE  ChildInv'
<1>0. /\ call'.at = "term" /\ call'.report = report /\ call'.kind = call.kind
      /\ call'.heard = call.heard /\ call'.deaf = call.deaf
  BY DEF ChildInv, ChildrenTypeOK, Calls, Fails
<1>1. ChildrenTypeOK'
  BY DEF ChildInv, ChildrenTypeOK, Calls, Fails, Same
<1>2. PlaceInv'
  BY <1>0 DEF ChildInv, PlaceInv, Same
<1>3. CancelInv'
  BY <1>0 DEF ChildInv, CancelInv, Cleaning, ChildrenTypeOK, Same
<1> QED
  BY <1>1, <1>2, <1>3 DEF ChildInv

(* The supervisor's own steps.                                             *)
LEMMA SuperviseKeeps == ChildInv /\ Supervise => ChildInv'
<1> SUFFICES ASSUME ChildInv, Supervise PROVE ChildInv'
  OBVIOUS
<1> USE ChildrenAssumption, IdleFields
     DEF ChildInv, ChildrenTypeOK, Calls, PlaceInv, CancelInv, Same, Go, Fails, Waiting, Cleaning, Serving
<1>1. CASE CheckChild
  <2>1. CASE Go("waiting")
    BY <1>1, <2>1 DEF CheckChild
  <2>2. CASE call' = [call EXCEPT !.at = "term", !.report = "error", !.deaf = call.kind = "ssh"]
    <3>1. /\ call'.at = "term" /\ call'.report = "error" /\ call'.kind = call.kind
          /\ call'.heard = call.heard /\ call'.deaf = (call.kind = "ssh")
      BY <2>2
    <3>2. call' \in Calls
      BY Zenon, <2>2
    <3> QED
      BY <1>1, <3>1, <3>2 DEF CheckChild
  <2> QED
    BY <1>1, <2>1, <2>2 DEF CheckChild
<1>2. CASE TakeAnswer
  <2>1. CASE \E report \in {"error", "cancelled"} : Fails(report)
    BY <1>2, <2>1, FailsKeeps DEF TakeAnswer
  <2>2. CASE call' = [call EXCEPT !.at = "leaving", !.report = "value"]
    <3>1. exchange \in {"answered", "bad_code"}
      BY <1>2, <2>2 DEF TakeAnswer
    <3>2. /\ call'.at = "leaving" /\ call'.report = "value" /\ call'.kind = call.kind
          /\ call'.heard = call.heard /\ call'.deaf = call.deaf /\ call' \in Calls
      BY <2>2
    <3>3. process = "reaped" /\ cancels = 0 /\ call.at = "waiting"
      BY <1>2, <3>1 DEF TakeAnswer
    <3> QED
      BY <1>2, <3>1, <3>2, <3>3 DEF TakeAnswer
  <2> QED
    BY <1>2, <2>1, <2>2 DEF TakeAnswer
<1>3. CASE NoticeRevoked
  BY <1>3, FailsKeeps DEF NoticeRevoked
<1>4. CASE Deadline
  BY <1>4, FailsKeeps DEF Deadline
<1>5. CASE BecomesReady
  BY <1>5 DEF BecomesReady
<1>6. CASE SeesExit
  BY <1>6, FailsKeeps DEF SeesExit
<1>7. CASE Reap
  BY <1>7 DEF Reap
<1>8. CASE GraceOver
  BY <1>8 DEF GraceOver
<1>9. CASE Drain
  BY <1>9 DEF Drain
<1>10. CASE Leave
  BY <1>10 DEF Leave
<1>11. CASE Return
  BY <1>11 DEF Return, NoCall
<1> QED
  BY <1>1, <1>2, <1>3, <1>4, <1>5, <1>6, <1>7, <1>8, <1>9, <1>10, <1>11 DEF Supervise

(* The caller, the child and the epoch.                                    *)
LEMMA ChildOthersKeep ==
  ASSUME ChildInv,
         \/ \E kind \in Kinds : BeginCall(kind)
         \/ ChildExits \/ ExchangeEnds \/ StopServer \/ CancelCaller \/ Revoke \/ FreshEvent
  PROVE  ChildInv'
<1> USE ChildrenAssumption, IdleFields
     DEF ChildInv, ChildrenTypeOK, Calls, PlaceInv, CancelInv, Same, Go, Fails, Waiting, Cleaning, Serving
<1>1. CASE \E kind \in Kinds : BeginCall(kind)
  <2>1. PICK kind \in Kinds : BeginCall(kind)
    BY <1>1
  <2>2. kind # "none"
    BY DEF Kinds, Exchanges, Servers
  <2>3. /\ call'.kind = kind /\ call'.at \in {"checking", "waiting"} /\ call'.report = "none"
        /\ call'.heard = FALSE
    BY <2>1 DEF BeginCall, NoCall
  <2>4. call' \in Calls
    <3> QED
      BY <2>1, BooleanTests DEF BeginCall, NoCall
  <2>5. secrets' \in BOOLEAN
    BY <2>1, BooleanTests DEF BeginCall
  <2>6. process' = "running" /\ exchange' \in {"running", "none"} /\ cancels' = cancels
        /\ revoked' = revoked /\ call.at = "idle"
    BY <2>1 DEF BeginCall
  <2> QED
    BY <2>2, <2>3, <2>4, <2>5, <2>6
<1>2. CASE ChildExits
  BY <1>2 DEF ChildExits
<1>3. CASE ExchangeEnds
  BY <1>3 DEF ExchangeEnds
<1>4. CASE StopServer
  BY <1>4, FailsKeeps DEF StopServer
<1>5. CASE CancelCaller
  <2>1. cancels' \in 1..MaxCancels /\ UNCHANGED <<process, exchange, secrets, revoked>>
    BY <1>5 DEF CancelCaller
  <2>2. /\ call' \in Calls /\ call'.kind = call.kind /\ call'.deaf = call.deaf
        /\ call'.at = call.at \/ (call.at = "waiting" /\ call'.at = "term")
        /\ call'.at \in {"term", "kill", "drain", "leaving"}
    BY <1>5 DEF CancelCaller
  <2>3. /\ call'.at \in {"term", "kill", "drain"} => call'.heard \/ call'.report = "cancelled"
        /\ call'.at = "leaving" => call'.report = "cancelled"
    BY <1>5 DEF CancelCaller
  <2> QED
    BY <2>1, <2>2, <2>3
<1>6. CASE Revoke
  BY <1>6 DEF Revoke
<1>7. CASE FreshEvent
  BY <1>7 DEF FreshEvent
<1> QED
  BY <1>1, <1>2, <1>3, <1>4, <1>5, <1>6, <1>7

LEMMA ChildNextKeeps == ChildInv /\ [ChildrenNext]_childVars => ChildInv'
<1> SUFFICES ASSUME ChildInv, [ChildrenNext]_childVars PROVE ChildInv'
  OBVIOUS
<1>1. CASE Supervise
  BY <1>1, SuperviseKeeps
<1>2. CASE \/ \E kind \in Kinds : BeginCall(kind)
           \/ ChildExits \/ ExchangeEnds \/ StopServer \/ CancelCaller \/ Revoke \/ FreshEvent
  BY <1>2, ChildOthersKeep
<1>3. CASE UNCHANGED childVars
  BY <1>3 DEF childVars, ChildInv, ChildrenTypeOK, PlaceInv, CancelInv, Cleaning
<1> QED
  BY <1>1, <1>2, <1>3 DEF ChildrenNext

(* However often and however late the caller of a supervised child is      *)
(* cancelled, the call leaves no child, task, key file or runtime          *)
(* directory behind, and reports the cancellation.                         *)
THEOREM NothingOutlivesACall == ChildrenSpec => []NothingOutlives
<1>1. ChildInv => NothingOutlives
  BY DEF ChildInv, PlaceInv, CancelInv, NothingOutlives
<1> QED
  BY <1>1, ChildInitially, ChildNextKeeps, PTL DEF ChildrenSpec

(* Types, for any number of cancellations.                                 *)
THEOREM ChildrenTypesHold == ChildrenSpec => []ChildrenTypeOK
<1>1. ChildInv => ChildrenTypeOK
  BY DEF ChildInv
<1> QED
  BY <1>1, ChildInitially, ChildNextKeeps, PTL DEF ChildrenSpec

-----------------------------------------------------------------------------
(***************************************************************************)
(* PeerBatch.                                                              *)
(***************************************************************************)

(* What each place of the batch says about its tasks.                      *)
PlacesFit ==
  /\ batch.at = "idle" => batch.kind = "none"
  /\ batch.at \in {"idle", "connecting"} =>
       /\ unit = [p \in Peers |-> "none"] /\ left = [p \in Peers |-> 0]
       /\ mark = [p \in Peers |-> "none"] /\ clock = 0
  /\ batch.at \in {"idle", "connecting", "gathering"} =>
       pokes = 0 /\ batch.report = "none" /\ ~batch.heard
  /\ batch.at # "disconnecting" /\ batch.at # "over" => batch.report # "results"
  /\ batch.at \in {"disconnecting", "over"} => AllDone
  /\ batch.at \in {"disconnecting", "over"} /\ batch.report = "results" =>
       batch.heard \/ pokes = 0
  /\ batch.at = "over" /\ batch.report = "results" => ~batch.heard

(* A mark is answered exactly when its task has gone on from asking.       *)
MarksFit ==
  Gathering \/ batch.report = "results" =>
    \A p \in Peers :
      /\ unit[p] \in {"queued", "asking", "topics", "ok", "failed"}
      /\ batch.kind = "acknowledge" => (unit[p] \in {"topics", "ok"} <=> mark[p] = "answered")

BatchShape == BatchTypeOK /\ PlacesFit /\ MarksFit

LEMMA BatchShapeInit == BatchInit => BatchShape
BY PeerBatchAssumption
   DEF BatchInit, BatchShape, BatchTypeOK, PlacesFit, MarksFit, NoBatch, Gathering, Unfinished

LEMMA BatchShapeStep ==
  ASSUME BatchShape, [BatchNext]_batchVars
  PROVE  BatchShape'
<1> USE PeerBatchAssumption DEF BatchShape
<1>1. ASSUME NEW kind \in {"acknowledge", "snapshot"}, BeginBatch(kind) PROVE BatchShape'
  BY <1>1 DEF BeginBatch, BatchTypeOK, PlacesFit, MarksFit, NoBatch, Gathering, AllDone
<1>2. CASE ConnectBatch
  <2>1. CASE batch' = [batch EXCEPT !.at = "gathering"]
    <3>1. /\ unit' = [p \in Peers |-> "queued"] /\ UNCHANGED <<left, mark, clock, pokes>>
          /\ mark = [p \in Peers |-> "none"]
      BY <1>2, <2>1 DEF ConnectBatch, PlacesFit, BatchTypeOK
    <3>2. /\ batch'.at = "gathering" /\ batch'.kind = batch.kind
          /\ batch'.report = batch.report /\ batch'.heard = batch.heard
      BY <2>1 DEF BatchTypeOK
    <3>3. BatchTypeOK'
      BY <2>1, <3>1 DEF BatchTypeOK, Unfinished
    <3>4. PlacesFit'
      BY <1>2, <3>1, <3>2 DEF ConnectBatch, PlacesFit
    <3>5. MarksFit'
      BY <3>1 DEF MarksFit
    <3> QED BY <3>3, <3>4, <3>5
  <2>2. CASE /\ batch' = [batch EXCEPT !.at = "disconnecting", !.report = "error"]
             /\ UNCHANGED unit
    BY <1>2, <2>2 DEF ConnectBatch, BatchTypeOK, PlacesFit, MarksFit, Gathering, AllDone, Unfinished
  <2> QED BY <1>2, <2>1, <2>2 DEF ConnectBatch
<1>3. ASSUME NEW p \in Peers, AdmitPeer(p) PROVE BatchShape'
  BY <1>3 DEF AdmitPeer, Admits, SetUnit, BatchTypeOK, PlacesFit, MarksFit, Gathering, AllDone,
              Unfinished
<1>4. ASSUME NEW p \in Peers, MarkLands(p) PROVE BatchShape'
  BY <1>4 DEF MarkLands, BatchTypeOK, PlacesFit, MarksFit, Gathering, AllDone, Unfinished
<1>5. ASSUME NEW p \in Peers, AnswerPeer(p) PROVE BatchShape'
  BY <1>5 DEF AnswerPeer, SetUnit, BatchTypeOK, PlacesFit, MarksFit, Gathering, AllDone, Unfinished
<1>6. ASSUME NEW p \in Peers, RefusePeer(p) PROVE BatchShape'
  BY <1>6 DEF RefusePeer, SetUnit, BatchTypeOK, PlacesFit, MarksFit, Gathering, AllDone, Unfinished
<1>7. ASSUME NEW p \in Peers, TopicsEnd(p) PROVE BatchShape'
  BY <1>7 DEF TopicsEnd, SetUnit, BatchTypeOK, PlacesFit, MarksFit, Gathering, AllDone, Unfinished
<1>8. CASE PassTime
  BY <1>8 DEF PassTime, Running, BatchTypeOK, PlacesFit, MarksFit, Gathering, AllDone, Unfinished
<1>9. CASE GatherEnds
  BY <1>9 DEF GatherEnds, BatchTypeOK, PlacesFit, MarksFit, Gathering, AllDone, Unfinished
<1>10. ASSUME NEW p \in Peers, FutureCancelled(p) PROVE BatchShape'
  BY <1>10 DEF FutureCancelled, Running, SetUnit, BatchTypeOK, PlacesFit, MarksFit, Gathering,
               AllDone, Unfinished
<1>11. ASSUME NEW p \in Peers, JoinPeer(p) PROVE BatchShape'
  BY <1>11 DEF JoinPeer, SetUnit, BatchTypeOK, PlacesFit, MarksFit, Gathering, AllDone, Unfinished
<1>12. CASE Joined
  BY <1>12 DEF Joined, BatchTypeOK, PlacesFit, MarksFit, Gathering, AllDone, Unfinished
<1>13. CASE Disconnect
  BY <1>13 DEF Disconnect, BatchTypeOK, PlacesFit, MarksFit, Gathering, AllDone, Unfinished
<1>14. CASE BatchReturns
  BY <1>14 DEF BatchReturns, NoBatch, BatchTypeOK, PlacesFit, MarksFit, Gathering, AllDone,
               Unfinished
<1>15. CASE CancelBatch
  <2>1. pokes' \in 0..MaxBatchCancels /\ UNCHANGED <<unit, left, mark, clock>>
    BY <1>15 DEF CancelBatch, BatchTypeOK
  <2>2. CASE /\ batch.at = "connecting"
             /\ batch' = [batch EXCEPT !.at = "disconnecting", !.report = "cancelled"]
    BY <2>1, <2>2 DEF BatchTypeOK, PlacesFit, MarksFit, Gathering, AllDone, Unfinished
  <2>3. CASE Gathering /\ batch' = [batch EXCEPT !.at = "joining", !.report = "cancelled"]
    BY <2>1, <2>3 DEF BatchTypeOK, PlacesFit, MarksFit, Gathering, AllDone, Unfinished
  <2>4. CASE batch.at = "joining" /\ UNCHANGED batch
    BY <2>1, <2>4 DEF BatchTypeOK, PlacesFit, MarksFit, Gathering, AllDone, Unfinished
  <2>5. CASE batch.at = "disconnecting" /\ batch' = [batch EXCEPT !.heard = TRUE]
    BY <2>1, <2>5 DEF BatchTypeOK, PlacesFit, MarksFit, Gathering, AllDone, Unfinished
  <2> QED BY <1>15, <2>2, <2>3, <2>4, <2>5 DEF CancelBatch
<1>16. CASE UNCHANGED batchVars
  BY <1>16 DEF batchVars, BatchTypeOK, PlacesFit, MarksFit, Gathering, AllDone
<1> QED BY <1>1, <1>2, <1>3, <1>4, <1>5, <1>6, <1>7, <1>8, <1>9, <1>10, <1>11, <1>12, <1>13,
           <1>14, <1>15, <1>16
        DEF BatchNext, PeerStep

-----------------------------------------------------------------------------
(* The limit of the caller.  A task that runs will end by clock + left[p]. *)
(* The slots are given one at a time and never lie idle while a task is    *)
(* queued, so of the tasks that were given one only those after the first  *)
(* k * Slots can run beyond k deadlines (LateOnes); and the first           *)
(* (k + 1) * Slots have theirs once the k-th deadline is past (NoneIdle).  *)
Started == {p \in Peers : unit[p] # "queued"}
RunsBeyond(k) == {p \in Running : clock + left[p] > k * Patience}

LateOnes ==
  \A k \in Nat : RunsBeyond(k) # {} =>
    Cardinality(RunsBeyond(k)) + k * Slots <= Cardinality(Started)
NoneIdle ==
  \A k \in Nat : clock > k * Patience /\ Started # Peers =>
    (k + 1) * Slots <= Cardinality(Started)
InTime ==
  Gathering => /\ LateOnes /\ NoneIdle
               /\ clock <= Waves * Patience /\ Cardinality(Running) <= Slots

BatchInv == BatchShape /\ InTime

LEMMA Finite ==
  ASSUME BatchShape
  PROVE  /\ IsFiniteSet(Running) /\ Cardinality(Running) \in Nat
         /\ IsFiniteSet(Started) /\ Cardinality(Started) \in Nat
         /\ Cardinality(Started) <= Cardinality(Peers) /\ Cardinality(Peers) \in Nat
         /\ \A k \in Nat : /\ IsFiniteSet(RunsBeyond(k)) /\ Cardinality(RunsBeyond(k)) \in Nat
                           /\ RunsBeyond(k) \subseteq Running
<1>1. /\ Running \in SUBSET Peers /\ Started \in SUBSET Peers
      /\ \A k \in Nat : RunsBeyond(k) \in SUBSET Peers /\ RunsBeyond(k) \subseteq Running
  BY DEF Running, Started, RunsBeyond
<1>2. IsFiniteSet(Peers)
  BY PeerBatchAssumption
<1>3. \A S \in SUBSET Peers : /\ IsFiniteSet(S) /\ Cardinality(S) \in Nat
                              /\ Cardinality(S) <= Cardinality(Peers)
  BY <1>2, FS_Subset, FS_CardinalityType
<1> QED BY <1>1, <1>2, <1>3, FS_CardinalityType

LEMMA Products ==
  ASSUME NEW k \in Nat
  PROVE  /\ k * Slots \in Nat /\ k * Patience \in Nat
         /\ (k + 1) * Slots = k * Slots + Slots
         /\ (k + 1) * Patience = k * Patience + Patience
         /\ 0 * Slots = 0 /\ 0 * Patience = 0
BY PeerBatchAssumption

LEMMA WavesFit ==
  /\ Waves \in Nat /\ Waves * Slots \in Nat /\ Waves * Patience \in Nat
  /\ Cardinality(Peers) <= Waves * Slots
<1>1. Cardinality(Peers) \in Nat /\ Slots \in Nat /\ Slots > 0 /\ Patience \in Nat
  BY PeerBatchAssumption, FS_CardinalityType
<1>2. \A a \in Nat : a \div Slots \in Nat /\ a < (a \div Slots) * Slots + Slots
  BY <1>1
<1> QED BY <1>1, <1>2 DEF Waves

LEMMA InTimeInit == BatchInit => InTime
BY DEF BatchInit, InTime, NoBatch, Gathering

-----------------------------------------------------------------------------
LEMMA AdmitInTime ==
  ASSUME BatchInv, NEW p \in Peers, AdmitPeer(p)
  PROVE  InTime'
<1> USE DEF BatchInv
<1>0. /\ Gathering /\ LateOnes /\ NoneIdle /\ clock \in Nat /\ Patience \in Nat \ {0}
      /\ unit \in [Peers -> Unfinished \cup {"none", "ok", "failed", "cancelled"}]
      /\ left \in [Peers -> 0..Patience] /\ Slots \in Nat \ {0}
      /\ unit[p] = "queued" /\ clock' = clock
      /\ unit' = [unit EXCEPT ![p] = "asking"] /\ left' = [left EXCEPT ![p] = Patience]
  BY PeerBatchAssumption DEF AdmitPeer, Admits, SetUnit, InTime, BatchShape, BatchTypeOK
<1>1. /\ Started' = Started \cup {p} /\ p \notin Started
      /\ Running' = Running \cup {p} /\ p \notin Running
  BY <1>0 DEF Started, Running
<1>2. /\ Cardinality(Started') = Cardinality(Started) + 1
      /\ Cardinality(Running') = Cardinality(Running) + 1
  BY <1>1, Finite, FS_AddElement
<1>3. ASSUME NEW k \in Nat, RunsBeyond(k)' # {}
      PROVE  Cardinality(RunsBeyond(k)') + k * Slots <= Cardinality(Started')
  <2>0. k * Patience \in Nat /\ k * Slots \in Nat
    BY Products
  <2>1. CASE clock + Patience > k * Patience
    <3>1. RunsBeyond(k)' = RunsBeyond(k) \cup {p} /\ p \notin RunsBeyond(k)
      BY <1>0, <1>1, <2>1 DEF RunsBeyond, Running
    <3>2. Cardinality(RunsBeyond(k)') = Cardinality(RunsBeyond(k)) + 1
      BY <3>1, Finite, FS_AddElement
    <3>3. k * Slots <= Cardinality(Started)
      <4>1. CASE k = 0
        BY <4>1, Products, Finite
      <4>2. CASE k # 0
        <5>1. PICK j \in Nat : k = j + 1
          <6>1. k - 1 \in Nat /\ k = (k - 1) + 1
            BY <4>2
          <6> QED BY <6>1
        <5>2. clock > j * Patience
          BY <1>0, <2>1, <5>1, Products
        <5>3. Started # Peers
          BY <1>1
        <5> QED BY <1>0, <5>1, <5>2, <5>3 DEF NoneIdle
      <4> QED BY <4>1, <4>2
    <3>4. CASE RunsBeyond(k) = {}
      BY <1>2, <2>0, <3>2, <3>3, <3>4, FS_EmptySet, Finite
    <3>5. CASE RunsBeyond(k) # {}
      <4>1. Cardinality(RunsBeyond(k)) + k * Slots <= Cardinality(Started)
        BY <1>0, <3>5 DEF LateOnes
      <4> QED BY <1>2, <2>0, <3>2, <4>1, Finite
    <3> QED BY <3>4, <3>5
  <2>2. CASE ~(clock + Patience > k * Patience)
    <3>1. RunsBeyond(k)' = RunsBeyond(k)
      BY <1>0, <1>1, <2>2 DEF RunsBeyond, Running
    <3>2. Cardinality(RunsBeyond(k)) + k * Slots <= Cardinality(Started)
      BY <1>0, <1>3, <3>1 DEF LateOnes
    <3> QED BY <1>2, <2>0, <3>1, <3>2, Finite
  <2> QED BY <2>1, <2>2
<1>4. ASSUME NEW k \in Nat, clock' > k * Patience, Started' # Peers
      PROVE  (k + 1) * Slots <= Cardinality(Started')
  <2>1. Started # Peers
    BY <1>1
  <2>2. (k + 1) * Slots <= Cardinality(Started) /\ (k + 1) * Slots \in Nat
    BY <1>0, <1>4, <2>1, Products DEF NoneIdle
  <2> QED BY <1>2, <2>2, Finite
<1>5. LateOnes' /\ NoneIdle'
  BY <1>3, <1>4 DEF LateOnes, NoneIdle
<1>6. Cardinality(Running') <= Slots
  BY <1>0, <1>2, Finite DEF AdmitPeer, Admits
<1>7. clock' <= Waves * Patience
  BY <1>0 DEF InTime
<1> QED BY <1>5, <1>6, <1>7 DEF InTime, Waves

(* Time passes only while every slot is taken or nothing is queued.        *)
LEMMA PassInTime ==
  ASSUME BatchInv, PassTime
  PROVE  InTime'
<1> USE DEF BatchInv
<1>0. /\ Gathering /\ LateOnes /\ NoneIdle /\ clock \in Nat /\ Patience \in Nat \ {0}
      /\ unit \in [Peers -> Unfinished \cup {"none", "ok", "failed", "cancelled"}]
      /\ left \in [Peers -> 0..Patience] /\ Slots \in Nat \ {0}
      /\ clock' = clock + 1 /\ unit' = unit
      /\ left' = [p \in Peers |-> IF p \in Running THEN left[p] - 1 ELSE left[p]]
      /\ \A p \in Running : left[p] > 0
      /\ clock <= Waves * Patience /\ Cardinality(Running) <= Slots
  BY PeerBatchAssumption DEF PassTime, InTime, BatchShape, BatchTypeOK, Running
<1>1. Started' = Started /\ Running' = Running
  BY <1>0 DEF Started, Running
<1>2. \A k \in Nat : RunsBeyond(k)' = RunsBeyond(k)
  <2> SUFFICES ASSUME NEW k \in Nat PROVE RunsBeyond(k)' = RunsBeyond(k)
    OBVIOUS
  <2>1. \A p \in Running : clock' + left'[p] = clock + left[p]
    BY <1>0 DEF Running
  <2> QED BY <1>1, <2>1 DEF RunsBeyond
<1>3. LateOnes'
  BY <1>0, <1>1, <1>2 DEF LateOnes
<1>4. Started # Peers => Cardinality(Running) = Slots
  <2>1. ASSUME Started # Peers PROVE \E p \in Peers : unit[p] = "queued"
    BY <2>1 DEF Started
  <2> QED BY <1>0, <2>1, Finite DEF PassTime, Admits
<1>5. \A k \in Nat : clock >= k * Patience => RunsBeyond(k) = Running
  <2> SUFFICES ASSUME NEW k \in Nat, clock >= k * Patience PROVE RunsBeyond(k) = Running
    OBVIOUS
  <2>1. \A p \in Running : clock + left[p] > k * Patience
    BY <1>0, Products DEF Running
  <2> QED BY <2>1 DEF RunsBeyond
<1>6. NoneIdle'
  <2> SUFFICES ASSUME NEW k \in Nat, clock' > k * Patience, Started # Peers
               PROVE  (k + 1) * Slots <= Cardinality(Started)
    BY <1>1 DEF NoneIdle
  <2>1. RunsBeyond(k) = Running /\ Cardinality(Running) = Slots
    BY <1>0, <1>4, <1>5, Products
  <2>2. RunsBeyond(k) # {}
    BY <1>0, <2>1, FS_EmptySet
  <2>3. Slots + k * Slots <= Cardinality(Started)
    BY <1>0, <2>1, <2>2 DEF LateOnes
  <2> QED BY <1>0, <2>3, Products
<1>7. Running # {}
  <2>1. CASE Started # Peers
    BY <1>0, <1>4, <2>1, FS_EmptySet
  <2>2. CASE Started = Peers
    BY <1>0, <2>2 DEF PassTime, AllDone, Unfinished, Started, Running
  <2> QED BY <2>1, <2>2
<1>8. clock' <= Waves * Patience
  <2> SUFFICES ASSUME clock >= Waves * Patience PROVE FALSE
    BY <1>0, WavesFit
  <2>1. RunsBeyond(Waves) = Running
    BY <1>5, WavesFit
  <2>2. Cardinality(Running) + Waves * Slots <= Cardinality(Started)
    BY <1>0, <1>7, <2>1, WavesFit DEF LateOnes
  <2>3. Cardinality(Running) > 0
    BY <1>7, Finite, FS_EmptySet
  <2> QED BY <2>2, <2>3, Finite, WavesFit
<1> QED BY <1>0, <1>1, <1>3, <1>6, <1>8 DEF InTime, Waves

(* A task that ends, or goes on to the topics, makes nobody else late.     *)
LEMMA EndInTime ==
  ASSUME BatchInv, NEW p \in Peers, AnswerPeer(p) \/ RefusePeer(p) \/ TopicsEnd(p)
  PROVE  InTime'
<1> USE DEF BatchInv
<1>0. /\ Gathering /\ LateOnes /\ NoneIdle /\ clock' = clock /\ left' = left
      /\ unit \in [Peers -> Unfinished \cup {"none", "ok", "failed", "cancelled"}]
      /\ Slots \in Nat \ {0} /\ p \in Running
      /\ clock <= Waves * Patience /\ Cardinality(Running) <= Slots
  BY PeerBatchAssumption
     DEF AnswerPeer, RefusePeer, TopicsEnd, InTime, BatchShape, BatchTypeOK, Running
<1>1. \E u \in {"topics", "ok", "failed"} : unit' = [unit EXCEPT ![p] = u]
  BY DEF AnswerPeer, RefusePeer, TopicsEnd, SetUnit
<1>2. Started' = Started /\ Running' \subseteq Running
  BY <1>0, <1>1 DEF Started, Running
<1>3. \A k \in Nat : RunsBeyond(k)' \subseteq RunsBeyond(k)
  BY <1>0, <1>2 DEF RunsBeyond
<1>4. Cardinality(Running') \in Nat /\ Cardinality(Running') <= Cardinality(Running)
  BY <1>2, Finite, FS_Subset, FS_CardinalityType
<1>5. LateOnes'
  <2> SUFFICES ASSUME NEW k \in Nat, RunsBeyond(k)' # {}
               PROVE  Cardinality(RunsBeyond(k)') + k * Slots <= Cardinality(Started)
    BY <1>2 DEF LateOnes
  <2>1. /\ Cardinality(RunsBeyond(k)') \in Nat
        /\ Cardinality(RunsBeyond(k)') <= Cardinality(RunsBeyond(k))
    BY <1>3, Finite, FS_Subset, FS_CardinalityType
  <2>2. Cardinality(RunsBeyond(k)) + k * Slots <= Cardinality(Started)
    BY <1>0, <1>3 DEF LateOnes
  <2> QED BY <2>1, <2>2, Finite, Products
<1>6. NoneIdle'
  BY <1>0, <1>2 DEF NoneIdle
<1>7. Cardinality(Running') <= Slots
  BY <1>0, <1>4, Finite
<1> QED BY <1>0, <1>5, <1>6, <1>7 DEF InTime, Waves

LEMMA InTimeStep ==
  ASSUME BatchInv, [BatchNext]_batchVars
  PROVE  InTime'
<1> USE DEF BatchInv
<1>1. CASE ~Gathering'
  BY <1>1 DEF InTime
<1>2. CASE ConnectBatch /\ Gathering'
  <2>1. unit' = [p \in Peers |-> "queued"] /\ clock' = 0
    BY <1>2 DEF ConnectBatch, Gathering, BatchShape, PlacesFit, BatchTypeOK
  <2>2. Started' = {} /\ Running' = {} /\ \A k \in Nat : RunsBeyond(k)' = {}
    BY <2>1 DEF Started, Running, RunsBeyond
  <2>3. LateOnes'
    BY <2>2 DEF LateOnes
  <2>4. NoneIdle'
    BY <2>1, Products DEF NoneIdle
  <2>5. 0 <= Waves * Patience /\ Cardinality({}) = 0 /\ 0 <= Slots
    BY WavesFit, FS_EmptySet, PeerBatchAssumption
  <2> QED BY <2>1, <2>2, <2>3, <2>4, <2>5 DEF InTime, Waves
<1>3. ASSUME NEW p \in Peers, AdmitPeer(p) \/ AnswerPeer(p) \/ RefusePeer(p) \/ TopicsEnd(p)
      PROVE  InTime'
  BY <1>3, AdmitInTime, EndInTime
<1>4. CASE PassTime
  BY <1>4, PassInTime
<1>5. ASSUME UNCHANGED <<batch, unit, left, clock>> PROVE InTime'
  <2>1. /\ Started' = Started /\ Running' = Running /\ clock' = clock
        /\ \A k \in Nat : RunsBeyond(k)' = RunsBeyond(k)
    BY <1>5 DEF Started, Running, RunsBeyond
  <2>2. Gathering' = Gathering
    BY <1>5 DEF Gathering
  <2> QED BY <2>1, <2>2 DEF InTime, LateOnes, NoneIdle, Waves
<1>6. ASSUME NEW p \in Peers, MarkLands(p) PROVE InTime'
  BY <1>5, <1>6 DEF MarkLands
<1>7. CASE UNCHANGED batchVars
  BY <1>5, <1>7 DEF batchVars
<1>8. ASSUME GatherEnds \/ Joined \/ Disconnect \/ BatchReturns \/ CancelBatch
             \/ (\E kind \in {"acknowledge", "snapshot"} : BeginBatch(kind))
             \/ (\E p \in Peers : FutureCancelled(p) \/ JoinPeer(p))
      PROVE  ~Gathering'
  <2>1. DOMAIN batch = {"kind", "at", "report", "heard"}
    BY DEF BatchShape, BatchTypeOK
  <2>2. CASE Joined \/ Disconnect \/ GatherEnds
    BY <2>1, <2>2 DEF Joined, Disconnect, GatherEnds, Gathering
  <2>6. CASE BatchReturns
    BY <2>6 DEF BatchReturns, NoBatch, Gathering
  <2>3. CASE CancelBatch
    BY <2>1, <2>3 DEF CancelBatch, Gathering
  <2>4. CASE \E kind \in {"acknowledge", "snapshot"} : BeginBatch(kind)
    BY <2>4 DEF BeginBatch, NoBatch, Gathering
  <2>5. CASE \E p \in Peers : FutureCancelled(p) \/ JoinPeer(p)
    BY <2>1, <2>5 DEF FutureCancelled, JoinPeer, Gathering
  <2> QED BY <1>8, <2>2, <2>3, <2>4, <2>5, <2>6
<1>9. CASE ConnectBatch
  BY <1>1, <1>2, <1>9
<1> QED BY <1>1, <1>3, <1>4, <1>6, <1>7, <1>8, <1>9 DEF BatchNext, PeerStep

-----------------------------------------------------------------------------
LEMMA BatchInvariance == BatchSpec => []BatchInv
<1>1. BatchInit => BatchInv
  BY BatchShapeInit, InTimeInit DEF BatchInv
<1>2. BatchInv /\ [BatchNext]_batchVars => BatchInv'
  BY BatchShapeStep, InTimeStep DEF BatchInv
<1> QED BY <1>1, <1>2, PTL DEF BatchSpec

(* The state of a batch is well typed.                                     *)
THEOREM BatchTypes == BatchSpec => []BatchTypeOK
<1>1. BatchInv => BatchTypeOK
  BY DEF BatchInv, BatchShape
<1> QED BY <1>1, BatchInvariance, PTL

(* _gather_peer_tasks joins every task before the client disconnects, is   *)
(* over within a deadline for every wave of slots, and reports a mark as   *)
(* made exactly when Telegram answered it.                                 *)
THEOREM EveryBatchIsAccounted == BatchSpec => []BatchIsAccounted
<1>1. BatchInv => BatchIsAccounted
  <2> SUFFICES ASSUME BatchInv PROVE BatchIsAccounted
    OBVIOUS
  <2>1. batch.at \in {"disconnecting", "over"} => AllDone
    BY DEF BatchInv, BatchShape, PlacesFit
  <2>2. Gathering => clock <= Waves * Patience /\ Cardinality(Running) <= Slots
    BY DEF BatchInv, InTime
  <2>3. ASSUME batch.at = "over", batch.report = "results"
        PROVE  /\ pokes = 0
               /\ \A p \in Peers :
                    /\ unit[p] \in {"ok", "failed"}
                    /\ batch.kind = "acknowledge" => (unit[p] = "ok" <=> mark[p] = "answered")
    BY <2>1, <2>3 DEF BatchInv, BatchShape, PlacesFit, MarksFit, AllDone, Unfinished
  <2> QED BY <2>1, <2>2, <2>3 DEF BatchIsAccounted
<1> QED BY <1>1, BatchInvariance, PTL
=============================================================================
