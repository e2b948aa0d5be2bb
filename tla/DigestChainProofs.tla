--------------------------- MODULE DigestChainProofs ---------------------------
(***************************************************************************)
(* Proofs about DigestChain, for every set of chats and every bound.       *)
(***************************************************************************)
EXTENDS DigestChain, TLAPS

-----------------------------------------------------------------------------
(* Type correctness.                                                       *)

(* A cursor vector is a function from some chats to message ids.           *)
LEMMA CursorVector ==
  ASSUME NEW f \in Cursors
  PROVE  /\ DOMAIN f \subseteq Chats
         /\ f = [c \in DOMAIN f |-> f[c]]
         /\ \A c \in DOMAIN f : f[c] \in MessageIds
BY DEF Cursors

LEMMA MakeCursorVector ==
  ASSUME NEW S, S \subseteq Chats, NEW f \in [S -> MessageIds]
  PROVE  f \in Cursors
BY DEF Cursors

LEMMA ZeroIsCursorVector ==
  ASSUME NEW S, S \subseteq Chats
  PROVE  Zero(S) \in Cursors
<1>1. Zero(S) \in [S -> MessageIds]
  BY BoundsAssumption DEF Zero, MessageIds
<1> QED BY <1>1, MakeCursorVector

(* The records that stand for absent files have the type of a present one. *)
LEMMA AbsentRecords == NoAck \in Ack /\ NoUpload \in Upload /\ NoGate \in Gate
<1>1. Zero({}) \in Cursors
  BY ZeroIsCursorVector
<1> QED BY <1>1 DEF NoAck, Ack, NoUpload, Upload, NoGate, Gate

(* The record of an absent upload has no range.                            *)
LEMMA AbsentRanges == WellRanged(NoUpload)
BY DEF WellRanged, NoUpload, Zero

(* Every action keeps every variable's type.                               *)
LEMMA TypeStep == TypeOK /\ [Next]_vars => TypeOK'
<1> SUFFICES ASSUME TypeOK, [Next]_vars PROVE TypeOK'
  OBVIOUS
<1> USE DEF TypeOK
<1>1. CASE NextDay
  BY <1>1, BoundsAssumption DEF NextDay, durable
<1>2. CASE CloseWindow
  BY <1>2 DEF CloseWindow, durable
<1>3. ASSUME NEW c \in Chats, Announce(c) PROVE TypeOK'
  <2> DEFINE cursors == [d \in DOMAIN rx.cursors \cup {c} |->
                           IF d = c THEN 0 ELSE rx.cursors[d]]
  <2>1. rx.cursors \in Cursors
    BY DEF Chain
  <2>2. cursors \in [DOMAIN rx.cursors \cup {c} -> MessageIds]
    BY <2>1, CursorVector, BoundsAssumption DEF MessageIds
  <2>3. cursors \in Cursors
    BY <2>1, <2>2, CursorVector, MakeCursorVector
  <2>4. rx' = [rx EXCEPT !.cursors = cursors]
    BY <1>3 DEF Announce
  <2>5. rx' \in Chain
    BY <2>3, <2>4 DEF Chain
  <2> QED BY <1>3, <2>5 DEF Announce, durable
<1>4. CASE TakeGate
  <2>1. GateSnapshot \in Gate
    BY DEF GateSnapshot, Gate, Chain, Due
  <2> QED BY <1>4, <2>1 DEF TakeGate, durable, receiver, Places
<1>5. CASE NothingStaged
  BY <1>5 DEF NothingStaged, durable, receiver, Places
<1>6. CASE DropStaleLocal
  BY <1>6, AbsentRecords, AbsentRanges DEF DropStaleLocal, receiver
<1>7. ASSUME pending \in Upload PROVE CheckpointOf(pending) \in Ack
  BY <1>7 DEF CheckpointOf, Upload, Ack
<1>8. CASE ConfirmFromGate
  BY <1>7, <1>8 DEF ConfirmFromGate, receiver, Places
<1>9. CASE UnlinkConfirmed
  BY <1>9, AbsentRecords, AbsentRanges DEF UnlinkConfirmed, receiver, Places
<1>10. CASE Replan
  BY <1>10, AbsentRecords, AbsentRanges DEF Replan, receiver, Places
<1>11. ASSUME NEW why \in {"none", "chain", "load", "build"}, EndTick(why)
       PROVE  /\ pc' \in Places /\ g' \in Gate /\ fault' \in {"none", "chain", "load", "build"}
              /\ rx' = rx /\ inflight' = inflight /\ today' = today /\ open' = open /\ built' = built
  BY <1>11, AbsentRecords DEF EndTick, Places, receiver
<1>12. CASE PendingNotDue
  BY <1>11, <1>12 DEF PendingNotDue, durable
<1>13. CASE Resume
  BY <1>13 DEF Resume, durable, receiver, Places
<1>14. CASE NotDue
  BY <1>11, <1>14 DEF NotDue, durable
<1>15. CASE Cooldown
  BY <1>11, <1>15 DEF Cooldown, durable
<1>16. CASE Attempt
  BY <1>16 DEF Attempt, durable, receiver, Places, Gate
<1>17. CASE Refuse
  BY <1>11, <1>17 DEF Refuse, durable
<1>18. CASE Build
  <2>1. PICK to \in [chats -> MessageIds] :
          /\ Fetched(to)
          /\ pending' = [seq |-> g.next, prev |-> g.prev, hash |-> built + 1,
                         date |-> g.date, from |-> g.cursors, to |-> to]
    BY <1>18 DEF Build, CoversLockedChats
  <2>2. to \in Cursors
    BY MakeCursorVector
  <2>3. pending' \in Upload
    BY <2>1, <2>2 DEF Upload, Gate
  <2>4. WellRanged(pending')
    <3>1. DOMAIN g.cursors = chats /\ g.cursors \in Cursors
      BY <1>18 DEF Build, CoversLockedChats, Gate
    <3>2. g.cursors \in [chats -> MessageIds]
      BY <3>1, CursorVector
    <3> QED BY <2>1, <3>1, <3>2, BoundsAssumption DEF Fetched, WellRanged, MessageIds
  <2> QED BY <1>18, <2>3, <2>4 DEF Build, CoversLockedChats, receiver, Places
<1>19. CASE RefuseBuild
  BY <1>11, <1>19 DEF RefuseBuild, durable
<1>20. CASE Land
  BY <1>20, AbsentRecords, AbsentRanges DEF Land, Accepted, Upload, Chain, durable
<1>21. CASE UploadReceipted
  <2>1. rx' \in Chain
    BY <1>21 DEF UploadReceipted, Deliver, Accepted, Upload, Chain
  <2> QED BY <1>21, <2>1 DEF UploadReceipted, durable, Places
<1>22. CASE CutOff
  BY <1>22, AbsentRecords DEF CutOff, durable, Places
<1>23. CASE SaveAck
  BY <1>7, <1>23 DEF SaveAck, receiver, Places
<1>24. CASE UnlinkPending
  BY <1>11, <1>24, AbsentRecords, AbsentRanges DEF UnlinkPending
<1>25. CASE Abort
  BY <1>25, AbsentRecords DEF Abort, durable, receiver, Places
<1>26. CASE CooldownExpires
  BY <1>26 DEF CooldownExpires, durable, receiver
<1>27. CASE Restart
  BY <1>27, AbsentRecords DEF Restart, durable, receiver, Places
<1>28. ASSUME NEW c \in Chats, AcceptChat(c) PROVE TypeOK'
  BY <1>28 DEF AcceptChat, receiver, Places
<1>29. CASE ExtendWatch
  BY <1>29 DEF ExtendWatch, receiver, Places
<1>30. CASE ExtendAck
  <2> DEFINE cursors == [c \in chats |-> IF c \in DOMAIN ack.cursors THEN ack.cursors[c] ELSE 0]
  <2>1. ack.cursors \in Cursors
    BY DEF Ack
  <2>2. cursors \in [chats -> MessageIds]
    BY <2>1, CursorVector, BoundsAssumption DEF MessageIds
  <2>3. cursors \in Cursors
    BY <2>2, MakeCursorVector
  <2>4. ack' = IF ack.seq = 0 THEN ack ELSE [ack EXCEPT !.cursors = cursors]
    BY <1>30 DEF ExtendAck
  <2>5. ack' \in Ack
    BY <2>3, <2>4 DEF Ack
  <2> QED BY <1>30, <2>5 DEF ExtendAck, receiver, Places
<1>31. CASE UNCHANGED vars
  BY <1>31 DEF vars, durable, receiver
<1> QED
  BY <1>1, <1>2, <1>3, <1>4, <1>5, <1>6, <1>8, <1>9, <1>10, <1>12, <1>13, <1>14, <1>15,
     <1>16, <1>17, <1>18, <1>19, <1>20, <1>21, <1>22, <1>23, <1>24, <1>25, <1>26, <1>27, <1>28,
     <1>29, <1>30, <1>31
     DEF Next, Reconcile, Plan, Extend, Environment

(* Every variable always has its type, and both chat sets stay within the  *)
(* chats the receiver may bind.                                            *)
THEOREM DigestTypes == Spec => []TypeOK
<1>1. Init => TypeOK
  <2> SUFFICES ASSUME Init PROVE TypeOK
    OBVIOUS
  <2>1. Zero(Locked) \in Cursors
    BY ChatsAssumption, ZeroIsCursorVector
  <2>2. rx \in Chain
    BY <2>1 DEF Init, Chain
  <2> QED BY <2>2, AbsentRecords, AbsentRanges, ChatsAssumption, BoundsAssumption DEF Init, TypeOK, Places
<1> QED BY <1>1, TypeStep, PTL DEF Spec

-----------------------------------------------------------------------------
(* The checkpoint never runs ahead of the receiver.                        *)

(* A position the receiver's chain has reached, or has left behind.        *)
Reached(next, prev) == next < rx.next \/ (next = rx.next /\ prev = rx.prev)

(* The gate of the running tick and the receipt in hand tell of such a one. *)
GateIsReached ==
  pc \in {"reconcile", "confirmed", "plan", "build"} => Reached(g.next, g.prev)

ReceiptIsReached ==
  pc \in {"settle", "resettle"} => Reached(pending.seq + 1, pending.hash)

ReceiptInv == CheckpointIsReceipted /\ GateIsReached /\ ReceiptIsReached

(* The receiver only ever moves to the next sequence number.               *)
LEMMA ChainGrows ==
  ASSUME TypeOK, \/ Deliver(pending)
                 \/ Land
  PROVE  rx' = rx \/ rx'.next = rx.next + 1
BY DEF TypeOK, Deliver, Land, Accepts, Accepted, IsDuplicate, Chain, Upload

(* Every action keeps the receipt invariant.                               *)
LEMMA ReceiptStep == TypeOK /\ ReceiptInv /\ [Next]_vars => ReceiptInv'
<1> SUFFICES ASSUME TypeOK, ReceiptInv, [Next]_vars PROVE ReceiptInv'
  OBVIOUS
<1> USE DEF ReceiptInv
<1> DEFINE GatedPlaces == {"reconcile", "confirmed", "plan", "build"}
<1>1. ASSUME UNCHANGED ack,
             \/ rx' = rx
             \/ rx'.next = rx.next /\ rx'.prev = rx.prev
             \/ rx'.next = rx.next + 1,
             \/ pc' = pc /\ UNCHANGED <<g, pending>>
             \/ pc' \notin GatedPlaces \cup {"settle", "resettle"}
             \/ pc' \in GatedPlaces /\ pc \in GatedPlaces /\ g' = g
      PROVE  ReceiptInv'
  BY <1>1 DEF CheckpointIsReceipted, GateIsReached, ReceiptIsReached, Reached,
              TypeOK, Ack, Upload, Gate, Chain
<1>2. ASSUME NEW why \in {"none", "chain", "load", "build"}, EndTick(why), UNCHANGED ack
      PROVE  ReceiptInv'
  BY <1>1, <1>2 DEF EndTick, receiver
<1>3. CASE NextDay \/ CloseWindow \/ CooldownExpires
  BY <1>1, <1>3 DEF NextDay, CloseWindow, CooldownExpires, durable, receiver
<1>4. ASSUME NEW c \in Chats, Announce(c) PROVE ReceiptInv'
  BY <1>1, <1>4 DEF Announce, durable, TypeOK, Chain
<1>5. CASE TakeGate
  BY <1>5 DEF TakeGate, GateSnapshot, durable, receiver,
              CheckpointIsReceipted, GateIsReached, ReceiptIsReached, Reached
<1>6. CASE NothingStaged \/ Resume \/ Attempt
  BY <1>1, <1>6 DEF NothingStaged, Resume, Attempt, Reconciling, NotYetAccepted, durable, receiver
<1>7. CASE DropStaleLocal \/ Replan \/ UnlinkConfirmed
  BY <1>1, <1>7 DEF DropStaleLocal, Replan, UnlinkConfirmed, Reconciling, NotYetAccepted, receiver
<1>8. CASE ConfirmFromGate
  <2>1. Reached(pending.seq + 1, pending.hash)
    BY <1>8 DEF ConfirmFromGate, Reconciling, PositionOf, After, GateIsReached
  <2>2. ack'.seq = pending.seq /\ ack'.hash = pending.hash
    BY <1>8 DEF ConfirmFromGate, CheckpointOf
  <2>3. CheckpointIsReceipted'
    BY <1>8, <2>1, <2>2
       DEF ConfirmFromGate, receiver, CheckpointIsReceipted, Reached, TypeOK, Upload, Chain
  <2>4. GateIsReached' /\ ReceiptIsReached'
    BY <1>8 DEF ConfirmFromGate, receiver, Reconciling, GateIsReached, ReceiptIsReached, Reached
  <2> QED BY <2>3, <2>4
<1>9. CASE PendingNotDue \/ NotDue \/ Cooldown \/ Refuse \/ RefuseBuild
  BY <1>2, <1>9 DEF PendingNotDue, NotDue, Cooldown, Refuse, RefuseBuild, durable
<1>10. CASE Build
  BY <1>1, <1>10 DEF Build, CoversLockedChats, receiver
<1>11. CASE Land
  BY <1>1, <1>11, ChainGrows DEF Land, durable
<1>12. CASE UploadReceipted
  <2>1. Deliver(pending) /\ UNCHANGED <<ack, pending>> /\ pc' \in {"settle", "resettle"}
    BY <1>12 DEF UploadReceipted, durable
  <2>2. CheckpointIsReceipted'
    BY <2>1, ChainGrows DEF CheckpointIsReceipted, TypeOK, Ack, Chain
  <2>3. ReceiptIsReached'
    BY <2>1 DEF Deliver, Accepted, IsDuplicate, ReceiptIsReached, Reached, TypeOK, Upload, Chain
  <2> QED BY <2>1, <2>2, <2>3 DEF GateIsReached
<1>13. CASE SaveAck
  <2>1. ack'.seq = pending.seq /\ ack'.hash = pending.hash
    BY <1>13 DEF SaveAck, CheckpointOf
  <2>2. CheckpointIsReceipted'
    BY <1>13, <2>1 DEF SaveAck, receiver, ReceiptIsReached, Reached, CheckpointIsReceipted,
                       TypeOK, Upload, Chain
  <2> QED BY <1>13, <2>2 DEF SaveAck, GateIsReached, ReceiptIsReached
<1>14. CASE UnlinkPending
  BY <1>2, <1>14 DEF UnlinkPending
<1>15. CASE Abort \/ CutOff \/ Restart
  BY <1>1, <1>15 DEF Abort, CutOff, Restart, durable, receiver
<1>16. ASSUME NEW c \in Chats, AcceptChat(c) PROVE ReceiptInv'
  BY <1>1, <1>16 DEF AcceptChat, receiver
<1>17. CASE ExtendWatch
  BY <1>1, <1>17 DEF ExtendWatch, receiver
<1>18. CASE ExtendAck
  <2>1. ack'.seq = ack.seq /\ ack'.hash = ack.hash
    BY <1>18 DEF ExtendAck, TypeOK, Ack
  <2> QED BY <1>18, <2>1 DEF ExtendAck, receiver, CheckpointIsReceipted, GateIsReached, ReceiptIsReached, Reached
<1>19. CASE UNCHANGED vars
  BY <1>1, <1>19 DEF vars, durable, receiver
<1> QED
  BY <1>3, <1>4, <1>5, <1>6, <1>7, <1>8, <1>9, <1>10, <1>11, <1>12, <1>13, <1>14, <1>15, <1>16,
     <1>17, <1>18, <1>19
     DEF Next, Reconcile, Plan, Extend, Environment

(* acknowledged.json only ever names an upload the receiver accepted, and  *)
(* the last one by its right hash: no crash, lost receipt, restart or      *)
(* extension of the chat set makes the guardian believe in an upload that  *)
(* never arrived.                                                          *)
THEOREM DigestCheckpointIsReceipted == Spec => []CheckpointIsReceipted
<1>1. Init => ReceiptInv
  BY DEF Init, NoAck, ReceiptInv, CheckpointIsReceipted, GateIsReached, ReceiptIsReached
<1>2. ReceiptInv => CheckpointIsReceipted
  BY DEF ReceiptInv
<1> QED BY <1>1, <1>2, ReceiptStep, DigestTypes, PTL DEF Spec
-----------------------------------------------------------------------------
(* The checkpoint only moves forward.                                      *)

(* The files stay within the locked chats; no checkpoint names no chat.    *)
CheckpointFits ==
  /\ DOMAIN ack.cursors \subseteq chats
  /\ ack.seq = 0 => ack.date = 0 /\ DOMAIN ack.cursors = {}

(* A staged upload moves every chat forward, and its date is later than    *)
(* the checkpoint's until it is the checkpoint.                            *)
StagedIsAhead ==
  Staged => /\ DOMAIN pending.to \subseteq chats /\ DOMAIN pending.from = DOMAIN pending.to
            /\ \A c \in DOMAIN pending.from : pending.to[c] >= pending.from[c]
            /\ pending.seq > ack.seq => pending.date > ack.date

(* A plan starts from the checkpoint unless the gate names other chats,    *)
(* and what is built from it is dated later.                               *)
PlanContinues ==
  /\ pc \in {"reconcile", "confirmed", "plan", "build"} => g.date > 0
  /\ pc \in {"confirmed", "plan", "build"} /\ DOMAIN g.cursors = chats => PositionOf(g) = Base
  /\ pc = "build" => ack.seq = 0 \/ g.date > ack.date

(* Only an upload that continues the checkpoint is sent and settled.       *)
SentIsLinked == pc \in {"send", "resend", "settle", "resettle"} => Linked(pending)

AdvanceInv == CheckpointFits /\ StagedIsAhead /\ PlanContinues /\ SentIsLinked

(* Nothing the invariant speaks of changes, or the tick only moves on.     *)
LEMMA AdvanceKept ==
  ASSUME AdvanceInv, UNCHANGED <<chats, ack>>,
         pending' = pending \/ pending' = NoUpload,
         \/ pc' = pc /\ g' = g /\ pending' = pending
         \/ pc' \in {"idle", "refused", "extendWatch", "extendAck", "unlink", "reunlink"}
  PROVE  AdvanceInv'
<1>1. Base' = Base
  BY DEF Base, Zero
<1>2. CheckpointFits'
  BY DEF AdvanceInv, CheckpointFits
<1>3. StagedIsAhead'
  <2>1. CASE pending' = pending
    BY <2>1 DEF AdvanceInv, StagedIsAhead, Staged
  <2>2. CASE pending' = NoUpload
    BY <2>2 DEF StagedIsAhead, Staged, NoUpload
  <2> QED BY <2>1, <2>2
<1>4. PlanContinues' /\ SentIsLinked'
  BY <1>1 DEF AdvanceInv, PlanContinues, SentIsLinked, Linked, PositionOf
<1> QED BY <1>2, <1>3, <1>4 DEF AdvanceInv

LEMMA LinkedIsNext ==
  ASSUME TypeOK, CheckpointFits, Linked(pending)
  PROVE  /\ pending.seq = ack.seq + 1 /\ Staged
         /\ ack.seq # 0 => pending.from = ack.cursors
BY DEF TypeOK, Ack, Upload, Linked, Base, Staged

(* Taking a linked staged upload as the checkpoint moves it forward.       *)
LEMMA CheckpointMoves ==
  ASSUME TypeOK, AdvanceInv, Linked(pending), ack' = CheckpointOf(pending),
         UNCHANGED <<chats, pending>>
  PROVE  /\ CheckpointFits' /\ StagedIsAhead'
         /\ ack'.seq > ack.seq /\ ack'.date > ack.date
         /\ \A c \in DOMAIN ack.cursors :
              c \in DOMAIN ack'.cursors /\ ack'.cursors[c] >= ack.cursors[c]
         /\ Base' = After(pending)
<1>1. /\ pending.seq = ack.seq + 1 /\ Staged
      /\ ack.seq # 0 => pending.from = ack.cursors
  BY LinkedIsNext DEF AdvanceInv
<1>2. /\ ack'.seq = pending.seq /\ ack'.hash = pending.hash /\ ack'.date = pending.date
      /\ ack'.cursors = pending.to
  BY DEF CheckpointOf
<1>3. ack.seq \in Nat /\ ack.date \in Nat /\ pending.seq \in Nat /\ pending.date \in Nat
  BY DEF TypeOK, Ack, Upload
<1>4. ack'.seq > ack.seq /\ ack'.date > ack.date
  BY <1>1, <1>2, <1>3 DEF AdvanceInv, StagedIsAhead
<1>5. \A c \in DOMAIN ack.cursors :
         c \in DOMAIN ack'.cursors /\ ack'.cursors[c] >= ack.cursors[c]
  BY <1>1, <1>2 DEF AdvanceInv, StagedIsAhead, CheckpointFits
<1>6. CheckpointFits' /\ StagedIsAhead'
  BY <1>1, <1>2, <1>3 DEF AdvanceInv, StagedIsAhead, CheckpointFits, Staged
<1>7. Base' = After(pending)
  BY <1>1, <1>2, <1>3 DEF Base, After
<1> QED BY <1>4, <1>5, <1>6, <1>7

(* A gate that names the locked chats and is reconciled with nothing       *)
(* staged, or with a staged upload it is not behind, is at the checkpoint. *)
LEMMA GateAtBase ==
  ASSUME TypeOK, ChainOK(g), DOMAIN g.cursors = chats,
         ~Staged \/ (Linked(pending) /\ PositionOf(g) # After(pending))
  PROVE  PositionOf(g) = Base
<1>1. g.cursors = [c \in chats |-> g.cursors[c]]
  BY CursorVector DEF TypeOK, Gate
<1>2. Only(chats, g.cursors) = g.cursors
  BY <1>1 DEF Only
<1>3. SettledPosition(g) = PositionOf(g)
  BY <1>2 DEF SettledPosition, PositionOf
<1> QED BY <1>3 DEF ChainOK, Allowed

LEMMA AdvanceStep == TypeOK /\ AdvanceInv /\ [Next]_vars => AdvanceInv'
<1> SUFFICES ASSUME TypeOK, AdvanceInv, [Next]_vars PROVE AdvanceInv'
  OBVIOUS
<1>1. CASE NextDay \/ CloseWindow \/ CooldownExpires \/ Land \/ UNCHANGED vars
  BY <1>1, AdvanceKept DEF NextDay, CloseWindow, CooldownExpires, Land, durable, receiver, vars
<1>2. ASSUME NEW c \in Chats, Announce(c) PROVE AdvanceInv'
  BY <1>2, AdvanceKept DEF Announce, durable
<1>3. CASE TakeGate
  <2>1. CASE watchChats # chats
    BY <1>3, <2>1, AdvanceKept DEF TakeGate, durable
  <2>2. CASE watchChats = chats
    <3>1. UNCHANGED <<chats, ack, pending>> /\ pc' = "reconcile" /\ g' = GateSnapshot
      BY <1>3, <2>2 DEF TakeGate, durable
    <3>2. g'.date > 0
      BY <3>1, BoundsAssumption DEF GateSnapshot, TypeOK
    <3>3. CheckpointFits' /\ StagedIsAhead'
      BY <3>1 DEF AdvanceInv, CheckpointFits, StagedIsAhead, Staged
    <3> QED BY <3>1, <3>2, <3>3 DEF AdvanceInv, PlanContinues, SentIsLinked
  <2> QED BY <2>1, <2>2
<1>4. CASE NothingStaged
  <2>1. UNCHANGED <<chats, ack, pending, g>> /\ pc' = "plan" /\ pc = "reconcile"
    BY <1>4 DEF NothingStaged, Reconciling, durable
  <2>2. DOMAIN g.cursors = chats => PositionOf(g) = Base
    BY <1>4, GateAtBase DEF NothingStaged, Reconciling
  <2>3. PlanContinues'
    BY <2>1, <2>2 DEF AdvanceInv, PlanContinues, PositionOf, Base, Zero
  <2> QED BY <2>1, <2>3 DEF AdvanceInv, CheckpointFits, StagedIsAhead, Staged, SentIsLinked
<1>5. CASE DropStaleLocal
  <2>1. /\ UNCHANGED <<chats, ack, g, pc>> /\ pc = "reconcile" /\ pending' = NoUpload
    BY <1>5 DEF DropStaleLocal, Reconciling
  <2>2. ~Staged'
    BY <2>1 DEF Staged, NoUpload
  <2> QED BY <2>1, <2>2 DEF AdvanceInv, CheckpointFits, StagedIsAhead, PlanContinues, SentIsLinked
<1>6. CASE ConfirmFromGate
  <2>1. /\ UNCHANGED <<chats, pending, g>> /\ pc = "reconcile" /\ pc' = "confirmed"
        /\ ack' = CheckpointOf(pending) /\ Linked(pending) /\ PositionOf(g) = After(pending)
    BY <1>6 DEF ConfirmFromGate, Reconciling
  <2>2. CheckpointFits' /\ StagedIsAhead' /\ Base' = After(pending)
    BY <2>1, CheckpointMoves
  <2> QED BY <2>1, <2>2 DEF AdvanceInv, PlanContinues, SentIsLinked, PositionOf
<1>7. CASE UnlinkConfirmed
  <2>1. UNCHANGED <<chats, ack, g>> /\ pc = "confirmed" /\ pc' = "plan" /\ pending' = NoUpload
    BY <1>7 DEF UnlinkConfirmed
  <2>2. ~Staged' /\ Base' = Base
    BY <2>1 DEF Staged, NoUpload, Base, Zero
  <2> QED BY <2>1, <2>2
       DEF AdvanceInv, CheckpointFits, StagedIsAhead, PlanContinues, SentIsLinked, PositionOf
<1>8. CASE Replan
  <2>1. UNCHANGED <<chats, ack, g>> /\ pc = "reconcile" /\ pc' = "plan" /\ pending' = NoUpload
    BY <1>8 DEF Replan, NotYetAccepted, Reconciling
  <2>2. DOMAIN g.cursors = chats => PositionOf(g) = Base
    BY <1>8, GateAtBase DEF Replan, NotYetAccepted, Reconciling
  <2>3. ~Staged' /\ Base' = Base
    BY <2>1 DEF Staged, NoUpload, Base, Zero
  <2> QED BY <2>1, <2>2, <2>3
       DEF AdvanceInv, CheckpointFits, StagedIsAhead, PlanContinues, SentIsLinked, PositionOf
<1>9. CASE PendingNotDue \/ NotDue \/ Cooldown \/ Refuse \/ RefuseBuild
  BY <1>9, AdvanceKept DEF PendingNotDue, NotDue, Cooldown, Refuse, RefuseBuild, EndTick, durable
<1>10. CASE Resume
  <2>1. UNCHANGED <<chats, ack, pending, g>> /\ pc' = "resend" /\ Linked(pending)
    BY <1>10 DEF Resume, NotYetAccepted, durable
  <2>2. Linked(pending)'
    BY <2>1 DEF Linked, Base, Zero
  <2> QED BY <2>1, <2>2
       DEF AdvanceInv, CheckpointFits, StagedIsAhead, Staged, PlanContinues, SentIsLinked
<1>11. CASE Attempt
  <2>1. UNCHANGED <<chats, ack, pending, g>> /\ pc = "plan" /\ pc' = "build" /\ ~DateDidNotAdvance
    BY <1>11 DEF Attempt, durable
  <2>2. ack.seq = 0 \/ g.date > ack.date
    BY <2>1 DEF DateDidNotAdvance, TypeOK, Ack, Gate
  <2>3. Base' = Base
    BY <2>1 DEF Base, Zero
  <2> QED BY <2>1, <2>2, <2>3
       DEF AdvanceInv, CheckpointFits, StagedIsAhead, Staged, PlanContinues, SentIsLinked, PositionOf
<1>12. CASE Build
  <2>1. PICK to \in [chats -> MessageIds] :
          /\ Fetched(to)
          /\ pending' = [seq |-> g.next, prev |-> g.prev, hash |-> built + 1,
                         date |-> g.date, from |-> g.cursors, to |-> to]
    BY <1>12 DEF Build, CoversLockedChats
  <2>2. UNCHANGED <<chats, ack, g>> /\ pc = "build" /\ pc' = "send" /\ DOMAIN g.cursors = chats
    BY <1>12 DEF Build, CoversLockedChats
  <2>3. PositionOf(g) = Base /\ (ack.seq = 0 \/ g.date > ack.date) /\ g.date > 0
    BY <2>2 DEF AdvanceInv, PlanContinues
  <2>4. Base' = Base
    BY <2>2 DEF Base, Zero
  <2>5. SentIsLinked'
    BY <2>1, <2>2, <2>3, <2>4 DEF SentIsLinked, Linked, PositionOf
  <2>6. StagedIsAhead'
    BY <2>1, <2>2, <2>3 DEF StagedIsAhead, Staged, Fetched, AdvanceInv, CheckpointFits
  <2> QED BY <2>2, <2>5, <2>6 DEF AdvanceInv, CheckpointFits, PlanContinues
<1>13. CASE UploadReceipted
  <2>1. UNCHANGED <<chats, ack, pending, g>> /\ Linked(pending) /\ pc' \in {"settle", "resettle"}
    BY <1>13 DEF UploadReceipted, Sending, durable, AdvanceInv, SentIsLinked
  <2>2. Linked(pending)'
    BY <2>1 DEF Linked, Base, Zero
  <2> QED BY <2>1, <2>2
       DEF AdvanceInv, CheckpointFits, StagedIsAhead, Staged, PlanContinues, SentIsLinked
<1>14. CASE SaveAck
  <2>1. /\ UNCHANGED <<chats, pending>> /\ pc' \in {"unlink", "reunlink"}
        /\ ack' = CheckpointOf(pending) /\ Linked(pending)
    BY <1>14 DEF SaveAck, AdvanceInv, SentIsLinked
  <2>2. CheckpointFits' /\ StagedIsAhead'
    BY <2>1, CheckpointMoves
  <2> QED BY <2>1, <2>2 DEF AdvanceInv, PlanContinues, SentIsLinked
<1>15. CASE UnlinkPending \/ CutOff \/ Abort \/ Restart
  BY <1>15, AdvanceKept DEF UnlinkPending, EndTick, CutOff, Abort, Restart, durable
<1>16. ASSUME NEW c \in Chats, AcceptChat(c) PROVE AdvanceInv'
  <2>1. /\ UNCHANGED <<ack, pending>> /\ chats \subseteq chats' /\ pc' = "extendWatch"
    BY <1>16 DEF AcceptChat
  <2> QED BY <2>1 DEF AdvanceInv, CheckpointFits, StagedIsAhead, Staged, PlanContinues, SentIsLinked
<1>17. CASE ExtendWatch
  BY <1>17, AdvanceKept DEF ExtendWatch
<1>18. CASE ExtendAck
  <2>1. UNCHANGED <<chats, pending>> /\ pc' = "idle"
    BY <1>18 DEF ExtendAck
  <2>2. /\ ack'.seq = ack.seq /\ ack'.date = ack.date
        /\ ack' = ack \/ (ack.seq # 0 /\ DOMAIN ack'.cursors = chats)
    BY <1>18 DEF ExtendAck, TypeOK, Ack
  <2>3. CheckpointFits' /\ StagedIsAhead'
    BY <2>1, <2>2 DEF AdvanceInv, CheckpointFits, StagedIsAhead, Staged
  <2> QED BY <2>1, <2>3 DEF AdvanceInv, PlanContinues, SentIsLinked
<1> QED
  BY <1>1, <1>2, <1>3, <1>4, <1>5, <1>6, <1>7, <1>8, <1>9, <1>10, <1>11, <1>12, <1>13,
     <1>14, <1>15, <1>16, <1>17, <1>18
     DEF Next, Reconcile, Plan, Extend, Environment

(* One step of the checkpoint.                                             *)
CheckpointMovesOn ==
  /\ ack'.seq >= ack.seq
  /\ ack'.seq > ack.seq => ack'.date > ack.date
  /\ \A c \in DOMAIN ack.cursors :
       c \in DOMAIN ack'.cursors /\ ack'.cursors[c] >= ack.cursors[c]

LEMMA CheckpointStep == TypeOK /\ AdvanceInv /\ [Next]_vars => CheckpointMovesOn
<1> SUFFICES ASSUME TypeOK, AdvanceInv, [Next]_vars PROVE CheckpointMovesOn
  OBVIOUS
<1>0. ack.seq \in Nat /\ ack.date \in Nat /\ \A c \in DOMAIN ack.cursors : ack.cursors[c] \in Nat
  BY BoundsAssumption, CursorVector DEF TypeOK, Ack, MessageIds
<1>1. ASSUME UNCHANGED ack PROVE CheckpointMovesOn
  BY <1>0, <1>1 DEF CheckpointMovesOn
<1>2. ASSUME Linked(pending), ack' = CheckpointOf(pending), UNCHANGED <<chats, pending>>
      PROVE  CheckpointMovesOn
  <2>1. /\ ack'.seq > ack.seq /\ ack'.date > ack.date
        /\ \A c \in DOMAIN ack.cursors :
             c \in DOMAIN ack'.cursors /\ ack'.cursors[c] >= ack.cursors[c]
    BY <1>2, CheckpointMoves
  <2>2. pending.seq \in Nat /\ ack'.seq = pending.seq
    BY <1>2 DEF CheckpointOf, TypeOK, Upload
  <2> QED BY <1>0, <2>1, <2>2 DEF CheckpointMovesOn
<1>3. CASE ConfirmFromGate
  BY <1>2, <1>3 DEF ConfirmFromGate
<1>4. CASE SaveAck
  BY <1>2, <1>4 DEF SaveAck, AdvanceInv, SentIsLinked
<1>5. CASE ExtendAck
  <2>1. CASE ack.seq = 0
    BY <1>1, <1>5, <2>1 DEF ExtendAck
  <2>2. CASE ack.seq # 0
    <3>1. /\ ack'.seq = ack.seq
          /\ ack'.cursors = [c \in chats |-> IF c \in DOMAIN ack.cursors THEN ack.cursors[c] ELSE 0]
      BY <1>5, <2>2 DEF ExtendAck, TypeOK, Ack
    <3>2. DOMAIN ack.cursors \subseteq chats
      BY DEF AdvanceInv, CheckpointFits
    <3> QED BY <1>0, <3>1, <3>2 DEF CheckpointMovesOn
  <2> QED BY <2>1, <2>2
<1>6. CASE NextDay \/ CloseWindow \/ CooldownExpires \/ Land \/ UNCHANGED vars
  BY <1>1, <1>6 DEF NextDay, CloseWindow, CooldownExpires, Land, durable, vars
<1>7. CASE TakeGate \/ NothingStaged \/ DropStaleLocal \/ UnlinkConfirmed \/ Replan \/ Resume
           \/ Attempt \/ Build
  BY <1>1, <1>7 DEF TakeGate, NothingStaged, DropStaleLocal, UnlinkConfirmed, Replan, Resume,
                    Attempt, Build, CoversLockedChats, durable
<1>8. CASE PendingNotDue \/ NotDue \/ Cooldown \/ Refuse \/ RefuseBuild
  BY <1>1, <1>8 DEF PendingNotDue, NotDue, Cooldown, Refuse, RefuseBuild, durable
<1>9. CASE UploadReceipted \/ UnlinkPending \/ CutOff \/ Abort \/ Restart \/ ExtendWatch
  BY <1>1, <1>9 DEF UploadReceipted, UnlinkPending, CutOff, Abort, Restart, ExtendWatch, durable
<1>10. ASSUME NEW c \in Chats, Announce(c) PROVE CheckpointMovesOn
  BY <1>1, <1>10 DEF Announce, durable
<1>11. ASSUME NEW c \in Chats, AcceptChat(c) PROVE CheckpointMovesOn
  BY <1>1, <1>11 DEF AcceptChat
<1> QED
  BY <1>3, <1>4, <1>5, <1>6, <1>7, <1>8, <1>9, <1>10, <1>11
     DEF Next, Reconcile, Plan, Extend, Environment

(* Whatever the operator announces and whenever: every checkpoint is a     *)
(* later one, of a later date, and no chat's cursor in it moves back or is *)
(* dropped, so that no message is digested twice.                          *)
THEOREM DigestCheckpointAdvances == Spec => CheckpointAdvances
<1>1. Init => AdvanceInv
  BY DEF Init, NoAck, NoUpload, NoGate, Zero, Staged, AdvanceInv, CheckpointFits, StagedIsAhead,
         PlanContinues, SentIsLinked
<1> QED
  BY <1>1, AdvanceStep, CheckpointStep, DigestTypes, PTL
     DEF Spec, CheckpointAdvances, CheckpointMovesOn
-----------------------------------------------------------------------------
(* The local and the remote chain agree.                                   *)
(*                                                                         *)
(* The disk and the receiver are in one of four stages, whatever the tick  *)
(* is doing: nothing staged; an upload staged and not accepted; accepted   *)
(* and not checkpointed; checkpointed and not unlinked.                    *)

(* The checkpoint's cursors as the chat set stands now.                    *)
AckCursors == [c \in chats |-> IF c \in DOMAIN ack.cursors THEN ack.cursors[c] ELSE 0]

(* The receiver stands at the checkpoint.                                  *)
AtBase ==
  rx.next = ack.seq + 1 /\ rx.prev = ack.hash /\ Only(chats, rx.cursors) = AckCursors

(* The receiver stands behind the staged upload.                           *)
AtPending ==
  /\ rx.next = pending.seq + 1 /\ rx.prev = pending.hash
  /\ rx.cursors = pending.to /\ rx.date = pending.date

PendingIsNext ==
  pending.seq = ack.seq + 1 /\ pending.prev = ack.hash /\ pending.from = AckCursors

Settled == ~Staged /\ AtBase
Waiting == Staged /\ PendingIsNext /\ AtBase /\ rx.date < pending.date
Arrived == Staged /\ PendingIsNext /\ AtPending
Saved == Staged /\ ack = CheckpointOf(pending) /\ AtPending

Stages ==
  /\ Settled \/ Waiting \/ Arrived \/ Saved
  /\ Staged => /\ DOMAIN rx.cursors = chats
               /\ pending.to \in [chats -> MessageIds]
               /\ pending.date <= today

(* The checkpoint, the chat set and the dates fit together.                *)
AckSound ==
  /\ ack.seq = 0 => ack = NoAck
  /\ DOMAIN ack.cursors \subseteq chats /\ chats \subseteq DOMAIN rx.cursors
  /\ \A c \in DOMAIN rx.cursors \ chats : rx.cursors[c] = 0
  /\ ack.date <= rx.date /\ rx.date <= today

(* Only the staged upload can still land.                                  *)
InflightSound ==
  /\ inflight.seq <= rx.next /\ inflight.date <= today
  /\ inflight.seq = rx.next /\ inflight.date = today => Staged /\ inflight = pending

(* The tick's gate is the receiver's position, or the staged upload landed *)
(* after it was taken.                                                     *)
GateFresh == PositionOf(g) = PositionOf(rx) /\ (g.due <=> rx.date < g.date)

GateOvertaken ==
  /\ Arrived
  /\ g.next = pending.seq /\ g.prev = pending.prev /\ g.cursors = pending.from
  /\ g.due /\ g.date = pending.date

Gated == pc \in {"reconcile", "confirmed", "plan", "build"}

Tick ==
  /\ Gated => g.date <= today /\ (Staged => pending.date <= g.date)
  /\ pc = "reconcile" => GateFresh \/ GateOvertaken
  /\ pc = "confirmed" => Saved /\ GateFresh
  /\ pc \in {"plan", "build"} => ~Staged /\ GateFresh
  /\ pc = "build" => g.due
  /\ pc \in {"send", "resend"} => Waiting \/ Arrived
  /\ pc \in {"settle", "resettle"} => Arrived
  /\ pc \in {"unlink", "reunlink"} => Saved
  /\ pc \in {"extendWatch", "extendAck"} => ~Staged

QuietInv == AckSound /\ Stages /\ InflightSound /\ Tick /\ NoChainBreak
-----------------------------------------------------------------------------
(* What the stages say of the checks _run_digest makes.                    *)

LEMMA SameVector ==
  ASSUME NEW f \in Cursors, NEW h \in Cursors, DOMAIN f = DOMAIN h,
         \A c \in DOMAIN f : f[c] = h[c]
  PROVE  f = h
BY CursorVector

LEMMA AckCursorsType ==
  ASSUME TypeOK
  PROVE  AckCursors \in Cursors /\ AckCursors \in [chats -> MessageIds]
<1>1. ack.cursors \in Cursors
  BY DEF TypeOK, Ack
<1>2. AckCursors \in [chats -> MessageIds]
  BY <1>1, CursorVector, BoundsAssumption DEF AckCursors, MessageIds
<1> QED BY <1>2, MakeCursorVector DEF TypeOK

LEMMA BaseWhenLoaded ==
  ASSUME TypeOK, AckSound, AckLoads
  PROVE  Base = [next |-> ack.seq + 1, prev |-> ack.hash, cursors |-> AckCursors]
<1>1. CASE ack.seq = 0
  <2>1. ack = NoAck
    BY <1>1 DEF AckSound
  <2>2. AckCursors = Zero(chats)
    BY <2>1 DEF NoAck, Zero, AckCursors
  <2> QED BY <1>1, <2>1, <2>2 DEF Base, NoAck
<1>2. CASE ack.seq # 0
  <2>1. DOMAIN ack.cursors = chats /\ ack.cursors \in Cursors
    BY <1>2 DEF AckLoads, TypeOK, Ack
  <2>2. AckCursors = ack.cursors
    BY <2>1, AckCursorsType, SameVector DEF AckCursors
  <2> QED BY <1>2, <2>2 DEF Base
<1> QED BY <1>1, <1>2

(* A vector over exactly the locked chats is not changed by the filter.    *)
LEMMA OnlyLocked ==
  ASSUME NEW f \in Cursors, DOMAIN f = chats
  PROVE  Only(chats, f) = f
<1>1. \A c \in DOMAIN f : f[c] \in MessageIds
  BY CursorVector
<1>2. Only(chats, f) \in [DOMAIN f -> MessageIds] /\ DOMAIN f \subseteq Chats
  BY <1>1, CursorVector DEF Only
<1>3. Only(chats, f) \in Cursors
  BY <1>2, MakeCursorVector
<1> QED BY <1>3, SameVector DEF Only

(* The staged upload is linked to the checkpoint exactly until it is saved. *)
LEMMA LinkedUntilSaved ==
  ASSUME TypeOK, AckSound, AckLoads
  PROVE  /\ PendingIsNext => Linked(pending)
         /\ Saved => ~Linked(pending) /\ StaleLocal(pending)
<1>1. Base = [next |-> ack.seq + 1, prev |-> ack.hash, cursors |-> AckCursors]
  BY BaseWhenLoaded
<1>2. ASSUME PendingIsNext PROVE Linked(pending)
  BY <1>1, <1>2 DEF PendingIsNext, Linked
<1>3. ASSUME Saved PROVE ~Linked(pending) /\ StaleLocal(pending)
  <2>1. /\ ack.seq = pending.seq /\ ack.hash = pending.hash /\ ack.date = pending.date
        /\ ack.cursors = pending.to /\ ack.seq > 0
    BY <1>3 DEF Saved, CheckpointOf, Staged
  <2>2. ~Linked(pending)
    BY <1>1, <2>1 DEF Linked, TypeOK, Upload, Ack
  <2>3. Base = [next |-> ack.seq + 1, prev |-> ack.hash, cursors |-> ack.cursors]
    BY <2>1 DEF Base, TypeOK, Ack
  <2> QED BY <2>1, <2>2, <2>3 DEF StaleLocal, After
<1> QED BY <1>2, <1>3

(* In every stage the receiver's own position passes the check.            *)
LEMMA ReceiverIsAgreed ==
  ASSUME TypeOK, AckSound, Stages, AckLoads
  PROVE  ChainOK(rx)
<1> DEFINE base == [next |-> ack.seq + 1, prev |-> ack.hash, cursors |-> AckCursors]
<1>1. Base = base
  BY BaseWhenLoaded
<1>2. ASSUME AtBase PROVE SettledPosition(rx) \in Allowed
  <2>1. SettledPosition(rx) = base
    BY <1>2 DEF AtBase, SettledPosition, PositionOf
  <2> QED BY <1>1, <2>1 DEF Allowed
<1>3. CASE Settled
  BY <1>2, <1>3 DEF Settled, ChainOK
<1>4. CASE Waiting
  BY <1>2, <1>4, LinkedUntilSaved DEF Waiting, ChainOK
<1>5. CASE Arrived
  <2>1. Linked(pending) /\ PositionOf(rx) = After(pending)
    BY <1>5, LinkedUntilSaved DEF Arrived, AtPending, PositionOf, After
  <2> QED BY <1>5, <2>1 DEF Arrived, ChainOK, Allowed
<1>6. CASE Saved
  <2>1. StaleLocal(pending) /\ PositionOf(rx) = After(pending)
    BY <1>6, LinkedUntilSaved DEF Saved, AtPending, PositionOf, After
  <2>2. PositionOf(rx) = Base
    BY <2>1 DEF StaleLocal
  <2> QED BY <2>1, <2>2 DEF ChainOK, Allowed
<1> QED BY <1>3, <1>4, <1>5, <1>6 DEF Stages

(* The gate of a tick that reconciles passes it too.                       *)
LEMMA GateIsAgreed ==
  ASSUME TypeOK, QuietInv, AckLoads, pc = "reconcile"
  PROVE  ChainOK(g)
<1>1. CASE GateFresh
  <2>1. PositionOf(g) = PositionOf(rx)
    BY <1>1 DEF GateFresh
  <2>2. g.cursors = rx.cursors
    BY <2>1 DEF PositionOf
  <2>3. SettledPosition(g) = SettledPosition(rx)
    BY <2>1, <2>2 DEF SettledPosition
  <2> QED BY <2>1, <2>3, ReceiverIsAgreed DEF QuietInv, ChainOK
<1>2. CASE GateOvertaken
  <2>1. Linked(pending)
    BY <1>2, LinkedUntilSaved DEF GateOvertaken, Arrived, QuietInv
  <2>2. PositionOf(g) = Base
    BY <1>2, <2>1 DEF GateOvertaken, Linked, PositionOf
  <2> QED BY <2>1, <2>2 DEF ChainOK, Allowed
<1> QED BY <1>1, <1>2 DEF QuietInv, Tick
-----------------------------------------------------------------------------
(* Every action keeps QuietInv.                                            *)

(* What a reconciling tick finds tells the stage.                          *)
LEMMA ReconcileTellsStage ==
  ASSUME TypeOK, QuietInv, Reconciling, Staged
  PROVE  /\ ~Linked(pending) => Saved /\ GateFresh
         /\ Linked(pending) /\ PositionOf(g) = After(pending) => Arrived /\ GateFresh
         /\ NotYetAccepted => (Waiting /\ GateFresh) \/ GateOvertaken
         /\ NotYetAccepted => g.due
         /\ NotYetAccepted /\ g.date # pending.date => Waiting /\ GateFresh
<1> USE DEF Reconciling, QuietInv
<1>1. (Waiting \/ Arrived \/ Saved) /\ (GateFresh \/ GateOvertaken) /\ pending.date <= g.date
  BY DEF Stages, Settled, Tick, Gated
<1>2. (Waiting \/ Arrived => Linked(pending)) /\ (Saved => ~Linked(pending))
  BY LinkedUntilSaved DEF Waiting, Arrived
<1>3. GateOvertaken => Arrived /\ PositionOf(g) # After(pending)
  BY DEF GateOvertaken, PositionOf, After, TypeOK, Upload, Gate
<1>4. Waiting /\ GateFresh => PositionOf(g) # After(pending)
  <2> SUFFICES ASSUME Waiting, GateFresh PROVE g.next # pending.seq + 1
    BY DEF PositionOf, After
  <2>1. g.next = rx.next /\ rx.next = pending.seq
    BY DEF Waiting, GateFresh, PositionOf, PendingIsNext, AtBase
  <2> QED BY <2>1 DEF TypeOK, Upload
<1>5. Arrived /\ GateFresh => PositionOf(g) = After(pending)
  BY DEF Arrived, GateFresh, PositionOf, After, AtPending
<1>6. Saved => ~Arrived
  BY <1>2
<1>7. NotYetAccepted => (Waiting /\ GateFresh) \/ GateOvertaken
  BY <1>1, <1>2, <1>5 DEF NotYetAccepted
<1>8. Waiting /\ GateFresh => g.due
  BY <1>1 DEF Waiting, GateFresh, TypeOK, Upload, Gate, Chain
<1> QED BY <1>1, <1>2, <1>3, <1>4, <1>5, <1>6, <1>7, <1>8 DEF GateOvertaken

(* A step that leaves the disk, the receiver and the dates alone.          *)
LEMMA TickOnly ==
  ASSUME TypeOK, QuietInv, UNCHANGED <<durable, receiver>>
  PROVE  /\ AckSound' /\ Stages' /\ InflightSound'
         /\ Staged' = Staged /\ Waiting' = Waiting /\ Arrived' = Arrived /\ Saved' = Saved
         /\ g' = g => GateFresh' = GateFresh /\ GateOvertaken' = GateOvertaken
<1> USE DEF durable, receiver
<1>1. AckCursors' = AckCursors /\ AtBase' = AtBase /\ AtPending' = AtPending
  BY DEF AckCursors, AtBase, AtPending, Only
<1>2. /\ Staged' = Staged /\ Settled' = Settled /\ Waiting' = Waiting
      /\ Arrived' = Arrived /\ Saved' = Saved
  BY <1>1 DEF Staged, PendingIsNext, CheckpointOf, Settled, Waiting, Arrived, Saved
<1>3. AckSound' /\ Stages' /\ InflightSound'
  BY <1>1, <1>2 DEF QuietInv, AckSound, Stages, InflightSound
<1>4. g' = g => GateFresh' = GateFresh /\ GateOvertaken' = GateOvertaken
  BY <1>2 DEF GateFresh, GateOvertaken, PositionOf
<1> QED BY <1>2, <1>3, <1>4

(* A tick that ends, dies or waits for unlocking says nothing of a stage.  *)
LEMMA TickEnds ==
  ASSUME TypeOK, QuietInv, UNCHANGED <<durable, receiver>>,
         pc' \in {"idle", "refused"}, fault' # "chain"
  PROVE  QuietInv'
BY TickOnly DEF QuietInv, Tick, Gated, NoChainBreak
(* Dropping a staged upload that is saved, or can no longer be accepted.   *)
LEMMA Drop ==
  ASSUME TypeOK, QuietInv,
         pending' = NoUpload, UNCHANGED <<chats, watchChats, ack, receiver>>,
         Saved \/ (Waiting /\ pending.date < today)
  PROVE  /\ ~Staged' /\ AckSound' /\ Stages' /\ InflightSound'
         /\ g' = g /\ GateFresh => GateFresh'
<1> USE DEF QuietInv, receiver
<1>1. ~Staged'
  BY DEF Staged, NoUpload
<1>2. AtBase
  <2>1. CASE Waiting
    BY <2>1 DEF Waiting
  <2>2. CASE Saved
    <3>1. /\ ack.seq = pending.seq /\ ack.hash = pending.hash /\ ack.cursors = pending.to
          /\ rx.cursors = pending.to /\ DOMAIN pending.to = chats
      BY <2>2 DEF Saved, CheckpointOf, AtPending, Stages
    <3>2. pending.to \in Cursors
      BY DEF TypeOK, Upload
    <3>3. Only(chats, rx.cursors) = pending.to
      BY <3>1, <3>2, OnlyLocked
    <3>4. AckCursors = pending.to
      BY <3>1, <3>2, AckCursorsType, SameVector DEF AckCursors
    <3> QED BY <2>2, <3>1, <3>3, <3>4 DEF Saved, AtPending, AtBase
  <2> QED BY <2>1, <2>2
<1>3. Settled'
  BY <1>1, <1>2 DEF Settled, AtBase, AckCursors, Only
<1>4. InflightSound'
  BY DEF InflightSound, Saved, Waiting, AtPending, TypeOK, Upload, Chain
<1>5. AckSound' /\ Stages'
  BY <1>1, <1>3 DEF AckSound, Stages
<1>6. g' = g /\ GateFresh => GateFresh'
  BY DEF GateFresh, PositionOf
<1> QED BY <1>1, <1>4, <1>5, <1>6

(* Saving the checkpoint of an upload the receiver has accepted.           *)
LEMMA Save ==
  ASSUME TypeOK, QuietInv, Arrived,
         ack' = CheckpointOf(pending), UNCHANGED <<chats, watchChats, pending, receiver>>
  PROVE  /\ Saved' /\ AckSound' /\ Stages' /\ InflightSound'
         /\ g' = g /\ GateFresh => GateFresh'
<1> USE DEF QuietInv, receiver
<1>1. Saved'
  BY DEF Arrived, Saved, Staged, AtPending, CheckpointOf
<1>2. DOMAIN pending.to = chats /\ DOMAIN rx.cursors = chats /\ pending.seq > 0
      /\ pending.date = rx.date
  BY DEF Stages, Arrived, Staged, AtPending
<1>3. AckSound'
  BY <1>2 DEF AckSound, CheckpointOf, TypeOK, Chain
<1>4. Stages' /\ InflightSound'
  BY <1>1 DEF Stages, InflightSound, Staged
<1>5. g' = g /\ GateFresh => GateFresh'
  BY DEF GateFresh, PositionOf
<1> QED BY <1>1, <1>3, <1>4, <1>5

(* The receiver accepting the staged upload.                               *)
LEMMA Accepting ==
  ASSUME TypeOK, QuietInv, Waiting, pending.date = today,
         rx' = Accepted(pending), inflight' \in {inflight, NoUpload},
         UNCHANGED <<durable, today, open>>
  PROVE  Arrived' /\ AckSound' /\ Stages' /\ InflightSound'
<1> USE DEF QuietInv, durable
<1>1. AckCursors' = AckCursors
  BY DEF AckCursors
<1>2. Arrived'
  BY <1>1 DEF Waiting, Arrived, Staged, PendingIsNext, AtPending, Accepted
<1>3. DOMAIN pending.to = chats /\ rx.date < pending.date
  BY DEF Stages, Waiting
<1>4. AckSound'
  BY <1>3 DEF AckSound, Accepted, TypeOK, Ack, Upload, Chain
<1>5. Stages'
  BY <1>2, <1>3 DEF Stages, Accepted, Staged
<1>6. rx'.next = rx.next + 1
  BY DEF Waiting, PendingIsNext, AtBase, Accepted
<1>7. InflightSound'
  BY <1>6 DEF InflightSound, NoUpload, TypeOK, Upload, Chain
<1> QED BY <1>2, <1>4, <1>5, <1>7

(* An exchange of a tick under way: the staged upload is accepted, or was. *)
LEMMA Exchange ==
  ASSUME TypeOK, QuietInv, UploadReceipted
  PROVE  Arrived' /\ AckSound' /\ Stages' /\ InflightSound'
<1>1. Waiting \/ Arrived
  BY DEF UploadReceipted, Sending, QuietInv, Tick
<1>2. CASE Accepts(pending) /\ rx' = Accepted(pending)
  <2>1. Waiting
    BY <1>1, <1>2 DEF Arrived, AtPending, Accepts, TypeOK, Upload
  <2> QED BY <1>2, <2>1, Accepting DEF Accepts, UploadReceipted
<1>3. CASE IsDuplicate(pending) /\ rx' = rx
  <2>1. Arrived
    BY <1>1, <1>3 DEF IsDuplicate, Waiting, PendingIsNext, AtBase, TypeOK, Upload
  <2> QED BY <1>3, <2>1, TickOnly DEF UploadReceipted, receiver
<1> QED BY <1>2, <1>3 DEF UploadReceipted, Deliver
LEMMA QuietStep ==
  ASSUME QuietOnly
  PROVE  TypeOK /\ QuietInv /\ [Next]_vars => QuietInv'
<1> SUFFICES ASSUME TypeOK, QuietInv, [Next]_vars PROVE QuietInv'
  OBVIOUS
<1> USE DEF Gated
<1>1. CASE NextDay \/ CloseWindow
  <2>1. UNCHANGED <<durable, rx, inflight, pc, g, fault>> /\ today' \in Nat /\ today' >= today
    BY <1>1, BoundsAssumption DEF NextDay, CloseWindow, TypeOK
  <2>2. /\ AckCursors' = AckCursors /\ AtBase' = AtBase /\ AtPending' = AtPending
        /\ Staged' = Staged
    BY <2>1 DEF durable, AckCursors, AtBase, AtPending, Only, Staged
  <2>3. /\ Settled' = Settled /\ Waiting' = Waiting /\ Arrived' = Arrived /\ Saved' = Saved
        /\ GateFresh' = GateFresh
    BY <2>1, <2>2 DEF durable, PendingIsNext, CheckpointOf, Settled, Waiting, Arrived, Saved,
                      GateFresh, PositionOf
  <2>4. AckSound' /\ Stages'
    BY <2>1, <2>2, <2>3, BoundsAssumption
       DEF durable, QuietInv, AckSound, Stages, TypeOK, Chain, Upload
  <2>5. InflightSound'
    BY <1>1, <2>1, <2>2 DEF durable, QuietInv, InflightSound, NextDay, CloseWindow, TypeOK, Upload
  <2>6. Tick'
    BY <2>1, <2>2, <2>3, BoundsAssumption
       DEF durable, QuietInv, Tick, GateOvertaken, TypeOK, Gate
  <2> QED BY <2>1, <2>4, <2>5, <2>6 DEF QuietInv, NoChainBreak
<1>2. ASSUME NEW c \in Chats, Announce(c) PROVE QuietInv'
  <2>1. /\ ~Staged /\ pc = "idle" /\ UNCHANGED <<durable, inflight, today, pc, fault>>
        /\ rx'.next = rx.next /\ rx'.prev = rx.prev /\ rx'.date = rx.date
        /\ c \notin DOMAIN rx.cursors
        /\ rx'.cursors = [d \in DOMAIN rx.cursors \cup {c} |->
                            IF d = c THEN 0 ELSE rx.cursors[d]]
    BY <1>2 DEF Announce, TypeOK, Chain
  <2>2. chats \subseteq DOMAIN rx.cursors
    BY DEF QuietInv, AckSound
  <2>3. Only(chats, rx'.cursors) = Only(chats, rx.cursors)
    BY <2>1, <2>2 DEF Only
  <2>4. ~Staged' /\ Settled'
    BY <2>1, <2>3 DEF durable, QuietInv, Stages, Settled, Waiting, Arrived, Saved, Staged,
                      AtBase, AckCursors, Only
  <2>5. AckSound'
    BY <2>1, <2>2 DEF durable, QuietInv, AckSound
  <2> QED BY <2>1, <2>4, <2>5
       DEF durable, QuietInv, Stages, InflightSound, Tick, NoChainBreak
<1>3. CASE Land
  <2>1. Staged /\ inflight = pending /\ pending.date = today
    BY <1>3 DEF Land, Accepts, QuietInv, InflightSound
  <2>2. Waiting
    BY <1>3, <2>1 DEF Land, Accepts, QuietInv, Stages, Settled, Arrived, Saved, AtPending,
                      TypeOK, Upload
  <2>3. Arrived' /\ AckSound' /\ Stages' /\ InflightSound'
    BY <1>3, <2>1, <2>2, Accepting DEF Land
  <2>4. UNCHANGED <<durable, today, pc, g, fault>>
    BY <1>3 DEF Land
  <2>5. ~Saved /\ ~Arrived
    BY <2>2 DEF Waiting, Saved, Arrived, CheckpointOf, AtPending, PendingIsNext, AtBase,
                TypeOK, Upload
  <2>6. pc = "reconcile" => GateOvertaken'
    <3> SUFFICES ASSUME pc = "reconcile" PROVE GateOvertaken'
      OBVIOUS
    <3>1. GateFresh /\ g.date = pending.date
      BY <2>1, <2>5 DEF QuietInv, Tick, GateOvertaken, TypeOK, Upload, Gate
    <3>2. g.next = rx.next /\ g.prev = rx.prev /\ g.cursors = rx.cursors /\ g.due
      BY <2>2, <3>1 DEF GateFresh, PositionOf, Waiting
    <3>3. pending.seq = rx.next /\ pending.prev = rx.prev /\ pending.from = rx.cursors
      BY <1>3, <2>1 DEF Land, Accepts
    <3> QED BY <2>3, <2>4, <3>1, <3>2, <3>3 DEF durable, GateOvertaken
  <2>7. Tick'
    BY <2>1, <2>3, <2>4, <2>5, <2>6 DEF durable, QuietInv, Tick, Staged
  <2> QED BY <2>3, <2>4, <2>7 DEF QuietInv, NoChainBreak
<1>4. CASE TakeGate
  <2>1. CASE watchChats # chats
    BY <1>4, <2>1, TickEnds DEF TakeGate
  <2>2. CASE watchChats = chats
    <3>1. /\ UNCHANGED <<durable, receiver>> /\ pc' = "reconcile" /\ g' = GateSnapshot /\ open
          /\ fault' = "none"
      BY <1>4, <2>2 DEF TakeGate
    <3>2. GateFresh' /\ g'.date = today'
      BY <3>1 DEF receiver, GateSnapshot, Due, GateFresh, PositionOf
    <3>3. Stages' /\ AckSound' /\ InflightSound'
      BY <3>1, TickOnly
    <3>4. Tick'
      BY <3>1, <3>2, <3>3, BoundsAssumption DEF receiver, Tick, Stages, TypeOK
    <3> QED BY <3>1, <3>3, <3>4 DEF QuietInv, NoChainBreak
  <2> QED BY <2>1, <2>2
<1>5. CASE NothingStaged \/ Attempt
  <2>1. /\ UNCHANGED <<durable, receiver, g, fault>> /\ ~Staged /\ pc' \in {"plan", "build"}
        /\ GateFresh /\ g.date <= today /\ (pc' = "build" => g.due)
    BY <1>5 DEF NothingStaged, Attempt, Reconciling, QuietInv, Tick, GateOvertaken, Arrived
  <2>2. Tick'
    BY <2>1, TickOnly DEF receiver, Tick
  <2> QED BY <2>1, <2>2, TickOnly DEF QuietInv, NoChainBreak
<1>6. CASE DropStaleLocal
  <2>1. /\ Saved /\ GateFresh /\ pending' = NoUpload
        /\ UNCHANGED <<chats, watchChats, ack, receiver, pc, g, fault>> /\ pc = "reconcile"
    BY <1>6, ReconcileTellsStage DEF DropStaleLocal, Reconciling
  <2>2. ~Staged' /\ AckSound' /\ Stages' /\ InflightSound' /\ GateFresh'
    BY <2>1, Drop
  <2> QED BY <2>1, <2>2 DEF receiver, QuietInv, Tick, NoChainBreak
<1>7. CASE ConfirmFromGate
  <2>1. /\ Arrived /\ GateFresh /\ ack' = CheckpointOf(pending) /\ pc' = "confirmed"
        /\ UNCHANGED <<chats, watchChats, pending, receiver, g, fault>> /\ pc = "reconcile"
    BY <1>7, ReconcileTellsStage DEF ConfirmFromGate, Reconciling
  <2>2. Saved' /\ AckSound' /\ Stages' /\ InflightSound' /\ GateFresh'
    BY <2>1, Save
  <2> QED BY <2>1, <2>2 DEF receiver, QuietInv, Tick, NoChainBreak, Staged
<1>8. CASE UnlinkConfirmed
  <2>1. /\ Saved /\ GateFresh /\ pending' = NoUpload /\ pc' = "plan"
        /\ UNCHANGED <<chats, watchChats, ack, receiver, g, fault>> /\ pc = "confirmed"
    BY <1>8 DEF UnlinkConfirmed, QuietInv, Tick
  <2>2. ~Staged' /\ AckSound' /\ Stages' /\ InflightSound' /\ GateFresh'
    BY <2>1, Drop
  <2> QED BY <2>1, <2>2 DEF receiver, QuietInv, Tick, NoChainBreak
<1>9. CASE Replan
  <2>1. /\ Waiting /\ GateFresh /\ pending' = NoUpload /\ pc' = "plan"
        /\ UNCHANGED <<chats, watchChats, ack, receiver, g, fault>> /\ pc = "reconcile"
        /\ g.date # pending.date /\ Staged
    BY <1>9, ReconcileTellsStage DEF Replan, NotYetAccepted, Reconciling
  <2>2. pending.date < today
    BY <2>1 DEF NotYetAccepted, Reconciling, QuietInv, Tick, TypeOK, Upload, Gate
  <2>3. ~Staged' /\ AckSound' /\ Stages' /\ InflightSound' /\ GateFresh'
    BY <2>1, <2>2, Drop
  <2> QED BY <2>1, <2>3 DEF receiver, QuietInv, Tick, NoChainBreak
<1>10. CASE PendingNotDue \/ NotDue \/ Cooldown \/ RefuseBuild
  BY <1>10, TickEnds DEF PendingNotDue, NotDue, Cooldown, RefuseBuild, EndTick, receiver
<1>11. CASE Resume
  <2>1. (Waiting \/ Arrived) /\ UNCHANGED <<durable, receiver, g, fault>> /\ pc' = "resend"
    BY <1>11, ReconcileTellsStage DEF Resume, NotYetAccepted, GateOvertaken
  <2> QED BY <2>1, TickOnly DEF QuietInv, Tick, NoChainBreak
<1>12. CASE Refuse
  <2>1. ~AckLoads
    <3> SUFFICES ASSUME AckLoads PROVE FALSE
      OBVIOUS
    <3>1. ~PlanMismatch
      BY ReconcileTellsStage DEF PlanMismatch, NotYetAccepted
    <3>2. ~(pc = "plan" /\ g.due /\ DateDidNotAdvance)
      BY DEF QuietInv, Tick, GateFresh, AckSound, DateDidNotAdvance, TypeOK, Ack, Chain, Gate
    <3> QED BY <1>12, <3>1, <3>2, GateIsAgreed DEF Refuse, ChainBreaks
  <2> QED BY <1>12, <2>1, TickEnds DEF Refuse, EndTick, receiver
<1>13. CASE Build
  <2>1. PICK to \in [chats -> MessageIds] :
          pending' = [seq |-> g.next, prev |-> g.prev, hash |-> built + 1,
                      date |-> g.date, from |-> g.cursors, to |-> to]
    BY <1>13 DEF Build, CoversLockedChats
  <2>2. /\ UNCHANGED <<chats, watchChats, ack, receiver, fault>> /\ pc' = "send"
        /\ DOMAIN g.cursors = chats
    BY <1>13 DEF Build, CoversLockedChats
  <2>3. /\ ~Staged /\ AtBase /\ g.due /\ g.date <= today
        /\ g.next = rx.next /\ g.prev = rx.prev /\ g.cursors = rx.cursors
        /\ rx.date < g.date
    BY <1>13 DEF Build, CoversLockedChats, QuietInv, Tick, Stages, Settled, Waiting, Arrived, Saved,
                 GateFresh, PositionOf
  <2>4. g.cursors = AckCursors
    BY <2>2, <2>3, OnlyLocked DEF AtBase, TypeOK, Chain
  <2>5. Staged' /\ PendingIsNext' /\ AtBase'
    BY <2>1, <2>2, <2>3, <2>4
       DEF receiver, Staged, PendingIsNext, AtBase, AckCursors, Only, TypeOK, Ack
  <2>6. Waiting'
    BY <2>1, <2>2, <2>3, <2>5 DEF receiver, Waiting
  <2>7. Stages' /\ AckSound'
    BY <2>1, <2>2, <2>3, <2>6 DEF receiver, QuietInv, Stages, AckSound
  <2>8. InflightSound'
    BY <2>2, <2>3 DEF receiver, QuietInv, InflightSound
  <2> QED BY <2>2, <2>6, <2>7, <2>8 DEF QuietInv, Tick, NoChainBreak
<1>14. CASE UploadReceipted
  <2>1. Arrived' /\ AckSound' /\ Stages' /\ InflightSound'
    BY <1>14, Exchange
  <2>2. pc' \in {"settle", "resettle"} /\ fault' = fault
    BY <1>14 DEF UploadReceipted
  <2> QED BY <2>1, <2>2 DEF QuietInv, Tick, NoChainBreak
<1>15. CASE CutOff
  <2>1. (Waiting \/ Arrived) /\ Staged
    BY <1>15 DEF CutOff, Sending, QuietInv, Tick, Waiting, Arrived
  <2>2. UNCHANGED <<durable, rx, today, fault>> /\ inflight' = pending /\ pc' = "idle"
    BY <1>15 DEF CutOff
  <2>3. /\ AckCursors' = AckCursors /\ AtBase' = AtBase /\ AtPending' = AtPending
        /\ Staged' = Staged
    BY <2>2 DEF durable, AckCursors, AtBase, AtPending, Only, Staged
  <2>4. AckSound' /\ Stages'
    BY <2>2, <2>3 DEF durable, QuietInv, AckSound, Stages, PendingIsNext, CheckpointOf,
                      Settled, Waiting, Arrived, Saved
  <2>5. pending.seq <= rx.next /\ pending.date <= today
    BY <2>1 DEF QuietInv, Stages, Waiting, Arrived, PendingIsNext, AtBase, AtPending,
                TypeOK, Upload, Chain
  <2>6. InflightSound'
    BY <2>1, <2>2, <2>3, <2>5 DEF durable, InflightSound
  <2> QED BY <2>2, <2>4, <2>6 DEF QuietInv, Tick, NoChainBreak
<1>16. CASE SaveAck
  <2>1. /\ Arrived /\ ack' = CheckpointOf(pending) /\ pc' \in {"unlink", "reunlink"}
        /\ UNCHANGED <<chats, watchChats, pending, receiver, fault>>
    BY <1>16 DEF SaveAck, QuietInv, Tick
  <2> QED BY <2>1, Save DEF QuietInv, Tick, NoChainBreak
<1>17. CASE UnlinkPending
  <2>1. /\ Saved /\ pending' = NoUpload /\ pc' = "idle" /\ fault' = "none"
        /\ UNCHANGED <<chats, watchChats, ack, receiver>>
    BY <1>17 DEF UnlinkPending, EndTick, QuietInv, Tick
  <2> QED BY <2>1, Drop DEF QuietInv, Tick, NoChainBreak
<1>18. CASE Abort \/ Restart
  BY <1>18, TickEnds DEF Abort, Restart, QuietInv, NoChainBreak
<1>19. CASE CooldownExpires \/ UNCHANGED vars
  <2>1. UNCHANGED <<durable, receiver, pc, g, fault>>
    BY <1>19 DEF CooldownExpires, vars
  <2> QED BY <2>1, TickOnly DEF receiver, durable, QuietInv, Tick, NoChainBreak
<1>20. ASSUME NEW c \in Chats, AcceptChat(c) PROVE QuietInv'
  <2>1. /\ chats' = chats \cup {c} /\ pc' = "extendWatch" /\ pc = "idle"
        /\ UNCHANGED <<ack, pending, receiver, g, fault>>
        /\ c \in DOMAIN rx.cursors /\ c \notin chats
    BY <1>20 DEF AcceptChat
  <2>2. ~Staged /\ AtBase
    BY <2>1 DEF QuietInv, Stages, Settled, Waiting, Arrived, Saved
  <2>3. c \notin DOMAIN ack.cursors /\ rx.cursors[c] = 0 /\ chats \subseteq DOMAIN rx.cursors
    BY <2>1 DEF QuietInv, AckSound
  <2>4. \A d \in chats : rx.cursors[d] = AckCursors[d]
    BY <2>2, <2>3 DEF AtBase, Only
  <2>5. Only(chats, rx.cursors)' = AckCursors'
    BY <2>1, <2>3, <2>4 DEF receiver, Only, AckCursors
  <2>6. ~Staged' /\ Settled'
    BY <2>1, <2>2, <2>5 DEF receiver, Settled, AtBase, Staged
  <2>7. AckSound'
    BY <2>1, <2>3 DEF receiver, QuietInv, AckSound
  <2> QED BY <2>1, <2>2, <2>6, <2>7
       DEF receiver, QuietInv, Stages, InflightSound, Tick, NoChainBreak
<1>21. CASE ExtendWatch
  <2>1. /\ UNCHANGED <<chats, ack, pending, receiver, g, fault>> /\ pc' = "extendAck" /\ ~Staged
    BY <1>21 DEF ExtendWatch, QuietInv, Tick
  <2>2. ~Staged' /\ Settled'
    BY <2>1 DEF receiver, QuietInv, Stages, Settled, Waiting, Arrived, Saved, Staged,
                AtBase, AckCursors, Only
  <2> QED BY <2>1, <2>2 DEF receiver, QuietInv, AckSound, Stages, InflightSound, Tick, NoChainBreak
<1>22. CASE ExtendAck
  <2>1. /\ UNCHANGED <<chats, pending, receiver, g, fault>> /\ pc' = "idle" /\ ~Staged
        /\ ack' = IF ack.seq = 0 THEN ack ELSE [ack EXCEPT !.cursors = AckCursors]
    BY <1>22 DEF ExtendAck, AckCursors, QuietInv, Tick
  <2>2. /\ ack'.seq = ack.seq /\ ack'.hash = ack.hash /\ ack'.date = ack.date
        /\ ack' = ack \/ (ack.seq # 0 /\ ack'.cursors = AckCursors)
    BY <2>1 DEF TypeOK, Ack
  <2>3. DOMAIN ack'.cursors \subseteq chats
    BY <2>2 DEF AckCursors, QuietInv, AckSound
  <2>4. AckCursors' = AckCursors
    BY <2>1, <2>2 DEF AckCursors
  <2>5. ~Staged' /\ Settled'
    BY <2>1, <2>2, <2>4 DEF receiver, QuietInv, Stages, Settled, Waiting, Arrived, Saved, Staged,
                            AtBase, Only
  <2>6. AckSound'
    BY <2>1, <2>2, <2>3 DEF receiver, QuietInv, AckSound
  <2> QED BY <2>1, <2>5, <2>6 DEF receiver, QuietInv, Stages, InflightSound, Tick, NoChainBreak
<1> QED
  BY <1>1, <1>2, <1>3, <1>4, <1>5, <1>6, <1>7, <1>8, <1>9, <1>10, <1>11, <1>12, <1>13,
     <1>14, <1>15, <1>16, <1>17, <1>18, <1>19, <1>20, <1>21, <1>22
     DEF Next, Reconcile, Plan, Extend, Environment

LEMMA QuietInit == Init => QuietInv
<1> SUFFICES ASSUME Init PROVE QuietInv
  OBVIOUS
<1>1. ~Staged /\ DOMAIN NoAck.cursors = {} /\ DOMAIN Zero(Locked) = Locked
  BY DEF Init, Staged, NoUpload, NoAck, Zero
<1>2. Only(chats, rx.cursors) = AckCursors
  BY <1>1 DEF Init, Only, Zero, AckCursors
<1>3. Stages
  BY <1>1, <1>2 DEF Init, Stages, Settled, AtBase, NoAck
<1>4. AckSound
  BY <1>1 DEF Init, AckSound, NoAck
<1>5. InflightSound /\ Tick
  BY <1>1 DEF Init, InflightSound, NoUpload, Tick, Gated
<1> QED BY <1>3, <1>4, <1>5 DEF Init, QuietInv, NoChainBreak

(* As long as the operator announces a chat only while no digest is        *)
(* staged: after any sequence of lost, delayed and duplicated exchanges,   *)
(* cancellations, crashes between two writes, restarts and extensions, the *)
(* next gate can be reconciled with the files on disk ...                  *)
THEOREM DigestAgreement ==
  ASSUME QuietOnly
  PROVE  Spec => []ChainAgreement
<1>1. TypeOK /\ QuietInv => ChainAgreement
  BY ReceiverIsAgreed DEF QuietInv, ChainAgreement, FilesLoad
<1> QED BY <1>1, QuietInit, QuietStep, DigestTypes, PTL DEF Spec

(* ... and _run_digest never raises ReceiverChainError.                    *)
THEOREM DigestNeverBreaks ==
  ASSUME QuietOnly
  PROVE  Spec => []NoChainBreak
<1>1. QuietInv => NoChainBreak
  BY DEF QuietInv
<1> QED BY <1>1, QuietInit, QuietStep, DigestTypes, PTL DEF Spec
-----------------------------------------------------------------------------
(* No accepted upload is discarded before its checkpoint.                  *)

Discards == Staged /\ pending'.seq = 0
Checkpointed == ack.hash = pending.hash
NotAccepted == rx.prev # pending.hash

LEMMA DiscardStep ==
  ASSUME TypeOK, QuietInv, [Next]_vars, Discards
  PROVE  Checkpointed \/ NotAccepted
<1>1. ASSUME UNCHANGED pending PROVE FALSE
  BY <1>1 DEF Discards, Staged
<1>2. ASSUME Saved PROVE Checkpointed
  BY <1>2 DEF Saved, CheckpointOf, Checkpointed
<1>3. CASE DropStaleLocal
  BY <1>2, <1>3, ReconcileTellsStage DEF DropStaleLocal, Reconciling
<1>4. CASE UnlinkConfirmed \/ UnlinkPending
  BY <1>2, <1>4 DEF UnlinkConfirmed, UnlinkPending, QuietInv, Tick
<1>5. CASE Replan
  <2>1. Waiting
    BY <1>5, ReconcileTellsStage DEF Replan, NotYetAccepted
  <2> QED BY <2>1 DEF Waiting, AtBase, Checkpointed, NotAccepted
<1>6. CASE Build
  BY <1>6 DEF Build, CoversLockedChats, QuietInv, Tick, Discards
<1>7. CASE NextDay \/ CloseWindow \/ CooldownExpires \/ Land \/ TakeGate \/ NothingStaged
           \/ ConfirmFromGate \/ Resume \/ Attempt \/ UNCHANGED vars
  BY <1>1, <1>7 DEF NextDay, CloseWindow, CooldownExpires, Land, TakeGate, NothingStaged,
                    ConfirmFromGate, Resume, Attempt, durable, vars
<1>8. CASE PendingNotDue \/ NotDue \/ Cooldown \/ Refuse \/ RefuseBuild
  BY <1>1, <1>8 DEF PendingNotDue, NotDue, Cooldown, Refuse, RefuseBuild, durable
<1>9. CASE UploadReceipted \/ SaveAck \/ CutOff \/ Abort \/ Restart \/ ExtendWatch \/ ExtendAck
  BY <1>1, <1>9 DEF UploadReceipted, SaveAck, CutOff, Abort, Restart, ExtendWatch, ExtendAck, durable
<1>10. ASSUME NEW c \in Chats, Announce(c) PROVE Checkpointed \/ NotAccepted
  BY <1>1, <1>10 DEF Announce, durable
<1>11. ASSUME NEW c \in Chats, AcceptChat(c) PROVE Checkpointed \/ NotAccepted
  BY <1>1, <1>11 DEF AcceptChat
<1> QED
  BY <1>3, <1>4, <1>5, <1>6, <1>7, <1>8, <1>9, <1>10, <1>11
     DEF Next, Reconcile, Plan, Extend, Environment

(* Under the same condition: a staged upload that leaves the disk is the   *)
(* checkpoint already, or one the receiver has not accepted; so no crash   *)
(* and no change of date loses an issue that was delivered.                *)
THEOREM DigestKeepsAccepted ==
  ASSUME QuietOnly
  PROVE  Spec => AcceptedIsNeverDiscarded
<1>1. TypeOK /\ QuietInv /\ [Next]_vars => (Discards => Checkpointed \/ NotAccepted)
  BY DiscardStep
<1> QED
  BY <1>1, QuietInit, QuietStep, DigestTypes, PTL
     DEF Spec, AcceptedIsNeverDiscarded, Discards, Checkpointed, NotAccepted
-----------------------------------------------------------------------------
(* The digest implements the receipted stream.                             *)

LEMMA StreamStep ==
  ASSUME TypeOK, QuietInv, [Next]_vars
  PROVE  [Stream!Next]_(Stream!vars)
<1> USE DEF Stream!Next, Stream!Accept, Stream!Settle, Stream!vars
<1>1. ASSUME rx'.next = rx.next, ack'.seq = ack.seq PROVE [Stream!Next]_(Stream!vars)
  BY <1>1
<1>2. ASSUME Waiting, rx' = Accepted(pending), UNCHANGED ack
      PROVE  [Stream!Next]_(Stream!vars)
  BY <1>2 DEF Waiting, PendingIsNext, AtBase, Accepted, TypeOK, Ack, Chain
<1>3. ASSUME Arrived, ack' = CheckpointOf(pending), UNCHANGED rx
      PROVE  [Stream!Next]_(Stream!vars)
  BY <1>3 DEF Arrived, PendingIsNext, AtPending, CheckpointOf, TypeOK, Ack, Chain
<1>4. CASE Land
  <2>1. Waiting
    BY <1>4 DEF Land, Accepts, QuietInv, InflightSound, Stages, Settled, Arrived, Saved,
                AtPending, TypeOK, Upload
  <2>2. inflight = pending
    BY <1>4 DEF Land, Accepts, QuietInv, InflightSound
  <2> QED BY <1>2, <1>4, <2>1, <2>2 DEF Land, durable
<1>5. CASE UploadReceipted
  <2>1. Waiting \/ Arrived
    BY <1>5 DEF UploadReceipted, Sending, QuietInv, Tick
  <2>2. Accepts(pending) => Waiting
    BY <2>1 DEF Arrived, AtPending, Accepts, TypeOK, Upload
  <2> QED BY <1>1, <1>2, <1>5, <2>2 DEF UploadReceipted, Deliver, durable
<1>6. CASE ConfirmFromGate
  BY <1>3, <1>6, ReconcileTellsStage DEF ConfirmFromGate, Reconciling, receiver
<1>7. CASE SaveAck
  BY <1>3, <1>7 DEF SaveAck, QuietInv, Tick, receiver
<1>8. CASE ExtendAck
  BY <1>1, <1>8 DEF ExtendAck, receiver, TypeOK, Ack
<1>9. ASSUME NEW c \in Chats, Announce(c) PROVE [Stream!Next]_(Stream!vars)
  BY <1>1, <1>9 DEF Announce, durable, TypeOK, Chain
<1>10. CASE NextDay \/ CloseWindow \/ TakeGate \/ NothingStaged \/ Resume \/ Attempt \/ CutOff
            \/ Abort \/ CooldownExpires \/ Restart
  BY <1>1, <1>10 DEF NextDay, CloseWindow, TakeGate, NothingStaged, Resume, Attempt, CutOff,
                     Abort, CooldownExpires, Restart, durable, receiver
<1>11. CASE DropStaleLocal \/ UnlinkConfirmed \/ Replan \/ Build \/ ExtendWatch
  BY <1>1, <1>11 DEF DropStaleLocal, UnlinkConfirmed, Replan, Build, CoversLockedChats,
                     ExtendWatch, receiver
<1>12. CASE PendingNotDue \/ NotDue \/ Cooldown \/ Refuse \/ RefuseBuild \/ UnlinkPending
  BY <1>1, <1>12 DEF PendingNotDue, NotDue, Cooldown, Refuse, RefuseBuild, UnlinkPending,
                     EndTick, durable, receiver
<1>13. ASSUME NEW c \in Chats, AcceptChat(c) PROVE [Stream!Next]_(Stream!vars)
  BY <1>1, <1>13 DEF AcceptChat, receiver
<1>14. CASE UNCHANGED vars
  BY <1>1, <1>14 DEF vars, durable, receiver
<1> QED
  BY <1>4, <1>5, <1>6, <1>7, <1>8, <1>9, <1>10, <1>11, <1>12, <1>13, <1>14
     DEF Next, Reconcile, Plan, Extend, Environment

(* Under the same condition: the receiver accepts one digest at a time,    *)
(* each one only after the guardian has settled the one before, and the    *)
(* guardian settles it exactly once.                                       *)
THEOREM DigestImplementsStream ==
  ASSUME QuietOnly
  PROVE  Spec => StreamSpec
<1>1. Init => Stream!Init
  BY DEF Init, NoAck, Stream!Init
<1> QED BY <1>1, QuietInit, QuietStep, StreamStep, DigestTypes, PTL DEF Spec, StreamSpec, Stream!Spec
=============================================================================
