--------------------------- MODULE MonitorChainProofs ---------------------------
(***************************************************************************)
(* Proofs about MonitorChain, for every set of chats and every bound.      *)
(***************************************************************************)
EXTENDS MonitorChain, TLAPS

-----------------------------------------------------------------------------
(* What the steps leave alone.                                             *)

(* The watch state and the locked chats change in six places.              *)
LEMMA WatchFrame ==
  ASSUME [Next]_vars
  PROVE  \/ UNCHANGED <<watch, chats>>
         \/ Activate \/ (\E c \in Chats : AcceptChat(c))
         \/ ApplyPayload \/ MorningTops \/ SaveReads \/ FinishReads
BY DEF Next, vars, durable, Administer, TakeGate, SettleStaged, NothingStaged, ResumeAccepted,
       DropMentions, ResumeUpload, Regate, Dispatch, BuildBaseline, BuildExtension, ServiceDone,
       BaselineReads, Refuse, UploadReceipted, UnlinkPending, Reads, SendReads, NothingUnread,
       Environment, Announce, Land, CutOff, Abort, SnapshotTimeout, Crash

(* A payload is staged, dropped or unlinked in four.                       *)
LEMMA PendingFrame ==
  ASSUME [Next]_vars
  PROVE  \/ UNCHANGED pending
         \/ BuildBaseline \/ BuildExtension \/ DropMentions \/ UnlinkPending
BY DEF Next, vars, durable, Administer, Activate, AcceptChat, TakeGate, SettleStaged,
       NothingStaged, ResumeAccepted, ResumeUpload, Regate, Dispatch, ServiceDone, BaselineReads,
       Refuse, UploadReceipted, ApplyPayload, Reads, MorningTops, SendReads, SaveReads,
       NothingUnread, FinishReads, Environment, Announce, Land, CutOff, Abort, SnapshotTimeout,
       Crash

(* The receiver moves when it hears of a chat or accepts a payload.        *)
LEMMA ReceiverFrame ==
  ASSUME [Next]_vars
  PROVE  \/ UNCHANGED <<rx, inflight>>
         \/ (\E c \in Chats : Announce(c)) \/ Land \/ UploadReceipted \/ CutOff
BY DEF Next, vars, outside, Administer, Activate, AcceptChat, TakeGate, SettleStaged,
       NothingStaged, ResumeAccepted, DropMentions, ResumeUpload, Regate, Dispatch, BuildBaseline,
       BuildExtension, ServiceDone, BaselineReads, Refuse, EndTick, ApplyPayload, UnlinkPending,
       Reads, MorningTops, SendReads, SaveReads, NothingUnread, FinishReads, Environment, Abort,
       SnapshotTimeout, Crash

-----------------------------------------------------------------------------
(* Type correctness.                                                       *)

(* A cursor vector is a function from some chats to message ids.           *)
LEMMA CursorVector ==
  ASSUME NEW f \in Cursors
  PROVE  /\ DOMAIN f \subseteq Chats
         /\ f = [c \in DOMAIN f |-> f[c]]
         /\ \A c \in DOMAIN f : f[c] \in MessageIds
BY DEF Cursors

LEMMA MakeCursorVector ==
  ASSUME NEW S, S \subseteq Chats, NEW f \in [S -> MessageIds]
  PROVE  f \in Cursors
BY DEF Cursors

LEMMA ZeroIsAnId == 0 \in MessageIds
BY BoundsAssumption DEF MessageIds

LEMMA ZeroIsCursorVector ==
  ASSUME NEW S, S \subseteq Chats
  PROVE  Zero(S) \in Cursors
<1>1. Zero(S) \in [S -> MessageIds]
  BY ZeroIsAnId DEF Zero
<1> QED BY <1>1, MakeCursorVector

LEMMA WithIsCursorVector ==
  ASSUME NEW f \in Cursors, NEW c \in Chats
  PROVE  /\ With(DOMAIN f, c, f) \in Cursors
         /\ DOMAIN With(DOMAIN f, c, f) = DOMAIN f \cup {c}
<1>1. With(DOMAIN f, c, f) \in [DOMAIN f \cup {c} -> MessageIds]
  BY CursorVector, ZeroIsAnId DEF With
<1> QED BY <1>1, CursorVector, MakeCursorVector

LEMMA OverrideIsCursorVector ==
  ASSUME NEW f \in Cursors, NEW moved \in Cursors
  PROVE  /\ Override(f, moved) \in Cursors
         /\ DOMAIN Override(f, moved) = DOMAIN f
<1>1. Override(f, moved) \in [DOMAIN f -> MessageIds]
  BY CursorVector DEF Override
<1> QED BY <1>1, CursorVector, MakeCursorVector

(* The records that stand for absent files and gates have their types.     *)
LEMMA AbsentRecords == NoUpload \in Upload /\ NoGate \in Position
<1>1. Zero({}) \in Cursors
  BY ZeroIsCursorVector
<1> QED BY <1>1 DEF NoUpload, NoGate, Upload, Position, Kinds

LEMMA UntouchedIsWatch ==
  ASSUME NEW phase \in Phases, NEW S, S \subseteq Chats
  PROVE  /\ Untouched(phase, S) \in Watch
         /\ DOMAIN Zero(S) = S
<1>1. Zero(S) \in Cursors
  BY ZeroIsCursorVector
<1> QED BY <1>1 DEF Untouched, Watch, Zero

LEMMA PayloadIsUpload ==
  ASSUME TypeOK, NEW kind \in Kinds, NEW from \in Cursors, NEW to \in Cursors
  PROVE  Payload(kind, from, to) \in Upload
BY DEF TypeOK, Position, Payload, Upload

LEMMA AcceptedIsPosition ==
  ASSUME TypeOK, NEW p \in Upload
  PROVE  Accepted(p) \in Position
<1>1. rx.cursors \in Cursors /\ p.to \in Cursors /\ p.seq \in Nat /\ p.hash \in Nat
  BY DEF TypeOK, Position, Upload
<1>2. Override(rx.cursors, p.to) \in Cursors
  BY <1>1, OverrideIsCursorVector
<1> QED BY <1>1, <1>2 DEF Accepted, Position

(* An installation without a watch state has not started a tick.           *)
WatchShape ==
  /\ watch.phase = "none" => watch = Untouched("none", {})
  /\ pc # "idle" => watch.phase # "none"

TypeInv == TypeOK /\ WatchShape

(* The watch state's own part of the invariant.                            *)
WatchTyped ==
  /\ watch \in Watch
  /\ watch.phase # "none" =>
       DOMAIN watch.cursors = chats /\ DOMAIN watch.scan = chats /\ DOMAIN watch.acked = chats
  /\ watch.phase = "none" => watch = Untouched("none", {})

LEMMA WatchTypeStep ==
  ASSUME TypeInv, [Next]_vars
  PROVE  WatchTyped' /\ chats' \in SUBSET Chats
<1> USE DEF TypeInv, TypeOK, WatchShape
<1>0. watch.cursors \in Cursors /\ watch.scan \in Cursors /\ watch.acked \in Cursors
  BY DEF Watch
<1>1. CASE UNCHANGED <<watch, chats>>
  BY <1>1 DEF WatchTyped
<1>2. CASE Activate
  <2>1. watch' = Untouched("activation_requested", chats) /\ chats' = chats
    BY <1>2 DEF Activate
  <2>2. watch' \in Watch /\ DOMAIN Zero(chats) = chats
    BY <2>1, UntouchedIsWatch DEF Phases
  <2> QED BY <2>1, <2>2 DEF WatchTyped, Untouched
<1>3. ASSUME NEW c \in Chats, AcceptChat(c) PROVE WatchTyped' /\ chats' \in SUBSET Chats
  <2>1. chats' = chats \cup {c} /\ chats' \in SUBSET Chats
    BY <1>3 DEF AcceptChat
  <2>2. CASE watch.phase = "none"
    BY <1>3, <2>1, <2>2 DEF AcceptChat, WatchTyped
  <2>3. CASE watch.phase # "none"
    <3>1. /\ DOMAIN watch.cursors = chats /\ DOMAIN watch.scan = chats
          /\ DOMAIN watch.acked = chats
      BY <2>3
    <3>2. /\ With(chats, c, watch.cursors) \in Cursors /\ With(chats, c, watch.scan) \in Cursors
          /\ With(chats, c, watch.acked) \in Cursors
          /\ DOMAIN With(chats, c, watch.cursors) = chats'
          /\ DOMAIN With(chats, c, watch.scan) = chats'
          /\ DOMAIN With(chats, c, watch.acked) = chats'
      BY <1>0, <2>1, <3>1, WithIsCursorVector
    <3>3. watch' = [watch EXCEPT !.cursors = With(chats, c, watch.cursors),
                                 !.scan = With(chats, c, watch.scan),
                                 !.acked = With(chats, c, watch.acked),
                                 !.awaiting = watch.awaiting \cup {c}]
      BY <1>3, <2>3 DEF AcceptChat
    <3> QED BY <2>1, <2>3, <3>2, <3>3 DEF WatchTyped, Watch
  <2> QED BY <2>2, <2>3
<1>4. CASE ApplyPayload
  <2>1. watch' = Apply(pending) /\ chats' = chats /\ watch.phase # "none"
    BY <1>4 DEF ApplyPayload
  <2>2. CASE Applied(pending)
    BY <2>1, <2>2 DEF Apply, WatchTyped
  <2>3. CASE ~Applied(pending)
    <3>1. pending.to \in Cursors /\ pending.seq \in Nat /\ pending.hash \in Nat
      BY DEF Upload
    <3>2. /\ Override(watch.cursors, pending.to) \in Cursors
          /\ Override(watch.scan, pending.to) \in Cursors
          /\ DOMAIN Override(watch.cursors, pending.to) = chats
          /\ DOMAIN Override(watch.scan, pending.to) = chats
      BY <1>0, <2>1, <3>1, OverrideIsCursorVector
    <3>3. DOMAIN watch.acked = chats /\ watch.awaiting \in SUBSET Chats /\ watch.phase \in Phases
      BY <2>1 DEF Watch
    <3> QED BY <1>0, <2>1, <2>3, <3>1, <3>2, <3>3 DEF Apply, WatchTyped, Watch, Phases
  <2> QED BY <2>2, <2>3
<1>5. CASE MorningTops
  <2>1. PICK answered \in SUBSET (chats \ watch.awaiting) : \E tops \in [answered -> MessageIds] :
          watch' = [watch EXCEPT !.scan = [c \in chats |->
                      IF c \in answered /\ tops[c] > watch.scan[c] THEN tops[c] ELSE watch.scan[c]]]
    BY <1>5 DEF MorningTops
  <2>2. PICK tops \in [answered -> MessageIds] :
          watch' = [watch EXCEPT !.scan = [c \in chats |->
                      IF c \in answered /\ tops[c] > watch.scan[c] THEN tops[c] ELSE watch.scan[c]]]
    BY <2>1
  <2> DEFINE scan == [c \in chats |->
                IF c \in answered /\ tops[c] > watch.scan[c] THEN tops[c] ELSE watch.scan[c]]
  <2>3. watch.phase = "active" /\ chats' = chats /\ DOMAIN watch.scan = chats
    BY <1>5 DEF MorningTops
  <2>4. scan \in [chats -> MessageIds]
    BY <1>0, <2>3, CursorVector
  <2>5. scan \in Cursors /\ DOMAIN scan = chats
    BY <2>4, MakeCursorVector
  <2>6. watch' = [watch EXCEPT !.scan = scan]
    BY <2>2
  <2> HIDE DEF scan
  <2> QED BY <2>3, <2>5, <2>6 DEF WatchTyped, Watch
<1>6. CASE SaveReads
  <2> DEFINE acked == [c \in chats |->
                         IF c \in reported THEN watch.scan[c] ELSE watch.acked[c]]
  <2>1. /\ watch.phase # "none" /\ chats' = chats /\ DOMAIN watch.scan = chats
        /\ DOMAIN watch.acked = chats /\ watch' = [watch EXCEPT !.acked = acked]
    BY <1>6 DEF SaveReads
  <2>2. acked \in [chats -> MessageIds]
    BY <1>0, <2>1, CursorVector
  <2>3. acked \in Cursors /\ DOMAIN acked = chats
    BY <2>2, MakeCursorVector
  <2> HIDE DEF acked
  <2> QED BY <2>1, <2>3 DEF WatchTyped, Watch
<1>7. CASE FinishReads
  <2>1. watch' = watch \/ (watch.phase # "none" /\ watch' = [watch EXCEPT !.phase = "active"])
    BY <1>7 DEF FinishReads
  <2>2. chats' = chats
    BY <1>7 DEF FinishReads
  <2> QED BY <2>1, <2>2 DEF WatchTyped, Watch, Phases
<1> QED BY <1>1, <1>2, <1>3, <1>4, <1>5, <1>6, <1>7, WatchFrame

LEMMA PendingTypeStep ==
  ASSUME TypeInv, [Next]_vars
  PROVE  pending' \in Upload
<1> USE DEF TypeInv, TypeOK
<1>1. CASE UNCHANGED pending
  BY <1>1
<1>2. CASE BuildBaseline
  <2>1. PICK tops \in [chats -> MessageIds] : pending' = Payload("baseline", g.cursors, tops)
    BY <1>2 DEF BuildBaseline
  <2>2. tops \in Cursors /\ g.cursors \in Cursors
    BY MakeCursorVector DEF Position
  <2> QED BY <2>1, <2>2, PayloadIsUpload DEF Kinds
<1>3. CASE BuildExtension
  <2>1. PICK tops \in [watch.awaiting -> MessageIds] :
          pending' = Payload("extension_baseline", Zero(watch.awaiting), tops)
    BY <1>3 DEF BuildExtension
  <2>2. watch.awaiting \subseteq Chats
    BY DEF Watch
  <2>3. tops \in Cursors /\ Zero(watch.awaiting) \in Cursors
    BY <2>2, MakeCursorVector, ZeroIsCursorVector
  <2> QED BY <2>1, <2>3, PayloadIsUpload DEF Kinds
<1>4. CASE DropMentions \/ UnlinkPending
  BY <1>4, AbsentRecords DEF DropMentions, UnlinkPending
<1> QED BY <1>1, <1>2, <1>3, <1>4, PendingFrame

LEMMA ReceiverTypeStep ==
  ASSUME TypeInv, [Next]_vars
  PROVE  rx' \in Position /\ inflight' \in Upload
<1> USE DEF TypeInv, TypeOK
<1>1. CASE UNCHANGED <<rx, inflight>>
  BY <1>1
<1>2. ASSUME NEW c \in Chats, Announce(c) PROVE rx' \in Position /\ inflight' \in Upload
  <2>1. With(DOMAIN rx.cursors, c, rx.cursors) \in Cursors
    BY WithIsCursorVector DEF Position
  <2>2. rx' = [rx EXCEPT !.cursors = With(DOMAIN rx.cursors, c, rx.cursors)]
    BY <1>2 DEF Announce
  <2> QED BY <1>2, <2>1, <2>2 DEF Announce, Position
<1>3. CASE Land
  BY <1>3, AcceptedIsPosition, AbsentRecords DEF Land
<1>4. CASE UploadReceipted
  BY <1>4, AcceptedIsPosition DEF UploadReceipted
<1>5. CASE CutOff
  BY <1>5 DEF CutOff
<1> QED BY <1>1, <1>2, <1>3, <1>4, <1>5, ReceiverFrame

(* Everything the tick holds in memory, and what Telegram shows as read.   *)
TickTyped ==
  /\ readMark \in [Chats -> MessageIds] /\ pc \in Places /\ g \in Position
  /\ resumed \in BOOLEAN /\ morning \in BOOLEAN /\ reported \in SUBSET Chats
  /\ built \in Nat /\ fault \in {"none", "chain", "build", "apply"}

LEMMA TickTypeStep ==
  ASSUME TypeInv, [Next]_vars
  PROVE  TickTyped'
<1> USE DEF TypeInv, TypeOK, TickTyped
<1>1. CASE Administer
  BY <1>1 DEF Administer, Activate, AcceptChat, outside, local
<1>2. CASE TakeGate \/ Regate
  BY <1>2 DEF TakeGate, Regate, outside, Places
<1>3. CASE SettleStaged
  BY <1>3 DEF SettleStaged, NothingStaged, ResumeAccepted, DropMentions, ResumeUpload,
              outside, local, Places
<1>4. CASE Dispatch \/ SnapshotTimeout
  BY <1>4 DEF Dispatch, BuildBaseline, BuildExtension, ServiceDone, BaselineReads,
              SnapshotTimeout, outside, local, Places
<1>5. CASE Refuse
  BY <1>5, AbsentRecords DEF Refuse, EndTick, outside, Places
<1>6. CASE UploadReceipted \/ ApplyPayload \/ UnlinkPending
  BY <1>6 DEF UploadReceipted, ApplyPayload, UnlinkPending, outside, local, Places
<1>7. CASE MorningTops \/ SaveReads \/ NothingUnread
  BY <1>7 DEF MorningTops, SaveReads, NothingUnread, outside, local, Places
<1>8. CASE SendReads
  <2>1. PICK told \in SUBSET Unread : \E marked \in SUBSET Unread :
          /\ readMark' = [c \in Chats |->
               IF c \in marked /\ watch.scan[c] > readMark[c]
               THEN watch.scan[c] ELSE readMark[c]]
          /\ reported' = told
    BY <1>8 DEF SendReads
  <2>2. PICK marked \in SUBSET Unread :
          /\ readMark' = [c \in Chats |->
               IF c \in marked /\ watch.scan[c] > readMark[c]
               THEN watch.scan[c] ELSE readMark[c]]
          /\ reported' = told
    BY <2>1
  <2>3. watch.scan \in Cursors /\ DOMAIN watch.scan = chats
    BY <1>8 DEF SendReads, WatchShape, Watch
  <2>4. \A c \in chats : watch.scan[c] \in MessageIds
    BY <2>3, CursorVector
  <2>5. readMark' \in [Chats -> MessageIds] /\ reported' \in SUBSET Chats
    BY <2>2, <2>4 DEF Unread
  <2> QED BY <1>8, <2>5 DEF SendReads, Places
<1>9. CASE FinishReads
  BY <1>9, AbsentRecords DEF FinishReads, outside, Places
<1>10. ASSUME NEW c \in Chats, Announce(c) PROVE TickTyped'
  BY <1>10 DEF Announce, local
<1>11. CASE Land
  BY <1>11 DEF Land, local
<1>12. CASE CutOff \/ Abort \/ Crash
  BY <1>12, AbsentRecords DEF CutOff, Abort, Crash, outside, Places
<1>13. CASE UNCHANGED vars
  BY <1>13 DEF vars, outside, local
<1> QED
  BY <1>1, <1>2, <1>3, <1>4, <1>5, <1>6, <1>7, <1>8, <1>9, <1>10, <1>11, <1>12, <1>13
     DEF Next, Reads, Environment

(* A tick starts with TakeGate, and the watch state never disappears.      *)
LEMMA StartStep ==
  ASSUME TypeInv, [Next]_vars
  PROVE  pc' # "idle" => watch'.phase # "none"
<1>1. watch.phase # "none" => watch'.phase # "none"
  <2> SUFFICES ASSUME watch.phase # "none" PROVE watch'.phase # "none"
    OBVIOUS
  <2>1. watch \in Watch
    BY DEF TypeInv, TypeOK
  <2>2. CASE ApplyPayload
    BY <2>1, <2>2 DEF ApplyPayload, Apply
  <2>3. CASE FinishReads
    BY <2>1, <2>3 DEF FinishReads, Watch
  <2>4. CASE MorningTops \/ SaveReads
    BY <2>1, <2>4 DEF MorningTops, SaveReads, Watch
  <2>5. ASSUME NEW c \in Chats, AcceptChat(c) PROVE watch'.phase # "none"
    BY <2>1, <2>5 DEF AcceptChat, Watch
  <2> QED BY <2>2, <2>3, <2>4, <2>5, WatchFrame DEF Activate
<1>2. pc' # "idle" => pc # "idle" \/ watch.phase # "none"
  BY DEF Next, vars, Administer, Activate, AcceptChat, TakeGate, SettleStaged, NothingStaged,
         ResumeAccepted, DropMentions, ResumeUpload, Regate, Dispatch, BuildBaseline,
         BuildExtension, ServiceDone, BaselineReads, Refuse, EndTick, UploadReceipted,
         ApplyPayload, UnlinkPending, Reads, MorningTops, SendReads, SaveReads, NothingUnread,
         FinishReads, Environment, Announce, Land, CutOff, Abort, SnapshotTimeout, Crash
<1> QED BY <1>1, <1>2 DEF TypeInv, WatchShape

LEMMA TypeStep == TypeInv /\ [Next]_vars => TypeInv'
BY WatchTypeStep, PendingTypeStep, ReceiverTypeStep, TickTypeStep, StartStep
   DEF TypeInv, TypeOK, WatchShape, WatchTyped, TickTyped

LEMMA TypeInit == Init => TypeInv
<1> SUFFICES ASSUME Init PROVE TypeInv
  OBVIOUS
<1>1. chats = Locked /\ Locked \subseteq Chats
  BY ChatsAssumption DEF Init
<1>2. /\ Zero(Locked) \in Cursors /\ DOMAIN Zero(Locked) = Locked
      /\ Zero({}) \in Cursors /\ Zero(Chats) \in [Chats -> MessageIds]
  BY <1>1, ZeroIsCursorVector, ZeroIsAnId DEF Zero
<1>3. TickTyped
  <2>1. built \in Nat /\ readMark = Zero(Chats)
    BY DEF Init, Installed, Upgraded
  <2> QED BY <1>2, <2>1, AbsentRecords DEF Init, TickTyped, Places
<1>4. CASE Installed
  <2>1. watch \in Watch
    BY <1>4, UntouchedIsWatch DEF Installed, Phases
  <2>2. rx \in Position
    BY <1>2, <1>4 DEF Installed, Position
  <2> QED BY <1>1, <1>3, <1>4, <2>1, <2>2, AbsentRecords
       DEF Init, Installed, TypeInv, TypeOK, WatchShape, Untouched, TickTyped
<1>5. CASE Upgraded
  <2>1. PICK c \in Locked :
          /\ pending = Mentions(c)
          /\ \/ rx = [next |-> 2, prev |-> 1, cursors |-> Zero(Locked)]
             \/ rx = [next |-> 3, prev |-> 2,
                      cursors |-> Override(Zero(Locked), Mentions(c).to)]
    BY <1>5 DEF Upgraded
  <2>2. /\ [d \in {c} |-> 0] \in Cursors /\ [d \in {c} |-> MaxMsg] \in Cursors
    <3>1. [d \in {c} |-> 0] \in [{c} -> MessageIds] /\ [d \in {c} |-> MaxMsg] \in [{c} -> MessageIds]
      BY ZeroIsAnId, BoundsAssumption DEF MessageIds
    <3> QED BY <1>1, <3>1, MakeCursorVector
  <2>3. pending \in Upload
    BY <2>1, <2>2 DEF Mentions, Upload, Kinds
  <2>4. Override(Zero(Locked), Mentions(c).to) \in Cursors
    BY <1>2, <2>2, OverrideIsCursorVector DEF Mentions
  <2>5. rx \in Position
    BY <1>2, <2>1, <2>4 DEF Position
  <2>6. Untouched("active", Locked) \in Watch
    BY <1>1, UntouchedIsWatch DEF Phases
  <2>7. watch = [Untouched("active", Locked) EXCEPT !.seq = 1, !.hash = 1]
    BY <1>5 DEF Upgraded
  <2>8. watch \in Watch
    BY <2>6, <2>7 DEF Watch
  <2>9. /\ watch.phase = "active" /\ DOMAIN watch.cursors = chats /\ DOMAIN watch.scan = chats
        /\ DOMAIN watch.acked = chats
    BY <1>1, <1>2, <2>7 DEF Untouched
  <2> QED BY <1>1, <1>3, <2>3, <2>5, <2>8, <2>9, AbsentRecords
       DEF Init, TypeInv, TypeOK, WatchShape, TickTyped
<1> QED BY <1>4, <1>5 DEF Init

LEMMA MonitorTypesInv == Spec => []TypeInv
BY TypeInit, TypeStep, PTL DEF Spec

(* Every variable always has its type, and once there is a watch state its *)
(* three cursors exist for exactly the locked chats, whatever interleaving *)
(* of extensions, payloads and read batches led there.                     *)
THEOREM MonitorTypes == Spec => []TypeOK
<1>1. TypeInv => TypeOK
  BY DEF TypeInv
<1> QED BY <1>1, MonitorTypesInv, PTL

-----------------------------------------------------------------------------
(* The read cursors.                                                       *)

(* A chat whose marks are about to be saved shows them in Telegram.        *)
ReportedAreMarked ==
  pc = "save" => \A c \in reported : c \in chats /\ readMark[c] = watch.scan[c]

ReadInv == WatchStateLoads /\ ReadsAreCheckpointed /\ ReportedAreMarked

LEMMA CursorsAreNumbers ==
  ASSUME TypeInv
  PROVE  /\ \A c \in Chats : readMark[c] \in Nat
         /\ watch.phase # "none" => \A c \in chats :
              watch.cursors[c] \in Nat /\ watch.scan[c] \in Nat /\ watch.acked[c] \in Nat
         /\ \A c \in DOMAIN pending.to : pending.to[c] \in Nat
<1>1. MessageIds \subseteq Nat
  BY BoundsAssumption DEF MessageIds
<1>2. /\ watch.cursors \in Cursors /\ watch.scan \in Cursors /\ watch.acked \in Cursors
      /\ pending.to \in Cursors
  BY DEF TypeInv, TypeOK, Watch, Upload
<1> QED BY <1>1, <1>2, CursorVector DEF TypeInv, TypeOK

(* The morning tops raise the scan cursors and nothing else.               *)
LEMMA MorningTopsRaise ==
  ASSUME TypeInv, MorningTops
  PROVE  /\ watch.phase = "active" /\ chats' = chats
         /\ watch'.phase = "active" /\ watch'.seq = watch.seq /\ watch'.hash = watch.hash
         /\ watch'.cursors = watch.cursors /\ watch'.acked = watch.acked
         /\ watch'.awaiting = watch.awaiting
         /\ DOMAIN watch'.scan = chats
         /\ \A c \in chats : watch'.scan[c] \in Nat /\ watch'.scan[c] >= watch.scan[c]
         /\ \A c \in watch.awaiting : c \in chats => watch'.scan[c] = watch.scan[c]
<1>0. watch \in Watch
  BY DEF TypeInv, TypeOK
<1>1. PICK answered \in SUBSET (chats \ watch.awaiting) :
        \E tops \in [answered -> MessageIds] :
          watch' = [watch EXCEPT !.scan = [c \in chats |->
                      IF c \in answered /\ tops[c] > watch.scan[c]
                      THEN tops[c] ELSE watch.scan[c]]]
  BY DEF MorningTops
<1>2. PICK tops \in [answered -> MessageIds] :
        watch' = [watch EXCEPT !.scan = [c \in chats |->
                    IF c \in answered /\ tops[c] > watch.scan[c]
                    THEN tops[c] ELSE watch.scan[c]]]
  BY <1>1
<1>3. watch'.scan = [c \in chats |-> IF c \in answered /\ tops[c] > watch.scan[c]
                                     THEN tops[c] ELSE watch.scan[c]]
  BY <1>0, <1>2 DEF Watch
<1>4. \A c \in answered : tops[c] \in Nat
  BY BoundsAssumption DEF MessageIds
<1>5. watch.phase = "active" /\ chats' = chats
  BY DEF MorningTops
<1>6. /\ watch'.phase = "active" /\ watch'.seq = watch.seq /\ watch'.hash = watch.hash
      /\ watch'.cursors = watch.cursors /\ watch'.acked = watch.acked
      /\ watch'.awaiting = watch.awaiting
  BY <1>0, <1>2, <1>5 DEF Watch
<1>7. \A c \in chats : watch'.scan[c] \in Nat /\ watch'.scan[c] >= watch.scan[c]
  BY <1>3, <1>4, <1>5, CursorsAreNumbers
<1> QED BY <1>1, <1>3, <1>5, <1>6, <1>7

LEMMA WatchStateLoadsStep ==
  ASSUME TypeInv, ReadInv, [Next]_vars
  PROVE  WatchStateLoads'
<1> USE DEF TypeInv, ReadInv
<1>0. /\ watch.phase # "none" =>
           DOMAIN watch.cursors = chats /\ DOMAIN watch.scan = chats /\ DOMAIN watch.acked = chats
      /\ watch \in Watch
  BY DEF TypeOK
<1>1. CASE UNCHANGED <<watch, chats>>
  BY <1>1 DEF WatchStateLoads
<1>2. CASE Activate
  BY <1>2 DEF Activate, Untouched, Zero, WatchStateLoads
<1>3. ASSUME NEW c \in Chats, AcceptChat(c) PROVE WatchStateLoads'
  <2>1. CASE watch.phase = "none"
    BY <1>3, <2>1 DEF AcceptChat, WatchStateLoads
  <2>2. CASE watch.phase # "none"
    <3>1. /\ chats' = chats \cup {c}
          /\ watch'.phase = watch.phase /\ watch'.seq = watch.seq
          /\ watch'.cursors = With(chats, c, watch.cursors)
          /\ watch'.scan = With(chats, c, watch.scan)
          /\ watch'.acked = With(chats, c, watch.acked)
          /\ watch'.awaiting = watch.awaiting \cup {c}
      BY <1>0, <1>3, <2>2 DEF AcceptChat, Watch
    <3>2. \A d \in chats' : watch'.acked[d] <= watch'.scan[d] /\ watch'.cursors[d] <= watch'.scan[d]
      BY <2>2, <3>1 DEF With, WatchStateLoads
    <3>3. watch'.phase = "activation_requested" => watch'.seq = 0 /\ watch'.scan = Zero(chats')
      BY <3>1 DEF With, Zero, WatchStateLoads
    <3> QED BY <2>2, <3>1, <3>2, <3>3 DEF WatchStateLoads
  <2> QED BY <2>1, <2>2
<1>4. CASE ApplyPayload
  <2>1. /\ watch' = Apply(pending) /\ chats' = chats /\ watch.phase # "none" /\ Applicable(pending)
    BY <1>4 DEF ApplyPayload, WatchShape
  <2>2. CASE Applied(pending)
    BY <2>1, <2>2 DEF Apply, WatchStateLoads
  <2>3. CASE ~Applied(pending)
    <3>1. \A c \in DOMAIN pending.to : c \in chats /\ pending.to[c] >= watch.scan[c]
      BY <2>1, <2>3 DEF Applicable
    <3>2. /\ watch'.cursors = Override(watch.cursors, pending.to)
          /\ watch'.scan = Override(watch.scan, pending.to)
          /\ watch'.acked = watch.acked
          /\ watch'.awaiting \subseteq watch.awaiting
          /\ watch'.phase \in {"baseline_read_pending", "active"}
      BY <2>1, <2>3 DEF Apply, Applicable
    <3>3. ASSUME NEW c \in chats
          PROVE  watch'.acked[c] <= watch'.scan[c] /\ watch'.cursors[c] <= watch'.scan[c]
      <4>1. CASE c \in DOMAIN pending.to
        <5>1. watch'.cursors[c] = pending.to[c] /\ watch'.scan[c] = pending.to[c]
          BY <1>0, <2>1, <3>2, <4>1 DEF Override
        <5>2. watch.acked[c] <= watch.scan[c]
          BY <2>1 DEF WatchStateLoads
        <5> QED BY <2>1, <3>1, <3>2, <4>1, <5>1, <5>2, CursorsAreNumbers
      <4>2. CASE c \notin DOMAIN pending.to
        BY <1>0, <2>1, <3>2, <4>2 DEF Override, WatchStateLoads
      <4> QED BY <4>1, <4>2
    <3> QED BY <2>1, <3>2, <3>3 DEF WatchStateLoads
  <2> QED BY <2>2, <2>3
<1>5. CASE MorningTops
  BY <1>5, MorningTopsRaise, CursorsAreNumbers DEF WatchStateLoads
<1>6. CASE SaveReads
  <2>1. /\ watch.phase # "none" /\ chats' = chats
        /\ watch'.phase = watch.phase /\ watch'.seq = watch.seq /\ watch'.scan = watch.scan
        /\ watch'.cursors = watch.cursors /\ watch'.awaiting = watch.awaiting
        /\ watch'.acked = [c \in chats |-> IF c \in reported THEN watch.scan[c] ELSE watch.acked[c]]
    BY <1>0, <1>6 DEF SaveReads, Watch, WatchShape
  <2> QED BY <2>1, CursorsAreNumbers DEF WatchStateLoads
<1>7. CASE FinishReads
  BY <1>0, <1>7 DEF FinishReads, WatchStateLoads, Watch
<1> QED BY <1>1, <1>2, <1>3, <1>4, <1>5, <1>6, <1>7, WatchFrame

(* What a payload, a read batch and a new chat do to the cursors.          *)
LEMMA ApplyRaises ==
  ASSUME TypeInv, WatchStateLoads, ApplyPayload
  PROVE  /\ watch.phase # "none" /\ chats' = chats /\ watch'.acked = watch.acked
         /\ watch'.phase # "none"
         /\ DOMAIN watch'.cursors = chats /\ DOMAIN watch'.scan = chats
         /\ \A c \in chats : watch'.cursors[c] >= watch.cursors[c] /\ watch'.scan[c] >= watch.scan[c]
<1>0. /\ watch.phase # "none" /\ chats' = chats /\ watch' = Apply(pending) /\ Applicable(pending)
      /\ DOMAIN watch.cursors = chats /\ DOMAIN watch.scan = chats
  BY DEF ApplyPayload, TypeInv, TypeOK, WatchShape
<1>1. CASE Applied(pending)
  BY <1>0, <1>1, CursorsAreNumbers DEF Apply
<1>2. CASE ~Applied(pending)
  <2>1. /\ watch'.cursors = Override(watch.cursors, pending.to)
        /\ watch'.scan = Override(watch.scan, pending.to)
        /\ watch'.acked = watch.acked /\ watch'.phase # "none"
    BY <1>0, <1>2 DEF Apply
  <2>2. \A c \in DOMAIN pending.to : pending.to[c] >= watch.scan[c]
    BY <1>0, <1>2 DEF Applicable
  <2>3. ASSUME NEW c \in chats
        PROVE  watch'.cursors[c] >= watch.cursors[c] /\ watch'.scan[c] >= watch.scan[c]
    <3>1. watch.cursors[c] <= watch.scan[c]
      BY <1>0 DEF WatchStateLoads
    <3>2. \/ watch'.cursors[c] = watch.cursors[c]
          \/ c \in DOMAIN pending.to /\ watch'.cursors[c] = pending.to[c]
      BY <1>0, <2>1 DEF Override
    <3>3. \/ watch'.scan[c] = watch.scan[c]
          \/ c \in DOMAIN pending.to /\ watch'.scan[c] = pending.to[c]
      BY <1>0, <2>1 DEF Override
    <3> QED BY <1>0, <2>2, <3>1, <3>2, <3>3, CursorsAreNumbers
  <2> QED BY <1>0, <2>1, <2>3 DEF Override
<1> QED BY <1>1, <1>2

LEMMA SaveReadsRaises ==
  ASSUME TypeInv, WatchStateLoads, SaveReads
  PROVE  /\ watch.phase # "none" /\ chats' = chats
         /\ watch'.phase = watch.phase /\ watch'.seq = watch.seq /\ watch'.hash = watch.hash
         /\ watch'.cursors = watch.cursors /\ watch'.scan = watch.scan
         /\ watch'.awaiting = watch.awaiting
         /\ watch'.acked = [c \in chats |-> IF c \in reported THEN watch.scan[c] ELSE watch.acked[c]]
         /\ \A c \in chats : watch'.acked[c] >= watch.acked[c]
<1>1. /\ watch.phase # "none" /\ chats' = chats
      /\ watch'.phase = watch.phase /\ watch'.seq = watch.seq /\ watch'.hash = watch.hash
      /\ watch'.cursors = watch.cursors /\ watch'.scan = watch.scan
      /\ watch'.awaiting = watch.awaiting
      /\ watch'.acked = [c \in chats |-> IF c \in reported THEN watch.scan[c] ELSE watch.acked[c]]
  BY DEF SaveReads, TypeInv, TypeOK, WatchShape, Watch
<1> QED BY <1>1, CursorsAreNumbers DEF WatchStateLoads

LEMMA AcceptChatExtends ==
  ASSUME TypeInv, NEW c \in Chats, AcceptChat(c)
  PROVE  /\ chats' = chats \cup {c} /\ c \notin chats /\ c \in DOMAIN rx.cursors
         /\ watch.phase = "none" => watch' = watch
         /\ watch.phase # "none" =>
              /\ watch'.phase = watch.phase /\ watch'.seq = watch.seq /\ watch'.hash = watch.hash
              /\ watch'.cursors = With(chats, c, watch.cursors)
              /\ watch'.scan = With(chats, c, watch.scan)
              /\ watch'.acked = With(chats, c, watch.acked)
              /\ watch'.awaiting = watch.awaiting \cup {c}
BY DEF TypeInv, TypeOK, AcceptChat, Watch

LEMMA ReadMarkFrame ==
  ASSUME [Next]_vars
  PROVE  /\ readMark' = readMark \/ SendReads
         /\ pc' = "save" => SendReads \/ UNCHANGED <<pc, watch, chats, readMark, reported>>
BY DEF Next, vars, durable, outside, local, Administer, Activate, AcceptChat, TakeGate,
       SettleStaged, NothingStaged, ResumeAccepted, DropMentions, ResumeUpload, Regate, Dispatch,
       BuildBaseline, BuildExtension, ServiceDone, BaselineReads, Refuse, EndTick,
       UploadReceipted, ApplyPayload, UnlinkPending, Reads, MorningTops, SaveReads, NothingUnread,
       FinishReads, Environment, Announce, Land, CutOff, Abort, SnapshotTimeout, Crash

(* Telegram is given only scan cursors, and only of unread chats.          *)
LEMMA SendReadsMarks ==
  ASSUME TypeInv, ReadInv, SendReads
  PROVE  /\ UNCHANGED <<watch, chats>> /\ watch.phase # "none"
         /\ \A c \in Chats : \/ readMark'[c] = readMark[c]
                             \/ c \in Unread /\ readMark'[c] = watch.scan[c]
         /\ \A c \in reported' : c \in chats /\ readMark'[c] = watch.scan[c]
<1>1. PICK told \in SUBSET Unread : \E marked \in SUBSET Unread :
        /\ told \subseteq marked
        /\ readMark' = [c \in Chats |->
             IF c \in marked /\ watch.scan[c] > readMark[c] THEN watch.scan[c] ELSE readMark[c]]
        /\ reported' = told
  BY DEF SendReads
<1>2. PICK marked \in SUBSET Unread :
        /\ told \subseteq marked
        /\ readMark' = [c \in Chats |->
             IF c \in marked /\ watch.scan[c] > readMark[c] THEN watch.scan[c] ELSE readMark[c]]
        /\ reported' = told
  BY <1>1
<1>3. UNCHANGED <<watch, chats>> /\ watch.phase # "none"
  BY DEF SendReads, durable, TypeInv, WatchShape
<1>4. \A c \in Chats : \/ readMark'[c] = readMark[c]
                       \/ c \in Unread /\ readMark'[c] = watch.scan[c]
  <2> SUFFICES ASSUME NEW c \in Chats
               PROVE  \/ readMark'[c] = readMark[c]
                      \/ c \in Unread /\ readMark'[c] = watch.scan[c]
    OBVIOUS
  <2>1. readMark'[c] = IF c \in marked /\ watch.scan[c] > readMark[c]
                       THEN watch.scan[c] ELSE readMark[c]
    BY <1>2
  <2> QED BY <2>1
<1>5. \A c \in chats : readMark[c] \in Nat /\ watch.scan[c] \in Nat /\ readMark[c] <= watch.scan[c]
  BY <1>3, CursorsAreNumbers DEF ReadInv, ReadsAreCheckpointed, TypeInv, TypeOK
<1>6. \A c \in reported' : c \in chats /\ c \in Chats /\ c \in marked
  BY <1>2 DEF Unread, TypeInv, TypeOK
<1>7. \A c \in reported' : readMark'[c] = watch.scan[c]
  BY <1>2, <1>5, <1>6
<1> QED BY <1>3, <1>4, <1>6, <1>7

LEMMA ReadsAreCheckpointedStep ==
  ASSUME TypeInv, ReadInv, [Next]_vars
  PROVE  ReadsAreCheckpointed'
<1> USE DEF ReadInv
<1>0. /\ watch.phase # "none" => DOMAIN watch.acked = chats
      /\ watch.phase = "none" => DOMAIN watch.acked = {}
      /\ chats \subseteq Chats
  BY DEF TypeInv, TypeOK, WatchShape, Untouched, Zero
<1>1. CASE SendReads
  <2> SUFFICES ASSUME NEW c \in Chats
               PROVE  /\ readMark'[c] > 0 => watch'.phase # "none" /\ c \in chats'
                      /\ c \in DOMAIN watch'.acked =>
                           watch'.acked[c] <= readMark'[c] /\ readMark'[c] <= watch'.scan[c]
    BY DEF ReadsAreCheckpointed
  <2>1. /\ UNCHANGED <<watch, chats>> /\ watch.phase # "none"
        /\ \/ readMark'[c] = readMark[c]
           \/ c \in Unread /\ readMark'[c] = watch.scan[c]
    BY <1>1, SendReadsMarks
  <2>2. CASE readMark'[c] = readMark[c]
    BY <2>1, <2>2 DEF ReadsAreCheckpointed
  <2>3. CASE c \in Unread /\ readMark'[c] = watch.scan[c]
    <3>1. c \in chats /\ watch.scan[c] > watch.acked[c]
      BY <2>3 DEF Unread
    <3> QED BY <2>1, <2>3, <3>1, CursorsAreNumbers
  <2> QED BY <2>1, <2>2, <2>3
<1>2. CASE readMark' = readMark
  <2>1. CASE UNCHANGED <<watch, chats>>
    BY <1>2, <2>1 DEF ReadsAreCheckpointed
  <2>2. CASE Activate
    <3>1. watch'.phase # "none" /\ chats' = chats /\ watch.phase = "none"
          /\ watch'.acked = Zero(chats) /\ watch'.scan = Zero(chats)
      BY <2>2 DEF Activate, Untouched
    <3>2. \A c \in Chats : readMark[c] = 0
      BY <3>1, CursorsAreNumbers DEF ReadsAreCheckpointed
    <3> QED BY <1>0, <1>2, <3>1, <3>2 DEF ReadsAreCheckpointed, Zero
  <2>3. ASSUME NEW c \in Chats, AcceptChat(c) PROVE ReadsAreCheckpointed'
    <3>1. readMark[c] = 0
      BY <2>3, AcceptChatExtends, CursorsAreNumbers DEF ReadsAreCheckpointed
    <3>2. CASE watch.phase = "none"
      BY <1>2, <2>3, <3>2, AcceptChatExtends DEF ReadsAreCheckpointed
    <3>3. CASE watch.phase # "none"
      <4>1. /\ chats' = chats \cup {c} /\ watch'.phase # "none"
            /\ watch'.acked = With(chats, c, watch.acked)
            /\ watch'.scan = With(chats, c, watch.scan)
        BY <2>3, <3>3, AcceptChatExtends
      <4> QED BY <1>0, <1>2, <3>1, <3>3, <4>1 DEF ReadsAreCheckpointed, With
    <3> QED BY <3>2, <3>3
  <2>4. CASE ApplyPayload
    <3>1. \A c \in chats : watch'.scan[c] \in Nat
      BY <2>4, ApplyRaises, WatchTypeStep, CursorVector, BoundsAssumption
         DEF WatchTyped, Watch, MessageIds
    <3> QED BY <1>0, <1>2, <2>4, <3>1, ApplyRaises, CursorsAreNumbers DEF ReadsAreCheckpointed
  <2>5. CASE MorningTops
    BY <1>0, <1>2, <2>5, MorningTopsRaise, CursorsAreNumbers DEF ReadsAreCheckpointed
  <2>6. CASE SaveReads
    <3>1. pc = "save"
      BY <2>6 DEF SaveReads
    <3> QED BY <1>0, <1>2, <2>6, <3>1, SaveReadsRaises, CursorsAreNumbers
            DEF ReadsAreCheckpointed, ReportedAreMarked
  <2>7. CASE FinishReads
    BY <1>2, <2>7 DEF FinishReads, ReadsAreCheckpointed, TypeInv, TypeOK, Watch
  <2> QED BY <2>1, <2>2, <2>3, <2>4, <2>5, <2>6, <2>7, WatchFrame
<1> QED BY <1>1, <1>2, ReadMarkFrame

LEMMA ReadStep == TypeInv /\ ReadInv /\ [Next]_vars => ReadInv'
<1> SUFFICES ASSUME TypeInv, ReadInv, [Next]_vars PROVE ReadInv'
  OBVIOUS
<1>1. ASSUME SendReads PROVE ReportedAreMarked'
  BY <1>1, SendReadsMarks DEF ReportedAreMarked
<1>2. ASSUME UNCHANGED <<pc, watch, chats, readMark, reported>> PROVE ReportedAreMarked'
  BY <1>2 DEF ReadInv, ReportedAreMarked
<1>3. ReportedAreMarked'
  BY <1>1, <1>2, ReadMarkFrame DEF ReportedAreMarked
<1> QED BY <1>3, WatchStateLoadsStep, ReadsAreCheckpointedStep DEF ReadInv

LEMMA ReadInit == Init => ReadInv
<1> SUFFICES ASSUME Init PROVE ReadInv
  OBVIOUS
<1>1. /\ readMark = Zero(Chats) /\ chats = Locked /\ pc = "idle"
      /\ watch = Untouched("none", {})
           \/ watch = [Untouched("active", Locked) EXCEPT !.seq = 1, !.hash = 1]
  BY DEF Init, Installed, Upgraded
<1>2. \A c \in Chats : readMark[c] = 0
  BY <1>1 DEF Zero
<1>3. CASE watch = Untouched("none", {})
  BY <1>1, <1>2, <1>3
     DEF Untouched, Zero, ReadInv, WatchStateLoads, ReadsAreCheckpointed, ReportedAreMarked
<1>4. CASE watch = [Untouched("active", Locked) EXCEPT !.seq = 1, !.hash = 1]
  <2>1. /\ watch.phase = "active" /\ watch.awaiting = {} /\ watch.cursors = Zero(chats)
        /\ watch.scan = Zero(chats) /\ watch.acked = Zero(chats)
    BY <1>1, <1>4 DEF Untouched
  <2> QED BY <1>1, <1>2, <2>1
       DEF Zero, ReadInv, WatchStateLoads, ReadsAreCheckpointed, ReportedAreMarked
<1> QED BY <1>1, <1>3, <1>4

LEMMA MonitorReadInv == Spec => []ReadInv
BY ReadInit, ReadStep, MonitorTypesInv, PTL DEF Spec

(* Every watch state the guardian writes is one it can load again: acked,  *)
(* monitor and scan cursors stay ordered for every chat, with chats        *)
(* announced, accepted and cut off at any time.                            *)
THEOREM MonitorStateLoads == Spec => []WatchStateLoads
<1>1. ReadInv => WatchStateLoads
  BY DEF ReadInv
<1> QED BY <1>1, MonitorReadInv, PTL

(* Telegram never shows more as read than the guardian has checkpointed,   *)
(* and never less than it has recorded as acknowledged.                    *)
THEOREM MonitorReadsCheckpointed == Spec => []ReadsAreCheckpointed
<1>1. ReadInv => ReadsAreCheckpointed
  BY DEF ReadInv
<1> QED BY <1>1, MonitorReadInv, PTL

-----------------------------------------------------------------------------
(* The monitor only moves forward.                                         *)

Advances ==
  /\ watch'.seq >= watch.seq /\ Rank[watch'.phase] >= Rank[watch.phase]
  /\ Grows(watch.cursors, watch'.cursors) /\ Grows(watch.scan, watch'.scan)
  /\ Grows(watch.acked, watch'.acked)

(* A step that keeps the phase and the sequence need only mind the cursors. *)
LEMMA CursorsAdvance ==
  ASSUME TypeInv, watch'.seq = watch.seq, watch'.phase = watch.phase,
         Grows(watch.cursors, watch'.cursors), Grows(watch.scan, watch'.scan),
         Grows(watch.acked, watch'.acked)
  PROVE  Advances
<1>1. watch.seq \in Nat /\ watch.phase \in Phases
  BY DEF TypeInv, TypeOK, Watch
<1>2. Rank[watch.phase] \in Nat
  BY <1>1 DEF Rank, Phases
<1> QED BY <1>1, <1>2 DEF Advances

LEMMA Unmoved ==
  ASSUME TypeInv
  PROVE  /\ Grows(watch.cursors, watch.cursors) /\ Grows(watch.scan, watch.scan)
         /\ Grows(watch.acked, watch.acked)
<1>1. /\ watch.phase # "none" =>
           DOMAIN watch.cursors = chats /\ DOMAIN watch.scan = chats /\ DOMAIN watch.acked = chats
      /\ watch.phase = "none" =>
           DOMAIN watch.cursors = {} /\ DOMAIN watch.scan = {} /\ DOMAIN watch.acked = {}
  BY DEF TypeInv, TypeOK, WatchShape, Untouched, Zero
<1> QED BY <1>1, CursorsAreNumbers DEF Grows

LEMMA AdvanceStep ==
  ASSUME TypeInv, ReadInv, [Next]_vars
  PROVE  Advances
<1> USE DEF ReadInv
<1>0. /\ watch.phase # "none" =>
           DOMAIN watch.cursors = chats /\ DOMAIN watch.scan = chats /\ DOMAIN watch.acked = chats
      /\ watch \in Watch
  BY DEF TypeInv, TypeOK
<1>1. CASE UNCHANGED <<watch, chats>>
  BY <1>1, Unmoved, CursorsAdvance
<1>2. CASE Activate
  <2>1. /\ watch = Untouched("none", {}) /\ watch' = Untouched("activation_requested", chats)
    BY <1>2 DEF Activate, TypeInv, WatchShape
  <2>2. Rank["none"] = 0 /\ Rank["activation_requested"] = 1
    BY DEF Rank
  <2> QED BY <2>1, <2>2 DEF Untouched, Zero, Advances, Grows
<1>3. ASSUME NEW c \in Chats, AcceptChat(c) PROVE Advances
  <2>1. CASE watch.phase = "none"
    BY <1>3, <2>1, Unmoved, CursorsAdvance, AcceptChatExtends
  <2>2. CASE watch.phase # "none"
    <3>1. /\ watch'.phase = watch.phase /\ watch'.seq = watch.seq /\ c \notin chats
          /\ watch'.cursors = With(chats, c, watch.cursors)
          /\ watch'.scan = With(chats, c, watch.scan)
          /\ watch'.acked = With(chats, c, watch.acked)
      BY <1>3, <2>2, AcceptChatExtends
    <3>2. /\ Grows(watch.cursors, watch'.cursors) /\ Grows(watch.scan, watch'.scan)
          /\ Grows(watch.acked, watch'.acked)
      BY <1>0, <2>2, <3>1, CursorsAreNumbers DEF With, Grows
    <3> QED BY <3>1, <3>2, CursorsAdvance
  <2> QED BY <2>1, <2>2
<1>4. CASE ApplyPayload
  <2>1. /\ watch.phase # "none" /\ watch'.acked = watch.acked
        /\ Grows(watch.cursors, watch'.cursors) /\ Grows(watch.scan, watch'.scan)
    BY <1>0, <1>4, ApplyRaises DEF Grows
  <2>2. Grows(watch.acked, watch'.acked)
    BY <2>1, Unmoved
  <2>3. watch' = Apply(pending) /\ Applicable(pending)
    BY <1>4 DEF ApplyPayload
  <2>4. CASE Applied(pending)
    BY <2>3, <2>4, Unmoved, CursorsAdvance DEF Apply
  <2>5. CASE ~Applied(pending)
    <3>1. /\ watch'.seq = watch.seq + 1 /\ watch.seq \in Nat
      BY <1>0, <2>3, <2>5 DEF Apply, Applicable, Watch
    <3>2. \/ watch.phase = "activation_requested" /\ watch'.phase = "baseline_read_pending"
          \/ watch.phase = "active" /\ watch'.phase = "active"
      BY <2>3, <2>5 DEF Apply, Applicable
    <3>3. Rank[watch'.phase] >= Rank[watch.phase]
      BY <3>2 DEF Rank
    <3> QED BY <2>1, <2>2, <3>1, <3>3 DEF Advances
  <2> QED BY <2>4, <2>5
<1>5. CASE MorningTops
  <2>1. Grows(watch.scan, watch'.scan)
    BY <1>0, <1>5, MorningTopsRaise DEF Grows
  <2> QED BY <1>5, <2>1, MorningTopsRaise, Unmoved, CursorsAdvance
<1>6. CASE SaveReads
  <2>1. Grows(watch.acked, watch'.acked)
    BY <1>0, <1>6, SaveReadsRaises DEF Grows
  <2> QED BY <1>6, <2>1, SaveReadsRaises, Unmoved, CursorsAdvance
<1>7. CASE FinishReads
  <2>1. CASE watch' = watch
    BY <2>1, Unmoved, CursorsAdvance
  <2>2. CASE watch.phase = "baseline_read_pending" /\ watch' = [watch EXCEPT !.phase = "active"]
    <3>1. /\ watch'.phase = "active" /\ watch'.seq = watch.seq /\ watch.seq \in Nat
          /\ watch'.cursors = watch.cursors /\ watch'.scan = watch.scan
          /\ watch'.acked = watch.acked
      BY <1>0, <2>2 DEF Watch
    <3>2. Rank["active"] = 3 /\ Rank["baseline_read_pending"] = 2
      BY DEF Rank
    <3> QED BY <2>2, <3>1, <3>2, Unmoved DEF Advances
  <2> QED BY <1>7, <2>1, <2>2 DEF FinishReads
<1> QED BY <1>1, <1>2, <1>3, <1>4, <1>5, <1>6, <1>7, WatchFrame

(* No step takes the sequence, the phase or any of a chat's three cursors  *)
(* back, a new chat, a repeated payload and a stale morning answer         *)
(* included.                                                               *)
THEOREM MonitorMovesForward == Spec => MonitorAdvances
<1>1. TypeInv /\ ReadInv /\ [Next]_vars => [Advances]_vars
  BY AdvanceStep
<1> QED BY <1>1, MonitorTypesInv, MonitorReadInv, PTL DEF Spec, MonitorAdvances, Advances

-----------------------------------------------------------------------------
(* The local and the remote chain.                                         *)
(*                                                                         *)
(* Whatever the tick is doing and whichever chats are announced, the       *)
(* sequence numbers and hashes on disk and at the receiver are in one of   *)
(* four stages: nothing staged; a payload staged and not accepted;         *)
(* accepted and not applied; applied and not unlinked.                     *)

InStep == ~Staged /\ rx.next = watch.seq + 1 /\ rx.prev = watch.hash
PendingIsNext == pending.seq = watch.seq + 1 /\ pending.prev = watch.hash
RxIsAfterPending == rx.next = pending.seq + 1 /\ rx.prev = pending.hash

Waiting == Staged /\ PendingIsNext /\ rx.next = pending.seq /\ rx.prev = watch.hash
Arrived == Staged /\ PendingIsNext /\ RxIsAfterPending
Saved == Staged /\ watch.seq = pending.seq /\ watch.hash = pending.hash /\ RxIsAfterPending

Stages == InStep \/ Waiting \/ Arrived \/ Saved

(* Only the staged payload can still land.                                 *)
InflightSound ==
  /\ inflight.seq <= rx.next
  /\ inflight.seq = rx.next => Staged /\ inflight = pending

(* Mentions left by release 0.2.12 are never on their way to the receiver. *)
GateFresh == g.next = rx.next /\ g.prev = rx.prev

MentionsAlone ==
  Staged /\ pending.kind = "mentions" =>
    inflight.seq = 0 /\ pc # "upload" /\ (pc = "service" => GateFresh)

(* The tick's gate shows the receiver's position, or the staged payload    *)
(* landed after it was taken.                                              *)
GateOvertaken == Arrived /\ g.next = pending.seq

Tick ==
  /\ pc = "service" => GateFresh \/ GateOvertaken
  /\ pc = "dispatch" => ~Staged /\ GateFresh
  /\ pc = "regate" => ~Staged
  /\ pc = "upload" => Staged
  /\ pc = "apply" => Arrived \/ Saved
  /\ pc = "unlink" => Saved

ChainInv == Stages /\ InflightSound /\ MentionsAlone /\ Tick

LEMMA SequencesAreNumbers ==
  ASSUME TypeInv
  PROVE  /\ watch.seq \in Nat /\ pending.seq \in Nat /\ inflight.seq \in Nat
         /\ rx.next \in Nat /\ g.next \in Nat /\ built \in Nat
BY DEF TypeInv, TypeOK, Watch, Upload, Position

(* A step that moves neither chain, and leaves the tick where it stood or  *)
(* takes it to a place that asks nothing of the chains.                    *)
LEMMA ChainUnmoved ==
  ASSUME TypeInv, ChainInv, UNCHANGED <<inflight, pending>>,
         watch'.seq = watch.seq, watch'.hash = watch.hash,
         rx'.next = rx.next, rx'.prev = rx.prev,
         \/ UNCHANGED <<pc, g>>
         \/ pc' \in {"idle", "morning", "reads", "save", "readsDone"}
  PROVE  ChainInv'
<1>1. /\ Staged' = Staged /\ InStep' = InStep /\ Waiting' = Waiting /\ Arrived' = Arrived
      /\ Saved' = Saved
  BY DEF Staged, InStep, Waiting, Arrived, Saved, PendingIsNext, RxIsAfterPending
<1>2. Stages' /\ InflightSound'
  BY <1>1 DEF ChainInv, Stages, InflightSound
<1>3. MentionsAlone' /\ Tick'
  BY <1>1 DEF ChainInv, MentionsAlone, Tick, GateFresh, GateOvertaken
<1> QED BY <1>2, <1>3 DEF ChainInv

(* The payload in doubt reaches the receiver.                              *)
LEMMA ChainArrives ==
  ASSUME TypeInv, ChainInv, Waiting, rx' = Accepted(pending), UNCHANGED <<watch, pending>>,
         inflight'.seq \in Nat, inflight'.seq <= rx.next
  PROVE  Arrived' /\ Stages' /\ InflightSound'
<1>1. Arrived'
  BY DEF Waiting, Arrived, Accepted, Staged, PendingIsNext, RxIsAfterPending
<1>2. rx'.next = rx.next + 1
  BY DEF Waiting, Accepted
<1>3. InflightSound'
  BY <1>2, SequencesAreNumbers DEF InflightSound
<1> QED BY <1>1, <1>3 DEF Stages

(* A new payload is staged where the receiver stands.                      *)
LEMMA ChainStages ==
  ASSUME TypeInv, ChainInv, pc = "dispatch", pc' = "upload", UNCHANGED <<watch, rx, inflight, g>>,
         NEW kind \in {"baseline", "extension_baseline"}, NEW from, NEW to,
         pending' = Payload(kind, from, to)
  PROVE  ChainInv'
<1>1. InStep /\ GateFresh
  BY DEF ChainInv, Tick, Stages, Waiting, Arrived, Saved
<1>2. pending'.seq = rx.next /\ pending'.prev = rx.prev /\ pending'.kind = kind
  BY <1>1 DEF Payload, GateFresh
<1>3. Staged' /\ Waiting'
  BY <1>1, <1>2, SequencesAreNumbers DEF InStep, Staged, Waiting, PendingIsNext
<1>4. InflightSound'
  BY <1>1, <1>3 DEF ChainInv, InStep, InflightSound
<1> QED BY <1>2, <1>3, <1>4 DEF ChainInv, Stages, MentionsAlone, Tick

LEMMA ChainStep == TypeInv /\ ChainInv /\ [Next]_vars => ChainInv'
<1> SUFFICES ASSUME TypeInv, ChainInv, [Next]_vars PROVE ChainInv'
  OBVIOUS
<1>1. CASE Activate
  BY <1>1, ChainUnmoved DEF Activate, outside, local, Untouched, TypeInv, WatchShape
<1>2. ASSUME NEW c \in Chats, AcceptChat(c) PROVE ChainInv'
  <2>1. watch'.seq = watch.seq /\ watch'.hash = watch.hash
    BY <1>2, AcceptChatExtends
  <2> QED BY <1>2, <2>1, ChainUnmoved DEF AcceptChat, outside, local
<1>3. CASE TakeGate
  <2>1. UNCHANGED <<watch, pending, rx, inflight>> /\ g' = rx /\ pc' \in {"service", "morning"}
    BY <1>3 DEF TakeGate, durable, outside
  <2> QED BY <2>1 DEF ChainInv, Stages, InStep, Waiting, Arrived, Saved, Staged, PendingIsNext,
                      RxIsAfterPending, InflightSound, MentionsAlone, GateFresh, Tick
<1>4. CASE NothingStaged
  <2>1. /\ UNCHANGED <<watch, pending, rx, inflight, g>> /\ pc' = "dispatch" /\ pc = "service"
        /\ ~Staged
    BY <1>4 DEF NothingStaged, durable, outside, local
  <2>2. InStep /\ GateFresh
    BY <2>1 DEF ChainInv, Stages, Waiting, Arrived, Saved, Tick, GateOvertaken
  <2> QED BY <2>1, <2>2 DEF ChainInv, Stages, InStep, Staged, InflightSound, MentionsAlone,
                            GateFresh, Tick
<1>5. CASE ResumeAccepted
  <2>1. /\ UNCHANGED <<watch, pending, rx, inflight, g>> /\ pc' = "apply" /\ pc = "service"
        /\ Staged /\ g.next = pending.seq + 1
    BY <1>5 DEF ResumeAccepted, GateAccepted, After, durable, outside
  <2>2. Arrived \/ Saved
    BY <2>1, SequencesAreNumbers
       DEF ChainInv, Stages, InStep, Waiting, Tick, GateFresh, GateOvertaken
  <2> QED BY <2>1, <2>2 DEF ChainInv, Stages, Arrived, Saved, Staged, PendingIsNext,
                            RxIsAfterPending, InflightSound, MentionsAlone, Tick
<1>6. CASE DropMentions
  <2>1. /\ UNCHANGED <<watch, rx, inflight, g>> /\ pc' = "regate" /\ pc = "service"
        /\ Staged /\ pending.kind = "mentions" /\ pending' = NoUpload
        /\ g.next = watch.seq + 1 /\ g.prev = watch.hash
    BY <1>6 DEF DropMentions, Expected, outside, local
  <2>2. ~Staged' /\ InStep' /\ inflight.seq = 0
    BY <2>1 DEF ChainInv, MentionsAlone, GateFresh, NoUpload, Staged, InStep
  <2>3. InflightSound'
    BY <2>1, <2>2, SequencesAreNumbers DEF InflightSound, InStep
  <2> QED BY <2>1, <2>2, <2>3 DEF ChainInv, Stages, MentionsAlone, Tick
<1>7. CASE ResumeUpload
  <2>1. /\ UNCHANGED <<watch, pending, rx, inflight, g>> /\ pc' = "upload"
        /\ Staged /\ pending.kind # "mentions"
    BY <1>7 DEF ResumeUpload, durable, outside
  <2> QED BY <2>1 DEF ChainInv, Stages, InStep, Waiting, Arrived, Saved, Staged, PendingIsNext,
                      RxIsAfterPending, InflightSound, MentionsAlone, Tick
<1>8. CASE Regate
  <2>1. /\ UNCHANGED <<watch, pending, rx, inflight>> /\ g' = rx /\ pc' = "dispatch" /\ ~Staged
    BY <1>8 DEF Regate, durable, outside, ChainInv, Tick
  <2>2. InStep
    BY <2>1 DEF ChainInv, Stages, Waiting, Arrived, Saved
  <2> QED BY <2>1, <2>2 DEF ChainInv, Stages, InStep, Staged, InflightSound, MentionsAlone,
                            GateFresh, Tick
<1>9. CASE BuildBaseline
  <2>1. PICK tops \in [chats -> MessageIds] : pending' = Payload("baseline", g.cursors, tops)
    BY <1>9 DEF BuildBaseline
  <2> QED BY <1>9, <2>1, ChainStages DEF BuildBaseline, outside, local
<1>10. CASE BuildExtension
  <2>1. PICK tops \in [watch.awaiting -> MessageIds] :
          pending' = Payload("extension_baseline", Zero(watch.awaiting), tops)
    BY <1>10 DEF BuildExtension
  <2> QED BY <1>10, <2>1, ChainStages DEF BuildExtension, outside, local
<1>11. CASE ServiceDone \/ BaselineReads \/ SnapshotTimeout
  BY <1>11, ChainUnmoved DEF ServiceDone, BaselineReads, SnapshotTimeout, durable, outside
<1>12. CASE Refuse \/ Abort \/ Crash
  BY <1>12, ChainUnmoved DEF Refuse, EndTick, Abort, Crash, durable, outside
<1>13. CASE UploadReceipted
  <2>1. /\ UNCHANGED <<watch, pending, inflight>> /\ pc = "upload" /\ pc' = "apply"
        /\ \/ Accepts(pending) /\ rx' = Accepted(pending)
           \/ IsDuplicate(pending) /\ rx' = rx
    BY <1>13 DEF UploadReceipted, durable
  <2>2. Staged /\ pending.kind # "mentions"
    BY <2>1 DEF ChainInv, Tick, MentionsAlone
  <2>3. CASE Accepts(pending) /\ rx' = Accepted(pending)
    <3>1. Waiting
      BY <2>2, <2>3, SequencesAreNumbers
         DEF ChainInv, Stages, InStep, Arrived, Saved, RxIsAfterPending, Accepts
    <3>2. Arrived' /\ Stages' /\ InflightSound'
      BY <2>1, <2>3, <3>1, ChainArrives, SequencesAreNumbers DEF ChainInv, InflightSound
    <3> QED BY <2>1, <2>2, <3>2 DEF ChainInv, MentionsAlone, Tick
  <2>4. CASE IsDuplicate(pending) /\ rx' = rx
    <3>1. Arrived \/ Saved
      BY <2>2, <2>4, SequencesAreNumbers DEF ChainInv, Stages, InStep, Waiting, IsDuplicate
    <3> QED BY <2>1, <2>2, <2>4, <3>1
         DEF ChainInv, Stages, Arrived, Saved, Staged, PendingIsNext, RxIsAfterPending,
             InflightSound, MentionsAlone, Tick
  <2> QED BY <2>1, <2>3, <2>4
<1>14. CASE ApplyPayload
  <2>1. /\ UNCHANGED <<pending, rx, inflight>> /\ pc' = "unlink" /\ watch' = Apply(pending)
        /\ Arrived \/ Saved
    BY <1>14 DEF ApplyPayload, outside, ChainInv, Tick
  <2>2. watch'.seq = pending.seq /\ watch'.hash = pending.hash
    BY <2>1, SequencesAreNumbers DEF Arrived, Saved, PendingIsNext, Apply, Applied
  <2>3. Saved'
    BY <2>1, <2>2 DEF Arrived, Saved, Staged, RxIsAfterPending
  <2> QED BY <2>1, <2>3 DEF ChainInv, Stages, InflightSound, Staged, MentionsAlone, Tick
<1>15. CASE UnlinkPending
  <2>1. /\ UNCHANGED <<watch, rx, inflight>> /\ pending' = NoUpload /\ Saved
        /\ pc' \in {"regate", "reads", "morning"}
    BY <1>15 DEF UnlinkPending, outside, ChainInv, Tick
  <2>2. InStep' /\ ~Staged'
    BY <2>1 DEF Saved, RxIsAfterPending, InStep, NoUpload, Staged
  <2>3. inflight.seq # rx.next
    BY <2>1, SequencesAreNumbers DEF ChainInv, InflightSound, Saved, RxIsAfterPending
  <2>4. InflightSound'
    BY <2>1, <2>3 DEF ChainInv, InflightSound
  <2> QED BY <2>1, <2>2, <2>4 DEF ChainInv, Stages, MentionsAlone, Tick
<1>16. CASE MorningTops
  BY <1>16, MorningTopsRaise, ChainUnmoved DEF MorningTops, outside
<1>17. CASE SendReads \/ NothingUnread
  BY <1>17, ChainUnmoved DEF SendReads, NothingUnread, durable, outside
<1>18. CASE SaveReads
  <2>1. watch'.seq = watch.seq /\ watch'.hash = watch.hash
    BY <1>18 DEF SaveReads, TypeInv, TypeOK, Watch
  <2> QED BY <1>18, <2>1, ChainUnmoved DEF SaveReads, outside
<1>19. CASE FinishReads
  <2>1. watch'.seq = watch.seq /\ watch'.hash = watch.hash
    BY <1>19 DEF FinishReads, TypeInv, TypeOK, Watch
  <2> QED BY <1>19, <2>1, ChainUnmoved DEF FinishReads, outside
<1>20. ASSUME NEW c \in Chats, Announce(c) PROVE ChainInv'
  <2>1. rx'.next = rx.next /\ rx'.prev = rx.prev
    BY <1>20 DEF Announce, TypeInv, TypeOK, Position
  <2> QED BY <1>20, <2>1, ChainUnmoved DEF Announce, durable, local
<1>21. CASE Land
  <2>1. /\ UNCHANGED <<watch, pending, pc, g>> /\ inflight' = NoUpload /\ inflight.seq > 0
        /\ inflight.seq = rx.next /\ rx' = Accepted(inflight)
    BY <1>21 DEF Land, Accepts, durable, local
  <2>2. Staged /\ inflight = pending /\ pending.kind # "mentions"
    BY <2>1, SequencesAreNumbers DEF ChainInv, InflightSound, MentionsAlone
  <2>3. Waiting
    BY <2>1, <2>2, SequencesAreNumbers
       DEF ChainInv, Stages, InStep, Arrived, Saved, RxIsAfterPending
  <2>4. Arrived' /\ Stages' /\ InflightSound'
    BY <2>1, <2>2, <2>3, ChainArrives, SequencesAreNumbers DEF NoUpload
  <2>5. ~Arrived /\ ~Saved
    BY <2>1, <2>2, SequencesAreNumbers DEF Arrived, Saved, RxIsAfterPending
  <2>6. pc = "service" => g.next = pending.seq
    BY <2>1, <2>2, <2>5 DEF ChainInv, Tick, GateFresh, GateOvertaken
  <2>7. Tick'
    BY <2>1, <2>2, <2>4, <2>5, <2>6 DEF ChainInv, Tick, GateOvertaken, Staged
  <2> QED BY <2>1, <2>2, <2>4, <2>7 DEF ChainInv, MentionsAlone
<1>22. CASE CutOff
  <2>1. /\ UNCHANGED <<watch, pending, rx>> /\ inflight' = pending /\ pc' = "idle" /\ pc = "upload"
    BY <1>22 DEF CutOff, durable
  <2>2. Staged /\ pending.kind # "mentions"
    BY <2>1 DEF ChainInv, Tick, MentionsAlone
  <2>3. pending.seq <= rx.next
    BY <2>2, SequencesAreNumbers
       DEF ChainInv, Stages, InStep, Waiting, Arrived, Saved, RxIsAfterPending
  <2> QED BY <2>1, <2>2, <2>3 DEF ChainInv, Stages, InStep, Waiting, Arrived, Saved, Staged,
                PendingIsNext, RxIsAfterPending, InflightSound, MentionsAlone, Tick
<1>23. CASE UNCHANGED vars
  BY <1>23, ChainUnmoved DEF vars, durable, outside, local
<1> QED
  BY <1>1, <1>2, <1>3, <1>4, <1>5, <1>6, <1>7, <1>8, <1>9, <1>10, <1>11, <1>12, <1>13, <1>14,
     <1>15, <1>16, <1>17, <1>18, <1>19, <1>20, <1>21, <1>22, <1>23
     DEF Next, Administer, SettleStaged, Dispatch, Reads, Environment

LEMMA ChainInit == Init => ChainInv
<1> SUFFICES ASSUME Init PROVE ChainInv
  OBVIOUS
<1>1. inflight.seq = 0 /\ pc = "idle"
  BY DEF Init, NoUpload
<1>2. CASE Installed
  BY <1>1, <1>2 DEF Installed, Untouched, NoUpload, ChainInv, Stages, InStep, Staged,
                    InflightSound, MentionsAlone, Tick
<1>3. CASE Upgraded
  <2>1. watch.seq = 1 /\ watch.hash = 1
    BY <1>3 DEF Upgraded, Untouched
  <2>2. pending.seq = 2 /\ pending.prev = 1 /\ pending.hash = 2
    BY <1>3 DEF Upgraded, Mentions
  <2>3. (rx.next = 2 /\ rx.prev = 1) \/ (rx.next = 3 /\ rx.prev = 2)
    BY <1>3 DEF Upgraded
  <2> QED BY <1>1, <2>1, <2>2, <2>3 DEF ChainInv, Stages, Waiting, Arrived, Staged,
                PendingIsNext, RxIsAfterPending, InflightSound, MentionsAlone, Tick
<1> QED BY <1>2, <1>3 DEF Init

LEMMA MonitorChainInv == Spec => []ChainInv
BY ChainInit, ChainStep, MonitorTypesInv, PTL DEF Spec

-----------------------------------------------------------------------------
(* What is accepted is applied before it leaves the disk.                  *)

LEMMA DropStep ==
  ASSUME TypeInv, ChainInv, [Next]_vars, Staged, pending'.seq = 0
  PROVE  watch.hash = pending.hash \/ rx.prev # pending.hash
<1>1. CASE UNCHANGED pending
  BY <1>1, SequencesAreNumbers DEF Staged
<1>2. CASE BuildBaseline \/ BuildExtension
  BY <1>2 DEF BuildBaseline, BuildExtension, ChainInv, Tick
<1>3. CASE DropMentions
  <2>1. g.prev = watch.hash /\ g.prev = rx.prev
    BY <1>3 DEF DropMentions, Expected, ChainInv, MentionsAlone, GateFresh
  <2> QED BY <2>1
<1>4. CASE UnlinkPending
  BY <1>4 DEF UnlinkPending, ChainInv, Tick, Saved
<1> QED BY <1>1, <1>2, <1>3, <1>4, PendingFrame

(* A payload the receiver has accepted stays on disk until the guardian    *)
(* has applied it: mentions are dropped only where the receiver cannot     *)
(* have them, because they are never sent again and nothing sent before    *)
(* can still land.                                                         *)
THEOREM MonitorKeepsAccepted == Spec => AcceptedIsNeverDropped
<1>1. TypeInv /\ ChainInv /\ [Next]_vars =>
        [(Staged /\ pending'.seq = 0) => watch.hash = pending.hash \/ rx.prev # pending.hash]_vars
  BY DropStep
<1> QED BY <1>1, MonitorTypesInv, MonitorChainInv, PTL DEF Spec, AcceptedIsNeverDropped

-----------------------------------------------------------------------------
(* The monitor implements the receipted stream.                            *)

LEMMA StreamStep ==
  ASSUME TypeInv, ChainInv, [Next]_vars
  PROVE  [Stream!Next]_(Stream!vars)
<1> USE DEF Stream!Next, Stream!Accept, Stream!Settle, Stream!vars
<1>1. ASSUME rx'.next = rx.next, watch'.seq = watch.seq PROVE [Stream!Next]_(Stream!vars)
  BY <1>1
<1>2. ASSUME Waiting, rx' = Accepted(pending), UNCHANGED watch
      PROVE  [Stream!Next]_(Stream!vars)
  BY <1>2, SequencesAreNumbers DEF Waiting, PendingIsNext, Accepted
<1>3. ASSUME UNCHANGED <<watch, rx>> PROVE [Stream!Next]_(Stream!vars)
  BY <1>1, <1>3
<1>4. CASE UNCHANGED <<watch, chats>>
  <2>1. CASE UNCHANGED <<rx, inflight>>
    BY <1>3, <1>4, <2>1
  <2>2. ASSUME NEW c \in Chats, Announce(c) PROVE [Stream!Next]_(Stream!vars)
    BY <1>1, <1>4, <2>2 DEF Announce, TypeInv, TypeOK, Position
  <2>3. CASE Land
    <3>1. Staged /\ inflight = pending /\ inflight.seq = rx.next
      BY <2>3 DEF Land, Accepts, ChainInv, InflightSound
    <3>2. Waiting
      BY <3>1, SequencesAreNumbers
         DEF ChainInv, Stages, InStep, Arrived, Saved, RxIsAfterPending
    <3> QED BY <1>2, <1>4, <2>3, <3>1, <3>2 DEF Land
  <2>4. CASE UploadReceipted
    <3>1. Staged
      BY <2>4 DEF UploadReceipted, ChainInv, Tick
    <3>2. Accepts(pending) => Waiting
      BY <3>1, SequencesAreNumbers
         DEF ChainInv, Stages, InStep, Arrived, Saved, RxIsAfterPending, Accepts
    <3> QED BY <1>2, <1>3, <1>4, <2>4, <3>2 DEF UploadReceipted
  <2>5. CASE CutOff
    BY <1>3, <1>4, <2>5 DEF CutOff
  <2> QED BY <2>1, <2>2, <2>3, <2>4, <2>5, ReceiverFrame
<1>5. CASE Activate
  BY <1>1, <1>5 DEF Activate, outside, Untouched, TypeInv, WatchShape
<1>6. ASSUME NEW c \in Chats, AcceptChat(c) PROVE [Stream!Next]_(Stream!vars)
  <2>1. watch'.seq = watch.seq
    BY <1>6, AcceptChatExtends
  <2> QED BY <1>1, <1>6, <2>1 DEF AcceptChat, outside
<1>7. CASE ApplyPayload
  <2>1. watch' = Apply(pending) /\ rx' = rx /\ (Arrived \/ Saved)
    BY <1>7 DEF ApplyPayload, outside, ChainInv, Tick
  <2>2. CASE Saved
    BY <1>3, <2>1, <2>2 DEF Saved, Apply, Applied
  <2>3. CASE Arrived
    <3>1. watch'.seq = pending.seq /\ pending.seq = watch.seq + 1 /\ rx.next = pending.seq + 1
      BY <2>1, <2>3, SequencesAreNumbers
         DEF Arrived, PendingIsNext, RxIsAfterPending, Apply, Applied
    <3> QED BY <2>1, <3>1, SequencesAreNumbers
  <2> QED BY <2>1, <2>2, <2>3
<1>8. CASE MorningTops
  BY <1>1, <1>8, MorningTopsRaise DEF MorningTops, outside
<1>9. CASE SaveReads
  BY <1>1, <1>9 DEF SaveReads, outside, TypeInv, TypeOK, Watch
<1>10. CASE FinishReads
  BY <1>1, <1>10 DEF FinishReads, outside, TypeInv, TypeOK, Watch
<1> QED BY <1>4, <1>5, <1>6, <1>7, <1>8, <1>9, <1>10, WatchFrame

LEMMA StreamInit ==
  ASSUME TypeInv, ChainInv
  PROVE  Stream!Init
BY SequencesAreNumbers DEF ChainInv, Stages, InStep, Waiting, Arrived, Saved, PendingIsNext,
   RxIsAfterPending, Stream!Init

(* The receiver accepts one monitor payload at a time, each one only after *)
(* the guardian has settled the one before, and the guardian settles it    *)
(* exactly once: whatever the operator announces and whenever.             *)
THEOREM MonitorImplementsStream == Spec => StreamSpec
<1>1. Init => Stream!Init
  BY TypeInit, ChainInit, StreamInit
<1> QED BY <1>1, StreamStep, MonitorTypesInv, MonitorChainInv, PTL
        DEF Spec, StreamSpec, Stream!Spec

-----------------------------------------------------------------------------
(* With a careful operator: the cursors agree too.                         *)

(* The receiver's cursor of a chat as the guardian's files know it.        *)
LocalCursor(c) ==
  IF (Arrived \/ Saved) /\ c \in DOMAIN pending.to THEN pending.to[c] ELSE watch.cursors[c]

RxCursorsAgree ==
  /\ chats \subseteq DOMAIN rx.cursors
  /\ \A c \in DOMAIN rx.cursors \ chats : rx.cursors[c] = 0
  /\ watch.phase = "none" => \A c \in chats : rx.cursors[c] = 0
  /\ watch.phase # "none" => \A c \in chats : rx.cursors[c] = LocalCursor(c)

(* At most one chat is announced and not accepted, and only to a settled   *)
(* monitor; the first baseline is what gives the chain its first number.   *)
AnnouncedLate ==
  /\ watch.phase # "active" \/ Staged \/ watch.awaiting # {} => DOMAIN rx.cursors = chats
  /\ \A c, d \in DOMAIN rx.cursors \ chats : c = d
  /\ watch.phase # "active" => watch.awaiting = {}
  /\ watch.phase \in {"none", "activation_requested"} <=> watch.seq = 0

AwaitingAtZero ==
  \A c \in watch.awaiting : c \in chats /\ watch.cursors[c] = 0 /\ watch.scan[c] = 0

(* The staged payload continues the local cursors, and an applied one is   *)
(* what they are.                                                          *)
PendingFits ==
  Waiting \/ Arrived =>
    /\ watch.phase = IF pending.kind = "baseline" THEN "activation_requested" ELSE "active"
    /\ pending.kind = "extension_baseline" \/ DOMAIN pending.to \cap watch.awaiting = {}
    /\ \A c \in DOMAIN pending.to :
         c \in chats /\ watch.cursors[c] = pending.from[c] /\ pending.to[c] >= watch.scan[c]

SavedFits == Saved => \A c \in DOMAIN pending.to : c \in chats /\ watch.cursors[c] = pending.to[c]

Agreement == RxCursorsAgree /\ AnnouncedLate /\ AwaitingAtZero /\ PendingFits /\ SavedFits

(* While a payload is staged the tick only settles it, and the gate is the *)
(* receiver's position or the one a late landing has just left.            *)
CarefulTick ==
  /\ Staged => pc \in {"idle", "service", "upload", "apply", "unlink"}
  /\ pc = "service" => g = rx \/ (Arrived /\ g = Expected)
  /\ pc = "dispatch" => g = rx

(* The staged cases exclude each other.                                    *)
LEMMA StagesAreDistinct ==
  ASSUME TypeInv
  PROVE  /\ InStep => ~Staged /\ ~Waiting /\ ~Arrived /\ ~Saved
         /\ Waiting => Staged /\ ~Arrived /\ ~Saved
         /\ Arrived => Staged /\ ~Saved
         /\ Saved => Staged /\ rx.next = watch.seq + 1 /\ rx.prev = watch.hash
BY SequencesAreNumbers DEF InStep, Waiting, Arrived, Saved, PendingIsNext, RxIsAfterPending

LEMMA PositionParts ==
  ASSUME NEW p \in Position, NEW q \in Position,
         p.next = q.next, p.prev = q.prev, p.cursors = q.cursors
  PROVE  p = q
BY DEF Position

(* Vectors over the locked chats are compared chat by chat.                *)
LEMMA SameVector ==
  ASSUME NEW f \in Cursors, NEW h \in Cursors, DOMAIN f = DOMAIN h,
         \A c \in DOMAIN f : f[c] = h[c]
  PROVE  f = h
BY CursorVector

LEMMA OnlyIsCursorVector ==
  ASSUME NEW f \in Cursors, NEW S, S \subseteq DOMAIN f
  PROVE  /\ Only(S, f) \in Cursors /\ DOMAIN Only(S, f) = S
         /\ \A c \in S : Only(S, f)[c] = f[c]
<1>1. S \cap DOMAIN f = S /\ S \subseteq Chats
  BY CursorVector
<1>2. Only(S, f) \in [S -> MessageIds]
  BY <1>1, CursorVector DEF Only
<1> QED BY <1>1, <1>2, MakeCursorVector DEF Only

(* The receiver's position, seen over the locked chats, is the one the     *)
(* guardian expects or the one behind the staged payload.                  *)
LEMMA ReceiverIsExpected ==
  ASSUME TypeInv, ChainInv, Agreement, watch.phase # "none"
  PROVE  /\ InStep \/ Waiting \/ Saved =>
               SettledPosition(rx) = Expected /\ (DOMAIN rx.cursors = chats => rx = Expected)
         /\ Arrived =>
               /\ SettledPosition(rx) = After(pending)
               /\ DOMAIN rx.cursors = chats => rx = After(pending)
<1>1. /\ rx \in Position /\ rx.cursors \in Cursors /\ watch.cursors \in Cursors
      /\ pending.to \in Cursors /\ DOMAIN watch.cursors = chats
      /\ watch.seq \in Nat /\ watch.hash \in Nat /\ pending.seq \in Nat /\ pending.hash \in Nat
  BY DEF TypeInv, TypeOK, Position, Watch, Upload
<1>2. chats \subseteq DOMAIN rx.cursors /\ \A c \in chats : rx.cursors[c] = LocalCursor(c)
  BY DEF Agreement, RxCursorsAgree
<1>3. /\ Only(chats, rx.cursors) \in Cursors /\ DOMAIN Only(chats, rx.cursors) = chats
      /\ \A c \in chats : Only(chats, rx.cursors)[c] = rx.cursors[c]
  BY <1>1, <1>2, OnlyIsCursorVector
<1>4. /\ SettledPosition(rx) \in Position /\ SettledPosition(rx).next = rx.next
      /\ SettledPosition(rx).prev = rx.prev
      /\ SettledPosition(rx).cursors = Only(chats, rx.cursors)
  BY <1>1, <1>3 DEF SettledPosition, Position
<1>5. ASSUME InStep \/ Waiting \/ Saved
      PROVE  SettledPosition(rx) = Expected /\ (DOMAIN rx.cursors = chats => rx = Expected)
  <2>1. rx.next = watch.seq + 1 /\ rx.prev = watch.hash
    BY <1>5, StagesAreDistinct DEF InStep, Waiting, PendingIsNext
  <2>2. \A c \in chats : rx.cursors[c] = watch.cursors[c]
    BY <1>2, <1>5, StagesAreDistinct DEF LocalCursor, Agreement, SavedFits
  <2>3. Expected \in Position /\ Expected.cursors = watch.cursors
    BY <1>1 DEF Expected, Position
  <2>4. Only(chats, rx.cursors) = watch.cursors
    BY <1>1, <1>3, <2>2, SameVector
  <2>5. DOMAIN rx.cursors = chats => rx.cursors = watch.cursors
    BY <1>1, <2>2, SameVector
  <2>6. SettledPosition(rx) = Expected
    BY <1>4, <2>1, <2>3, <2>4, PositionParts DEF Expected
  <2>7. DOMAIN rx.cursors = chats => rx = Expected
    BY <1>1, <2>1, <2>3, <2>5, PositionParts DEF Expected
  <2> QED BY <2>6, <2>7
<1>6. ASSUME Arrived
      PROVE  /\ SettledPosition(rx) = After(pending)
             /\ DOMAIN rx.cursors = chats => rx = After(pending)
  <2> DEFINE moved == Override(watch.cursors, pending.to)
  <2>1. rx.next = pending.seq + 1 /\ rx.prev = pending.hash
    BY <1>6 DEF Arrived, RxIsAfterPending
  <2>2. moved \in Cursors /\ DOMAIN moved = chats
    BY <1>1, OverrideIsCursorVector
  <2>3. \A c \in chats : rx.cursors[c] = moved[c]
    BY <1>1, <1>2, <1>6 DEF LocalCursor, Override
  <2>4. After(pending) = [next |-> pending.seq + 1, prev |-> pending.hash, cursors |-> moved]
    BY DEF After
  <2> HIDE DEF moved
  <2>5. After(pending) \in Position /\ After(pending).cursors = moved
    BY <1>1, <2>2, <2>4 DEF Position
  <2>6. Only(chats, rx.cursors) = moved
    BY <1>3, <2>2, <2>3, SameVector
  <2>7. DOMAIN rx.cursors = chats => rx.cursors = moved
    BY <1>1, <2>2, <2>3, SameVector
  <2>8. SettledPosition(rx) = After(pending)
    BY <1>4, <2>1, <2>4, <2>5, <2>6, PositionParts
  <2>9. DOMAIN rx.cursors = chats => rx = After(pending)
    BY <1>1, <2>1, <2>4, <2>5, <2>7, PositionParts
  <2> QED BY <2>8, <2>9
<1> QED BY <1>5, <1>6

(* A step that leaves the files, the chats and the receiver as they are.   *)
LEMMA AgreementUnmoved ==
  ASSUME Agreement, UNCHANGED <<chats, pending, rx>>,
         watch'.phase = watch.phase, watch'.seq = watch.seq, watch'.hash = watch.hash,
         watch'.cursors = watch.cursors, watch'.scan = watch.scan,
         watch'.awaiting = watch.awaiting
  PROVE  Agreement'
<1>1. /\ Staged' = Staged /\ Waiting' = Waiting /\ Arrived' = Arrived /\ Saved' = Saved
  BY DEF Staged, Waiting, Arrived, Saved, PendingIsNext, RxIsAfterPending
<1>2. RxCursorsAgree' /\ AnnouncedLate' /\ AwaitingAtZero'
  BY <1>1 DEF Agreement, RxCursorsAgree, LocalCursor, AnnouncedLate, AwaitingAtZero
<1>3. PendingFits' /\ SavedFits'
  BY <1>1 DEF Agreement, PendingFits, SavedFits
<1> QED BY <1>2, <1>3 DEF Agreement

(* With nothing staged the cursors agree as they stand.                    *)
LEMMA NothingStagedAgrees ==
  ASSUME TypeInv, ChainInv, Agreement, ~Staged
  PROVE  /\ InStep /\ ~Waiting /\ ~Arrived /\ ~Saved
         /\ watch.phase # "none" => \A c \in chats : rx.cursors[c] = watch.cursors[c]
<1>1. InStep /\ ~Waiting /\ ~Arrived /\ ~Saved
  BY DEF ChainInv, Stages, Waiting, Arrived, Saved
<1> QED BY <1>1 DEF Agreement, RxCursorsAgree, LocalCursor

(* A payload leaves the disk.                                              *)
LEMMA AgreementDrops ==
  ASSUME TypeInv, Agreement, ~Arrived, UNCHANGED <<chats, watch, rx>>, ~Staged'
  PROVE  Agreement'
<1>1. ~Waiting' /\ ~Arrived' /\ ~Saved'
  BY DEF Waiting, Arrived, Saved
<1>2. \A c \in chats : LocalCursor(c) = watch.cursors[c]
  BY DEF Agreement, SavedFits, LocalCursor
<1>3. RxCursorsAgree'
  BY <1>1, <1>2 DEF Agreement, RxCursorsAgree, LocalCursor
<1> QED BY <1>1, <1>3 DEF Agreement, AnnouncedLate, AwaitingAtZero, PendingFits, SavedFits

(* The staged payload is accepted.                                         *)
LEMMA AgreementArrives ==
  ASSUME TypeInv, Agreement, Waiting, Arrived', rx' = Accepted(pending),
         UNCHANGED <<chats, watch, pending>>
  PROVE  Agreement'
<1>1. /\ Staged /\ Staged' /\ ~Waiting' /\ ~Saved' /\ ~Arrived /\ ~Saved
  BY SequencesAreNumbers DEF Waiting, Arrived, Saved, PendingIsNext, RxIsAfterPending, Staged
<1>2. rx.cursors \in Cursors /\ pending.to \in Cursors
  BY DEF TypeInv, TypeOK, Position, Upload
<1>3. rx'.cursors = Override(rx.cursors, pending.to) /\ DOMAIN rx'.cursors = DOMAIN rx.cursors
  BY <1>2, OverrideIsCursorVector DEF Accepted
<1>4. DOMAIN rx.cursors = chats
  BY <1>1 DEF Agreement, AnnouncedLate
<1>5. watch.phase # "none"
  BY DEF Agreement, PendingFits
<1>6. \A c \in chats : rx'.cursors[c] = LocalCursor(c)'
  BY <1>1, <1>3, <1>4, <1>5 DEF Override, Agreement, RxCursorsAgree, LocalCursor
<1>7. RxCursorsAgree'
  BY <1>3, <1>4, <1>5, <1>6 DEF RxCursorsAgree
<1>8. PendingFits' /\ SavedFits'
  BY <1>1 DEF Agreement, PendingFits, SavedFits
<1>9. AnnouncedLate' /\ AwaitingAtZero'
  BY <1>1, <1>3, <1>4 DEF Agreement, AnnouncedLate, AwaitingAtZero
<1> QED BY <1>7, <1>8, <1>9 DEF Agreement

(* The accepted payload is applied.                                        *)
LEMMA AgreementApplies ==
  ASSUME TypeInv, Agreement, Arrived, Saved', watch' = Apply(pending),
         UNCHANGED <<chats, pending, rx>>
  PROVE  Agreement'
<1>1. /\ Staged /\ Staged' /\ ~Waiting' /\ ~Arrived'
  BY SequencesAreNumbers DEF Waiting, Arrived, Saved, PendingIsNext, RxIsAfterPending, Staged
<1>2. /\ watch.phase = IF pending.kind = "baseline" THEN "activation_requested" ELSE "active"
      /\ pending.kind = "extension_baseline" \/ DOMAIN pending.to \cap watch.awaiting = {}
      /\ \A c \in DOMAIN pending.to : c \in chats
  BY DEF Agreement, PendingFits
<1>3. /\ DOMAIN rx.cursors = chats /\ DOMAIN watch.cursors = chats /\ DOMAIN watch.scan = chats
  BY <1>1, <1>2 DEF Agreement, AnnouncedLate, TypeInv, TypeOK
<1>4. /\ watch'.phase = IF pending.kind = "baseline" THEN "baseline_read_pending" ELSE watch.phase
      /\ watch'.seq = pending.seq
      /\ watch'.cursors = Override(watch.cursors, pending.to)
      /\ watch'.scan = Override(watch.scan, pending.to)
      /\ watch'.awaiting = IF pending.kind = "extension_baseline"
                           THEN watch.awaiting \ DOMAIN pending.to ELSE watch.awaiting
  BY SequencesAreNumbers DEF Apply, Applied, Arrived, PendingIsNext
<1>5. \A c \in chats : /\ LocalCursor(c)' = LocalCursor(c)
                       /\ c \in DOMAIN pending.to => watch'.cursors[c] = pending.to[c]
                       /\ c \notin DOMAIN pending.to =>
                            watch'.cursors[c] = watch.cursors[c] /\ watch'.scan[c] = watch.scan[c]
  BY <1>3, <1>4 DEF LocalCursor, Override
<1>6. RxCursorsAgree'
  BY <1>2, <1>4, <1>5 DEF Agreement, RxCursorsAgree
<1>7. AnnouncedLate'
  <2>1. watch'.seq # 0 /\ watch'.phase \in {"baseline_read_pending", "active"}
    BY <1>1, <1>2, <1>4 DEF Staged
  <2>2. watch'.phase # "active" => watch'.awaiting = {}
    BY <1>2, <1>4 DEF Agreement, AnnouncedLate
  <2> QED BY <1>3, <2>1, <2>2 DEF AnnouncedLate
<1>8. AwaitingAtZero'
  <2> SUFFICES ASSUME NEW c \in watch'.awaiting
               PROVE  c \in chats /\ watch'.cursors[c] = 0 /\ watch'.scan[c] = 0
    BY DEF AwaitingAtZero
  <2>1. c \in watch.awaiting /\ c \notin DOMAIN pending.to
    BY <1>2, <1>4
  <2> QED BY <1>5, <2>1 DEF Agreement, AwaitingAtZero
<1>9. PendingFits' /\ SavedFits'
  BY <1>1, <1>2, <1>5 DEF PendingFits, SavedFits
<1> QED BY <1>6, <1>7, <1>8, <1>9 DEF Agreement

(* A payload is staged on the cursors of the gate.                         *)
LEMMA AgreementStages ==
  ASSUME TypeInv, ChainInv, Agreement, ~Staged, watch.phase # "none",
         UNCHANGED <<chats, watch, rx>>,
         DOMAIN rx.cursors = chats, Waiting',
         watch.phase = IF pending'.kind = "baseline" THEN "activation_requested" ELSE "active",
         pending'.kind = "extension_baseline" \/ watch.awaiting = {},
         \A c \in DOMAIN pending'.to :
           /\ c \in chats /\ watch.cursors[c] = pending'.from[c]
           /\ pending'.to[c] >= watch.scan[c]
  PROVE  Agreement'
<1>1. ~Arrived' /\ ~Saved' /\ Staged'
  BY SequencesAreNumbers DEF Waiting, Arrived, Saved, PendingIsNext, RxIsAfterPending
<1>2. \A c \in chats : rx.cursors[c] = watch.cursors[c]
  BY NothingStagedAgrees
<1>3. RxCursorsAgree'
  BY <1>1, <1>2 DEF RxCursorsAgree, LocalCursor
<1>4. PendingFits' /\ SavedFits'
  BY <1>1 DEF PendingFits, SavedFits
<1>5. AnnouncedLate' /\ AwaitingAtZero'
  BY <1>1 DEF Agreement, AnnouncedLate, AwaitingAtZero
<1> QED BY <1>3, <1>4, <1>5 DEF Agreement

(* The receiver accepts only the staged payload, and only once.            *)
LEMMA AcceptedIsPending ==
  ASSUME TypeInv, ChainInv, [Next]_vars
  PROVE  /\ Land => Waiting /\ rx' = Accepted(pending)
         /\ UploadReceipted => rx' = rx \/ (Waiting /\ rx' = Accepted(pending))
<1>1. CASE Land
  <2>1. Staged /\ inflight = pending /\ inflight.seq = rx.next
    BY <1>1 DEF Land, Accepts, ChainInv, InflightSound
  <2>2. Waiting
    BY <2>1, SequencesAreNumbers DEF ChainInv, Stages, InStep, Arrived, Saved, RxIsAfterPending
  <2> QED BY <1>1, <2>1, <2>2 DEF Land, UploadReceipted, Accepted, Waiting, Staged
<1>2. CASE UploadReceipted
  <2>1. Staged
    BY <1>2 DEF UploadReceipted, ChainInv, Tick
  <2>2. Accepts(pending) => Waiting
    BY <2>1, SequencesAreNumbers
       DEF ChainInv, Stages, InStep, Arrived, Saved, RxIsAfterPending, Accepts
  <2> QED BY <1>2, <2>2 DEF UploadReceipted, Land, TypeInv, TypeOK
<1> QED BY <1>1, <1>2

LEMMA AgreementStep ==
  ASSUME Careful, TypeInv, ReadInv, ChainInv, Agreement, CarefulTick, [Next]_vars
  PROVE  Agreement'
<1>1. CASE UNCHANGED <<watch, chats, pending, rx>>
  BY <1>1, AgreementUnmoved
<1>2. CASE Activate
  <2>1. /\ watch.phase = "none" /\ UNCHANGED <<chats, pending, rx>>
        /\ watch' = Untouched("activation_requested", chats)
    BY <1>2 DEF Activate, outside
  <2>2. watch.seq = 0 /\ watch.hash = 0 /\ watch'.seq = 0 /\ watch'.phase = "activation_requested"
    BY <2>1 DEF TypeInv, WatchShape, Untouched
  <2>3. ~Waiting /\ ~Arrived /\ ~Saved
    BY <2>1, <2>2 DEF Agreement, PendingFits, Saved, Staged
  <2>4. ~Waiting' /\ ~Arrived' /\ ~Saved' /\ ~Staged'
    BY <2>1, <2>2, <2>3 DEF ChainInv, Stages, InStep, Waiting, Arrived, Saved, Staged
  <2>5. /\ watch'.cursors = Zero(chats) /\ watch'.scan = Zero(chats) /\ watch'.awaiting = {}
    BY <2>1 DEF Untouched
  <2>6. RxCursorsAgree'
    BY <2>1, <2>2, <2>4, <2>5 DEF Agreement, RxCursorsAgree, LocalCursor, Zero
  <2>7. AnnouncedLate'
    BY <2>1, <2>2, <2>4, <2>5 DEF Agreement, AnnouncedLate
  <2> QED BY <2>4, <2>5, <2>6, <2>7 DEF Agreement, AwaitingAtZero, PendingFits, SavedFits
<1>3. ASSUME NEW c \in Chats, AcceptChat(c) PROVE Agreement'
  <2>1. /\ chats' = chats \cup {c} /\ c \notin chats /\ c \in DOMAIN rx.cursors
        /\ UNCHANGED <<pending, rx>>
    BY <1>3, AcceptChatExtends DEF AcceptChat, outside
  <2>2. watch.phase = "active" /\ ~Staged /\ watch.awaiting = {}
    BY <2>1 DEF Agreement, AnnouncedLate
  <2>3. /\ watch'.phase = "active" /\ watch'.seq = watch.seq /\ watch'.hash = watch.hash
        /\ watch'.cursors = With(chats, c, watch.cursors)
        /\ watch'.scan = With(chats, c, watch.scan)
        /\ watch'.awaiting = {c}
    BY <1>3, <2>2, AcceptChatExtends
  <2>4. ~Staged' /\ ~Waiting' /\ ~Arrived' /\ ~Saved'
    BY <2>1, <2>2 DEF Staged, Waiting, Arrived, Saved
  <2>5. \A d \in chats' : /\ rx.cursors[d] = watch'.cursors[d] /\ d \in DOMAIN rx.cursors
                          /\ d = c => watch'.cursors[d] = 0 /\ watch'.scan[d] = 0
    BY <2>1, <2>2, <2>3, NothingStagedAgrees DEF With, Agreement, RxCursorsAgree
  <2>6. DOMAIN rx.cursors = chats'
    BY <2>1, <2>5 DEF Agreement, AnnouncedLate
  <2>7. RxCursorsAgree'
    BY <2>1, <2>3, <2>4, <2>5, <2>6 DEF RxCursorsAgree, LocalCursor
  <2>8. AnnouncedLate'
    BY <2>1, <2>2, <2>3, <2>4, <2>6 DEF Agreement, AnnouncedLate
  <2>9. AwaitingAtZero'
    BY <2>1, <2>3, <2>5 DEF AwaitingAtZero
  <2> QED BY <2>4, <2>7, <2>8, <2>9 DEF Agreement, PendingFits, SavedFits
<1>4. CASE ApplyPayload
  <2>1. /\ watch' = Apply(pending) /\ UNCHANGED <<chats, pending, rx>> /\ (Arrived \/ Saved)
        /\ Applied(pending) => watch' = watch
    BY <1>4 DEF ApplyPayload, Apply, outside, ChainInv, Tick
  <2>2. CASE Saved
    BY <2>1, <2>2, AgreementUnmoved DEF Saved, Applied
  <2>3. CASE Arrived
    <3>1. watch'.seq = pending.seq /\ watch'.hash = pending.hash
      BY <2>1, <2>3, SequencesAreNumbers DEF Arrived, PendingIsNext, Apply, Applied
    <3>2. Saved'
      BY <2>1, <2>3, <3>1 DEF Arrived, Saved, Staged, RxIsAfterPending
    <3> QED BY <2>1, <2>3, <3>2, AgreementApplies
  <2> QED BY <2>1, <2>2, <2>3
<1>5. CASE MorningTops
  <2>1. /\ UNCHANGED <<chats, pending, rx>> /\ pc = "morning"
    BY <1>5 DEF MorningTops, outside
  <2>2. ~Staged /\ ~Staged'
    BY <2>1 DEF CarefulTick, Staged
  <2>3. /\ ~Waiting /\ ~Arrived /\ ~Saved /\ ~Waiting' /\ ~Arrived' /\ ~Saved'
    BY <2>2 DEF Waiting, Arrived, Saved
  <2>4. /\ watch.phase = "active" /\ watch'.phase = "active" /\ watch'.seq = watch.seq
        /\ watch'.cursors = watch.cursors /\ watch'.awaiting = watch.awaiting
        /\ \A c \in watch.awaiting : c \in chats => watch'.scan[c] = watch.scan[c]
    BY <1>5, MorningTopsRaise
  <2>5. RxCursorsAgree'
    BY <2>1, <2>3, <2>4 DEF Agreement, RxCursorsAgree, LocalCursor
  <2>6. AnnouncedLate' /\ AwaitingAtZero'
    BY <2>1, <2>2, <2>4 DEF Agreement, AnnouncedLate, AwaitingAtZero
  <2> QED BY <2>3, <2>5, <2>6 DEF Agreement, PendingFits, SavedFits
<1>6. CASE SaveReads
  BY <1>6, SaveReadsRaises, AgreementUnmoved DEF SaveReads, outside, ReadInv
<1>7. CASE FinishReads
  <2>1. /\ UNCHANGED <<chats, pending, rx>> /\ pc = "readsDone"
        /\ \/ watch' = watch
           \/ watch.phase = "baseline_read_pending" /\ watch' = [watch EXCEPT !.phase = "active"]
    BY <1>7 DEF FinishReads, outside
  <2>2. CASE watch' = watch
    BY <2>1, <2>2, AgreementUnmoved
  <2>3. CASE watch.phase = "baseline_read_pending" /\ watch' = [watch EXCEPT !.phase = "active"]
    <3>1. /\ watch'.phase = "active" /\ watch'.seq = watch.seq
          /\ watch'.cursors = watch.cursors /\ watch'.scan = watch.scan
          /\ watch'.awaiting = watch.awaiting
      BY <2>3 DEF TypeInv, TypeOK, Watch
    <3>2. ~Staged /\ ~Staged'
      BY <2>1 DEF CarefulTick, Staged
    <3>3. /\ ~Waiting /\ ~Arrived /\ ~Saved /\ ~Waiting' /\ ~Arrived' /\ ~Saved'
      BY <3>2 DEF Waiting, Arrived, Saved
    <3>4. RxCursorsAgree'
      BY <2>1, <2>3, <3>1, <3>3 DEF Agreement, RxCursorsAgree, LocalCursor
    <3>5. AnnouncedLate' /\ AwaitingAtZero'
      BY <2>1, <2>3, <3>1, <3>2 DEF Agreement, AnnouncedLate, AwaitingAtZero
    <3> QED BY <3>3, <3>4, <3>5 DEF Agreement, PendingFits, SavedFits
  <2> QED BY <2>1, <2>2, <2>3
<1>8. CASE BuildBaseline
  <2>1. PICK tops \in [chats -> MessageIds] : pending' = Payload("baseline", g.cursors, tops)
    BY <1>8 DEF BuildBaseline
  <2>2. /\ UNCHANGED <<chats, watch, rx>> /\ pc = "dispatch"
        /\ watch.phase = "activation_requested" /\ DOMAIN g.cursors = chats
    BY <1>8 DEF BuildBaseline, outside
  <2>3. /\ ~Staged /\ g = rx /\ watch.awaiting = {}
    BY <2>2 DEF ChainInv, Tick, CarefulTick, Agreement, AnnouncedLate
  <2>4. /\ pending'.kind = "baseline" /\ pending'.seq = rx.next /\ pending'.prev = rx.prev
        /\ pending'.from = rx.cursors /\ pending'.to = tops
    BY <2>1, <2>3 DEF Payload
  <2>5. Waiting'
    BY <2>2, <2>3, <2>4, NothingStagedAgrees, SequencesAreNumbers
       DEF InStep, Waiting, PendingIsNext, Staged
  <2>6. \A c \in chats : watch.cursors[c] = rx.cursors[c] /\ watch.scan[c] = 0
    BY <2>2, <2>3, NothingStagedAgrees DEF ReadInv, WatchStateLoads, Zero
  <2>7. \A c \in chats : tops[c] >= 0
    BY BoundsAssumption DEF MessageIds
  <2> QED BY <2>2, <2>3, <2>4, <2>5, <2>6, <2>7, AgreementStages
<1>9. CASE BuildExtension
  <2>1. PICK tops \in [watch.awaiting -> MessageIds] :
          pending' = Payload("extension_baseline", Zero(watch.awaiting), tops)
    BY <1>9 DEF BuildExtension
  <2>2. /\ UNCHANGED <<chats, watch, rx>> /\ pc = "dispatch"
        /\ watch.phase = "active" /\ watch.awaiting # {}
    BY <1>9 DEF BuildExtension, outside
  <2>3. /\ ~Staged /\ g = rx /\ DOMAIN rx.cursors = chats
    BY <2>2 DEF ChainInv, Tick, CarefulTick, Agreement, AnnouncedLate
  <2>4. /\ pending'.kind = "extension_baseline" /\ pending'.seq = rx.next
        /\ pending'.prev = rx.prev /\ pending'.from = Zero(watch.awaiting)
        /\ pending'.to = tops
    BY <2>1, <2>3 DEF Payload
  <2>5. Waiting'
    BY <2>2, <2>3, <2>4, NothingStagedAgrees, SequencesAreNumbers
       DEF InStep, Waiting, PendingIsNext, Staged
  <2>6. \A c \in watch.awaiting :
          /\ c \in chats /\ watch.cursors[c] = Zero(watch.awaiting)[c]
          /\ watch.scan[c] = 0 /\ tops[c] >= 0
    BY BoundsAssumption DEF Agreement, AwaitingAtZero, Zero, MessageIds
  <2> QED BY <2>2, <2>3, <2>4, <2>5, <2>6, AgreementStages
<1>10. CASE DropMentions
  <2>1. /\ UNCHANGED <<chats, watch, rx>> /\ pending' = NoUpload /\ pc = "service"
        /\ Staged /\ pending.kind = "mentions" /\ g.next = watch.seq + 1
    BY <1>10 DEF DropMentions, Expected, outside
  <2>2. ~Arrived
    BY <2>1, SequencesAreNumbers
       DEF ChainInv, MentionsAlone, GateFresh, Arrived, PendingIsNext, RxIsAfterPending
  <2> QED BY <2>1, <2>2, AgreementDrops DEF NoUpload, Staged
<1>11. CASE UnlinkPending
  <2>1. /\ UNCHANGED <<chats, watch, rx>> /\ pending' = NoUpload /\ Saved
    BY <1>11 DEF UnlinkPending, outside, ChainInv, Tick
  <2> QED BY <2>1, StagesAreDistinct, AgreementDrops DEF NoUpload, Staged
<1>12. ASSUME NEW c \in Chats, Announce(c) PROVE Agreement'
  <2>1. /\ UNCHANGED <<chats, watch, pending>> /\ ~Staged /\ watch.phase = "active"
        /\ watch.awaiting = {} /\ DOMAIN rx.cursors = chats /\ c \notin chats
    BY <1>12 DEF Announce, durable
  <2>2. rx'.cursors = With(chats, c, rx.cursors)
    BY <1>12, <2>1 DEF Announce, TypeInv, TypeOK, Position
  <2>3. ~Staged' /\ ~Waiting' /\ ~Arrived' /\ ~Saved'
    BY <2>1 DEF Staged, Waiting, Arrived, Saved
  <2>4. /\ DOMAIN rx'.cursors = chats \cup {c} /\ rx'.cursors[c] = 0
        /\ \A d \in chats : rx'.cursors[d] = watch.cursors[d]
    BY <2>1, <2>2, NothingStagedAgrees DEF With
  <2>5. RxCursorsAgree'
    BY <2>1, <2>3, <2>4 DEF RxCursorsAgree, LocalCursor
  <2>6. AnnouncedLate' /\ AwaitingAtZero'
    BY <2>1, <2>3, <2>4 DEF Agreement, AnnouncedLate, AwaitingAtZero
  <2> QED BY <2>3, <2>5, <2>6 DEF Agreement, PendingFits, SavedFits
<1>13. ASSUME Waiting, rx' = Accepted(pending), UNCHANGED <<chats, watch, pending>>
       PROVE  Agreement'
  <2>1. Arrived'
    BY <1>13 DEF Waiting, Arrived, Accepted, Staged, PendingIsNext, RxIsAfterPending
  <2> QED BY <1>13, <2>1, AgreementArrives
<1>14. CASE Land
  BY <1>13, <1>14, AcceptedIsPending DEF Land, durable
<1>15. CASE UploadReceipted
  BY <1>1, <1>13, <1>15, AcceptedIsPending DEF UploadReceipted, durable
<1>16. CASE CutOff
  BY <1>1, <1>16 DEF CutOff, durable
<1> QED
  BY <1>1, <1>2, <1>3, <1>4, <1>5, <1>6, <1>7, <1>8, <1>9, <1>10, <1>11, <1>12, <1>14, <1>15,
     <1>16, WatchFrame, PendingFrame, ReceiverFrame

(* Where the tick stands.                                                  *)
LEMMA CarefulTickStep ==
  ASSUME Careful, TypeInv, ReadInv, ChainInv, Agreement, CarefulTick, [Next]_vars
  PROVE  CarefulTick'
<1>1. ASSUME UNCHANGED <<watch, pending, rx, g, pc>> PROVE CarefulTick'
  BY <1>1 DEF CarefulTick, Staged, Arrived, PendingIsNext, RxIsAfterPending, Expected
<1>2. ASSUME ~Staged', pc' \notin {"service", "dispatch"} PROVE CarefulTick'
  BY <1>2 DEF CarefulTick
<1>3. ASSUME pc' \in {"idle", "upload", "apply", "unlink"} PROVE CarefulTick'
  BY <1>3 DEF CarefulTick
<1>4. CASE Administer
  BY <1>3, <1>4 DEF Administer, Activate, AcceptChat
<1>5. CASE TakeGate
  BY <1>5 DEF TakeGate, ServiceNeeded, durable, outside, CarefulTick, Staged
<1>6. CASE NothingStaged
  <2>1. /\ UNCHANGED <<watch, pending, rx, g>> /\ pc = "service" /\ ~Staged /\ pc' = "dispatch"
    BY <1>6 DEF NothingStaged, durable, outside, local
  <2>2. g = rx
    BY <2>1 DEF CarefulTick, Arrived
  <2> QED BY <2>1, <2>2 DEF CarefulTick, Staged
<1>7. CASE ResumeAccepted \/ ResumeUpload \/ BuildBaseline \/ BuildExtension
  BY <1>3, <1>7 DEF ResumeAccepted, ResumeUpload, BuildBaseline, BuildExtension
<1>8. CASE DropMentions
  BY <1>2, <1>8 DEF DropMentions, Staged, NoUpload
<1>9. CASE Regate
  BY <1>9 DEF Regate, durable, outside, CarefulTick, Staged, ChainInv, Tick
<1>10. CASE ServiceDone \/ BaselineReads \/ SnapshotTimeout
  BY <1>2, <1>10 DEF ServiceDone, BaselineReads, SnapshotTimeout, durable, Staged, ChainInv, Tick
<1>11. CASE Refuse \/ Abort \/ Crash \/ CutOff
  BY <1>3, <1>11 DEF Refuse, EndTick, Abort, Crash, CutOff
<1>12. CASE UploadReceipted \/ ApplyPayload
  BY <1>3, <1>12 DEF UploadReceipted, ApplyPayload
<1>13. CASE UnlinkPending
  BY <1>2, <1>13 DEF UnlinkPending, Staged, NoUpload
<1>14. CASE Reads
  <2>1. /\ pending' = pending /\ pc \in {"morning", "reads", "save", "readsDone"}
        /\ pc' \notin {"service", "dispatch"}
    BY <1>14 DEF Reads, MorningTops, SendReads, SaveReads, NothingUnread, FinishReads, durable
  <2> QED BY <1>2, <2>1 DEF CarefulTick, Staged
<1>15. ASSUME NEW c \in Chats, Announce(c) PROVE CarefulTick'
  BY <1>3, <1>15 DEF Announce
<1>16. CASE Land
  <2>1. /\ UNCHANGED <<watch, pending, g, pc>> /\ Waiting /\ rx' = Accepted(pending)
    BY <1>16, AcceptedIsPending DEF Land, durable, local
  <2>2. Staged /\ Arrived' /\ ~Arrived
    BY <2>1, SequencesAreNumbers
       DEF Waiting, Arrived, Accepted, Staged, PendingIsNext, RxIsAfterPending
  <2>3. pc = "service" => g = Expected
    <3> SUFFICES ASSUME pc = "service" PROVE g = Expected
      OBVIOUS
    <3>1. g = rx /\ watch.phase # "none" /\ DOMAIN rx.cursors = chats
      BY <2>2 DEF CarefulTick, TypeInv, WatchShape, Agreement, AnnouncedLate
    <3> QED BY <2>1, <3>1, ReceiverIsExpected
  <2>4. pc # "dispatch"
    BY <2>2 DEF CarefulTick
  <2>5. Expected' = Expected /\ Staged' = Staged
    BY <2>1 DEF Expected, Staged
  <2> QED BY <2>1, <2>2, <2>3, <2>4, <2>5 DEF CarefulTick
<1>17. CASE UNCHANGED vars
  BY <1>1, <1>17 DEF vars, durable, outside, local
<1> QED
  BY <1>4, <1>5, <1>6, <1>7, <1>8, <1>9, <1>10, <1>11, <1>12, <1>13, <1>14, <1>15, <1>16, <1>17
     DEF Next, SettleStaged, Dispatch, Environment

(* No refusal of the chain, of a build or of an application can happen.    *)
LEMMA NothingToRefuse ==
  ASSUME TypeInv, ReadInv, ChainInv, Agreement, CarefulTick
  PROVE  ~ChainBreaks /\ ~BuildBreaks /\ ~ApplyBreaks
<1>1. watch.phase # "none" => ChainOK(rx)
  <2> SUFFICES ASSUME watch.phase # "none" PROVE ChainOK(rx)
    OBVIOUS
  <2>1. CASE Arrived
    BY <2>1, ReceiverIsExpected DEF ChainOK, Allowed, Arrived
  <2>2. CASE InStep \/ Waiting \/ Saved
    BY <2>2, ReceiverIsExpected DEF ChainOK, Allowed
  <2> QED BY <2>1, <2>2 DEF ChainInv, Stages
<1>2. pc = "service" /\ Staged => GateAccepted \/ g = Expected
  <2> SUFFICES ASSUME pc = "service", Staged PROVE GateAccepted \/ g = Expected
    OBVIOUS
  <2>1. watch.phase # "none" /\ DOMAIN rx.cursors = chats
    BY DEF TypeInv, WatchShape, Agreement, AnnouncedLate
  <2>2. rx = Expected \/ (Arrived /\ rx = After(pending))
    BY <2>1, ReceiverIsExpected DEF ChainInv, Stages
  <2> QED BY <2>2 DEF CarefulTick, GateAccepted
<1>3. pc = "dispatch" => InStep /\ g = rx /\ watch.phase # "none"
  BY NothingStagedAgrees DEF ChainInv, Tick, CarefulTick, TypeInv, WatchShape
<1>4. ~ChainBreaks
  <2>1. ~(pc = "dispatch" /\ watch.phase = "active" /\ g.next = 1)
    BY <1>3, SequencesAreNumbers DEF InStep, Agreement, AnnouncedLate
  <2> QED BY <1>1, <1>2, <2>1 DEF ChainBreaks
<1>5. ~BuildBreaks
  <2>1. ASSUME pc = "dispatch", watch.phase = "activation_requested"
        PROVE  g.next = 1 /\ DOMAIN g.cursors = chats
    BY <1>3, <2>1 DEF InStep, Agreement, AnnouncedLate
  <2>2. ASSUME pc = "dispatch", watch.phase = "active", NEW c \in watch.awaiting
        PROVE  g.cursors[c] = 0
    BY <1>3, <2>2, NothingStagedAgrees DEF InStep, Agreement, AwaitingAtZero
  <2> QED BY <2>1, <2>2 DEF BuildBreaks
<1>6. ~ApplyBreaks
  <2> SUFFICES ASSUME pc = "apply" PROVE Applicable(pending)
    BY DEF ApplyBreaks
  <2>1. CASE Saved
    BY <2>1 DEF Applicable, Applied, Saved
  <2>2. CASE Arrived
    <3>1. /\ ~Applied(pending) /\ pending.seq = watch.seq + 1 /\ pending.prev = watch.hash
      BY <2>2, SequencesAreNumbers DEF Arrived, PendingIsNext, Applied
    <3>2. /\ watch.phase = IF pending.kind = "baseline" THEN "activation_requested" ELSE "active"
          /\ \A c \in DOMAIN pending.to :
               /\ c \in chats /\ watch.cursors[c] = pending.from[c]
               /\ pending.to[c] >= watch.scan[c]
      BY <2>2 DEF Agreement, PendingFits
    <3> QED BY <3>1, <3>2 DEF Applicable
  <2> QED BY <2>1, <2>2 DEF ChainInv, Tick
<1> QED BY <1>4, <1>5, <1>6

(* A chat that is read has a baseline.                                     *)
LEMMA ReadsFollowStep ==
  ASSUME TypeInv, ReadInv, ChainInv, Agreement, ReadsFollowBaseline, [Next]_vars
  PROVE  ReadsFollowBaseline'
<1>1. rx'.next >= rx.next
  <2>1. rx'.next = rx.next \/ rx'.next = rx.next + 1
    <3>1. ASSUME Waiting, rx' = Accepted(pending) PROVE rx'.next = rx.next + 1
      BY <3>1 DEF Waiting, Accepted
    <3>2. ASSUME NEW c \in Chats, Announce(c) PROVE rx'.next = rx.next
      BY <3>2 DEF Announce, TypeInv, TypeOK, Position
    <3> QED BY <3>1, <3>2, ReceiverFrame, AcceptedIsPending DEF CutOff
  <2> QED BY <2>1, SequencesAreNumbers
<1>2. \A c \in watch'.awaiting : c \in watch.awaiting \/ c \notin chats
  <2>1. CASE UNCHANGED <<watch, chats>>
    BY <2>1
  <2>2. CASE Activate
    BY <2>2 DEF Activate, Untouched
  <2>3. ASSUME NEW c \in Chats, AcceptChat(c)
        PROVE  \A d \in watch'.awaiting : d \in watch.awaiting \/ d \notin chats
    BY <2>3, AcceptChatExtends
  <2>4. CASE ApplyPayload
    BY <2>4 DEF ApplyPayload, Apply
  <2>5. CASE MorningTops
    BY <2>5, MorningTopsRaise
  <2>6. CASE SaveReads
    BY <2>6, SaveReadsRaises DEF ReadInv
  <2>7. CASE FinishReads
    BY <2>7 DEF FinishReads, TypeInv, TypeOK, Watch
  <2> QED BY <2>1, <2>2, <2>3, <2>4, <2>5, <2>6, <2>7, WatchFrame
<1>3. ASSUME NEW c \in Chats, readMark[c] > 0
      PROVE  rx'.next > 1 /\ c \notin watch'.awaiting
  <2>1. rx.next > 1 /\ c \notin watch.awaiting /\ c \in chats
    BY <1>3 DEF ReadsFollowBaseline, ReadInv, ReadsAreCheckpointed
  <2>2. rx'.next \in Nat
    BY ReceiverTypeStep DEF Position
  <2> QED BY <1>1, <1>2, <2>1, <2>2, SequencesAreNumbers
<1>4. CASE readMark' = readMark
  BY <1>3, <1>4 DEF ReadsFollowBaseline
<1>5. CASE SendReads
  <2> SUFFICES ASSUME NEW c \in Chats, readMark'[c] > 0
               PROVE  rx'.next > 1 /\ c \notin watch'.awaiting
    BY DEF ReadsFollowBaseline
  <2>1. /\ UNCHANGED <<watch, chats, rx>> /\ watch.phase # "none"
        /\ \/ readMark'[c] = readMark[c]
           \/ c \in Unread /\ readMark'[c] = watch.scan[c]
    BY <1>5, SendReadsMarks DEF SendReads
  <2>2. CASE readMark'[c] = readMark[c]
    BY <1>3, <2>2
  <2>3. CASE c \in Unread
    <3>1. c \in chats /\ watch.scan[c] > 0
      BY <2>1, <2>3, CursorsAreNumbers DEF Unread
    <3>2. c \notin watch.awaiting
      BY <3>1 DEF Agreement, AwaitingAtZero
    <3>3. watch.phase # "activation_requested"
      BY <2>1, <3>1 DEF ReadInv, WatchStateLoads, Zero
    <3>4. watch.seq > 0
      BY <2>1, <3>3, SequencesAreNumbers DEF Agreement, AnnouncedLate
    <3>5. rx.next > watch.seq
      BY SequencesAreNumbers
         DEF ChainInv, Stages, InStep, Waiting, Arrived, Saved, PendingIsNext, RxIsAfterPending
    <3> QED BY <2>1, <3>2, <3>4, <3>5, SequencesAreNumbers
  <2> QED BY <2>1, <2>2, <2>3
<1> QED BY <1>4, <1>5, ReadMarkFrame

CarefulInv == Agreement /\ CarefulTick /\ ReadsFollowBaseline /\ MonitorNeverBreaks

LEMMA CarefulStep ==
  ASSUME Careful
  PROVE  TypeInv /\ ReadInv /\ ChainInv /\ CarefulInv /\ [Next]_vars => CarefulInv'
<1> SUFFICES ASSUME TypeInv, ReadInv, ChainInv, CarefulInv, [Next]_vars PROVE CarefulInv'
  OBVIOUS
<1>1. ~Refuse
  BY NothingToRefuse DEF Refuse, CarefulInv
<1>2. fault' = fault \/ fault' = "none"
  BY <1>1 DEF Next, vars, Administer, Activate, AcceptChat, TakeGate, SettleStaged, NothingStaged,
         ResumeAccepted, DropMentions, ResumeUpload, Regate, Dispatch, BuildBaseline,
         BuildExtension, ServiceDone, BaselineReads, UploadReceipted, ApplyPayload, UnlinkPending,
         Reads, MorningTops, SendReads, SaveReads, NothingUnread, FinishReads, Environment,
         Announce, Land, CutOff, Abort, SnapshotTimeout, Crash
<1>3. MonitorNeverBreaks'
  BY <1>2 DEF CarefulInv, MonitorNeverBreaks
<1> QED BY <1>3, AgreementStep, CarefulTickStep, ReadsFollowStep DEF CarefulInv

LEMMA CarefulInit == Init => CarefulInv
<1> SUFFICES ASSUME Init PROVE CarefulInv
  OBVIOUS
<1>1. /\ chats = Locked /\ pc = "idle" /\ fault = "none" /\ readMark = Zero(Chats)
      /\ DOMAIN Zero(Locked) = Locked
  BY DEF Init, Installed, Upgraded, Zero
<1>2. CarefulTick /\ ReadsFollowBaseline /\ MonitorNeverBreaks
  BY <1>1 DEF CarefulTick, ReadsFollowBaseline, MonitorNeverBreaks, Zero
<1>3. CASE Installed
  <2>1. /\ watch.phase = "none" /\ watch.seq = 0 /\ watch.awaiting = {} /\ ~Staged
        /\ rx.cursors = Zero(Locked)
    BY <1>3 DEF Installed, Untouched, NoUpload, Staged
  <2>2. ~Waiting /\ ~Arrived /\ ~Saved
    BY <2>1 DEF Waiting, Arrived, Saved
  <2>3. RxCursorsAgree /\ AnnouncedLate
    BY <1>1, <2>1 DEF RxCursorsAgree, AnnouncedLate, Zero
  <2> QED BY <1>2, <2>1, <2>2, <2>3 DEF CarefulInv, Agreement, AwaitingAtZero, PendingFits, SavedFits
<1>4. CASE Upgraded
  <2>1. /\ watch.phase = "active" /\ watch.seq = 1 /\ watch.hash = 1 /\ watch.awaiting = {}
        /\ watch.cursors = Zero(Locked) /\ watch.scan = Zero(Locked)
    BY <1>4 DEF Upgraded, Untouched
  <2>2. PICK c \in Locked :
          /\ pending = Mentions(c)
          /\ \/ rx = [next |-> 2, prev |-> 1, cursors |-> Zero(Locked)]
             \/ rx = [next |-> 3, prev |-> 2,
                      cursors |-> Override(Zero(Locked), Mentions(c).to)]
    BY <1>4 DEF Upgraded
  <2>3. /\ pending.kind = "mentions" /\ pending.seq = 2 /\ pending.prev = 1 /\ pending.hash = 2
        /\ pending.from = [d \in {c} |-> 0] /\ pending.to = [d \in {c} |-> MaxMsg]
    BY <2>2 DEF Mentions
  <2>4. ~Saved
    BY <2>1, <2>3 DEF Saved
  <2>5. /\ DOMAIN rx.cursors = Locked
        /\ \A d \in Locked : rx.cursors[d] = IF Arrived /\ d = c THEN MaxMsg ELSE 0
    <3>1. CASE rx = [next |-> 2, prev |-> 1, cursors |-> Zero(Locked)]
      BY <1>1, <2>3, <3>1 DEF Zero, Arrived, RxIsAfterPending
    <3>2. CASE rx = [next |-> 3, prev |-> 2,
                     cursors |-> Override(Zero(Locked), Mentions(c).to)]
      <4>1. Arrived
        BY <2>1, <2>3, <3>2 DEF Arrived, PendingIsNext, RxIsAfterPending, Staged
      <4>2. rx.cursors = Override(Zero(Locked), pending.to)
        BY <2>2, <3>2
      <4> QED BY <1>1, <2>3, <4>1, <4>2 DEF Override, Zero
    <3> QED BY <2>2, <3>1, <3>2
  <2>6. RxCursorsAgree
    BY <1>1, <2>1, <2>3, <2>4, <2>5 DEF RxCursorsAgree, LocalCursor, Zero
  <2>7. AnnouncedLate /\ AwaitingAtZero
    BY <1>1, <2>1, <2>5 DEF AnnouncedLate, AwaitingAtZero
  <2>8. PendingFits
    <3>1. \A d \in DOMAIN pending.to :
            d \in chats /\ watch.cursors[d] = pending.from[d] /\ pending.to[d] >= watch.scan[d]
      BY <1>1, <2>1, <2>3, BoundsAssumption DEF Zero
    <3> QED BY <2>1, <2>3, <3>1 DEF PendingFits
  <2> QED BY <1>2, <2>4, <2>6, <2>7, <2>8 DEF CarefulInv, Agreement, SavedFits
<1> QED BY <1>3, <1>4 DEF Init

LEMMA MonitorCarefulInv ==
  ASSUME Careful
  PROVE  Spec => []CarefulInv
BY CarefulInit, CarefulStep, MonitorTypesInv, MonitorReadInv, MonitorChainInv, PTL DEF Spec

(* With chats announced one at a time to a settled monitor: no tick ever   *)
(* fails on the chains, in building a baseline or in applying one, after   *)
(* any sequence of lost, late and duplicated exchanges, crashes and        *)
(* extensions ...                                                          *)
THEOREM CarefulMonitorNeverBreaks ==
  ASSUME Careful
  PROVE  Spec => []MonitorNeverBreaks
<1>1. CarefulInv => MonitorNeverBreaks
  BY DEF CarefulInv
<1> QED BY <1>1, MonitorCarefulInv, PTL

(* ... no chat is marked as read in Telegram before the receiver holds its *)
(* baseline ...                                                            *)
THEOREM CarefulReadsFollowBaseline ==
  ASSUME Careful
  PROVE  Spec => []ReadsFollowBaseline
<1>1. CarefulInv => ReadsFollowBaseline
  BY DEF CarefulInv
<1> QED BY <1>1, MonitorCarefulInv, PTL

(* ... and a chat is marked as awaiting a baseline only as long as it      *)
(* needs one; an operator who announces earlier can break this.            *)
THEOREM CarefulAwaitingNeedsBaseline ==
  ASSUME Careful
  PROVE  Spec => []AwaitingNeedsBaseline
<1>1. TypeInv /\ CarefulInv => AwaitingNeedsBaseline
  <2> SUFFICES ASSUME TypeInv, CarefulInv, NEW c \in watch.awaiting, rx.cursors[c] > 0
               PROVE  Staged /\ c \in DOMAIN pending.to
    BY DEF AwaitingNeedsBaseline
  <2>1. c \in chats /\ watch.cursors[c] = 0 /\ watch.phase # "none"
    BY DEF CarefulInv, Agreement, AwaitingAtZero, TypeInv, WatchShape, Untouched
  <2>2. rx.cursors[c] = LocalCursor(c)
    BY <2>1 DEF CarefulInv, Agreement, RxCursorsAgree
  <2> QED BY <2>1, <2>2 DEF LocalCursor, Arrived, Saved
<1> QED BY <1>1, MonitorCarefulInv, MonitorTypesInv, PTL
=============================================================================
