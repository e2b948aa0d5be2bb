------------------------------ MODULE MonitorChain ------------------------------
(***************************************************************************)
(* The monitor stream of guardian_engine.Collector (_run_monitor and       *)
(* _run_morning_read_ack) against the external receiver and Telegram.      *)
(*                                                                         *)
(* The monitor chain freezes, chat by chat, a baseline of what was unread  *)
(* when the chat was activated; afterwards the guardian marks chats as     *)
(* read in Telegram.  Its uploads are the baseline, one extension baseline *)
(* for chats added later, and the mentions release 0.2.12 may have staged. *)
(*                                                                         *)
(* Durable: the locked chats, watch_state.json and                         *)
(* monitor-pending-upload.json.  Accepting a chat is one step here; a      *)
(* crash between its writes is DigestChain's subject.  Hashes are numbers, *)
(* fresh for every payload; seq = 0 stands for an absent file.             *)
(***************************************************************************)
EXTENDS Naturals

CONSTANTS
  Chats,        \* every chat the receiver may ever bind
  Locked,       \* the chats locked at set-up
  MaxMsg,       \* bound: the largest message id
  Careful       \* TRUE: a chat is announced only to an active monitor with nothing staged,
                \* and only after the chat announced before has its baseline

ASSUME ChatsAssumption == Locked \subseteq Chats /\ Locked # {}
ASSUME BoundsAssumption == MaxMsg \in Nat
ASSUME CarefulAssumption == Careful \in BOOLEAN

VARIABLES
  chats,        \* settings.json: the locked chat set
  watch,        \* watch_state.json, phase = "none" when absent
  pending,      \* monitor-pending-upload.json, seq = 0 when absent
  rx,           \* the receiver's monitor chain: next, prev, cursors
  inflight,     \* the upload of an exchange that was cut off, seq = 0 when none
  readMark,     \* how far Telegram has each chat marked as read by the guardian
  pc,           \* where the tick stands
  g,            \* the gate snapshot of the running tick
  resumed,      \* the upload being settled was staged by an earlier tick
  morning,      \* the read batch belongs to the morning pass
  reported,     \* the chats Telegram acknowledged in the running read batch
  built,        \* number of payloads built so far; the last content hash
  fault         \* why the last tick failed: "none", "chain", "build" or "apply"

durable == <<chats, watch, pending>>
outside == <<rx, inflight, readMark>>
local == <<g, resumed, morning, reported>>
vars == <<durable, outside, local, pc, built, fault>>

-----------------------------------------------------------------------------
(* Data.                                                                   *)

MessageIds == 0..MaxMsg
Cursors == UNION {[S -> MessageIds] : S \in SUBSET Chats}
Zero(S) == [c \in S |-> 0]
Only(S, cursors) == [c \in S \cap DOMAIN cursors |-> cursors[c]]
Override(cursors, moved) ==
  [c \in DOMAIN cursors |-> IF c \in DOMAIN moved THEN moved[c] ELSE cursors[c]]
With(S, c, cursors) == [d \in S \cup {c} |-> IF d = c THEN 0 ELSE cursors[d]]

Phases == {"none", "activation_requested", "baseline_read_pending", "active"}
Kinds == {"baseline", "extension_baseline", "mentions"}
Watch == [phase : Phases, seq : Nat, hash : Nat, cursors : Cursors,
          scan : Cursors, acked : Cursors, awaiting : SUBSET Chats]
Upload == [kind : Kinds, seq : Nat, prev : Nat, hash : Nat, from : Cursors, to : Cursors]
Position == [next : Nat, prev : Nat, cursors : Cursors]

Untouched(phase, S) ==
  [phase |-> phase, seq |-> 0, hash |-> 0, cursors |-> Zero(S),
   scan |-> Zero(S), acked |-> Zero(S), awaiting |-> {}]
NoUpload == [kind |-> "baseline", seq |-> 0, prev |-> 0, hash |-> 0,
             from |-> Zero({}), to |-> Zero({})]
NoGate == [next |-> 0, prev |-> 0, cursors |-> Zero({})]

Staged == pending.seq > 0

(* _expected_monitor_position and _position_after_monitor_payload          *)
Expected == [next |-> watch.seq + 1, prev |-> watch.hash, cursors |-> watch.cursors]
After(p) == [next |-> p.seq + 1, prev |-> p.hash, cursors |-> Override(watch.cursors, p.to)]

(* _verify_monitor_chain                                                   *)
Allowed == {Expected} \cup (IF Staged THEN {After(pending)} ELSE {})
SettledPosition(position) ==
  [position EXCEPT !.cursors = Only(DOMAIN watch.cursors, position.cursors)]
ChainOK(position) == position \in Allowed \/ SettledPosition(position) \in Allowed

ServiceNeeded(gate) ==
  Staged \/ watch.phase # "active" \/ watch.awaiting # {} \/ gate.next = 1

(* A payload a tick stages from its gate.                                  *)
Payload(kind, from, to) ==
  [kind |-> kind, seq |-> g.next, prev |-> g.prev, hash |-> built + 1,
   from |-> from, to |-> to]

(* _apply_monitor_payload: what it refuses, and what it makes of the state. *)
Applied(p) == watch.seq = p.seq

Applicable(p) ==
  IF Applied(p) THEN watch.hash = p.hash
  ELSE /\ p.seq = watch.seq + 1 /\ p.prev = watch.hash
       /\ \A c \in DOMAIN p.to :
            c \in chats /\ watch.cursors[c] = p.from[c] /\ p.to[c] >= watch.scan[c]
       /\ watch.phase = IF p.kind = "baseline" THEN "activation_requested" ELSE "active"

(* Faulty variant: only the branch that sends clears the mark.             *)
ApplyKeepingTheMark(p) ==
  IF Applied(p) THEN watch
  ELSE [watch EXCEPT !.phase = IF p.kind = "baseline" THEN "baseline_read_pending" ELSE @,
                     !.seq = p.seq, !.hash = p.hash,
                     !.cursors = Override(watch.cursors, p.to),
                     !.scan = Override(watch.scan, p.to)]

Apply(p) ==
  IF Applied(p) THEN watch
  ELSE [phase |-> IF p.kind = "baseline" THEN "baseline_read_pending" ELSE watch.phase,
        seq |-> p.seq, hash |-> p.hash,
        cursors |-> Override(watch.cursors, p.to),
        scan |-> Override(watch.scan, p.to),
        acked |-> watch.acked,
        awaiting |-> IF p.kind = "extension_baseline"
                     THEN watch.awaiting \ DOMAIN p.to ELSE watch.awaiting]

(* The chats whose local cursor is ahead of what Telegram confirmed.       *)
Unread == {c \in chats : watch.scan[c] > watch.acked[c]}

-----------------------------------------------------------------------------
(* The receiver (external) and its operator.                               *)

Accepts(p) ==
  /\ p.seq = rx.next /\ p.prev = rx.prev
  /\ DOMAIN p.from \subseteq DOMAIN rx.cursors
  /\ \A c \in DOMAIN p.from : p.from[c] = rx.cursors[c]
  /\ p.kind = "baseline" <=> rx.next = 1
  /\ p.kind = "baseline" => DOMAIN p.from = DOMAIN rx.cursors

Accepted(p) == [next |-> p.seq + 1, prev |-> p.hash, cursors |-> Override(rx.cursors, p.to)]

IsDuplicate(p) == p.seq + 1 = rx.next /\ p.hash = rx.prev

Announce(c) ==
  /\ c \notin DOMAIN rx.cursors
  /\ Careful => /\ pc = "idle" /\ ~Staged
                /\ watch.phase = "active" /\ watch.awaiting = {} /\ DOMAIN rx.cursors = chats
  /\ rx' = [rx EXCEPT !.cursors = With(DOMAIN rx.cursors, c, rx.cursors)]
  /\ UNCHANGED <<durable, inflight, readMark, local, pc, built, fault>>

Land ==
  /\ inflight.seq > 0 /\ Accepts(inflight)
  /\ rx' = Accepted(inflight) /\ inflight' = NoUpload
  /\ UNCHANGED <<durable, readMark, local, pc, built, fault>>

-----------------------------------------------------------------------------
(* Activation and extension, two administrative operations.                *)

(* activate_monitoring                                                     *)
Activate ==
  /\ pc = "idle" /\ watch.phase = "none"
  /\ watch' = Untouched("activation_requested", chats)
  /\ UNCHANGED <<chats, pending, outside, local, pc, built, fault>>

(* Faulty variant: the new chat gets no read cursor.                       *)
AcceptChatWithoutReads(c) ==
  /\ pc = "idle" /\ c \in DOMAIN rx.cursors \ chats
  /\ chats' = chats \cup {c}
  /\ watch' = IF watch.phase = "none" THEN watch
              ELSE [watch EXCEPT !.cursors = With(chats, c, watch.cursors),
                                 !.scan = With(chats, c, watch.scan),
                                 !.awaiting = watch.awaiting \cup {c}]
  /\ UNCHANGED <<pending, outside, local, pc, built, fault>>

(* Faulty variant: the chats that were there restart at zero.              *)
AcceptChatFromZero(c) ==
  /\ pc = "idle" /\ c \in DOMAIN rx.cursors \ chats
  /\ chats' = chats \cup {c}
  /\ watch' = IF watch.phase = "none" THEN watch
              ELSE [watch EXCEPT !.cursors = Zero(chats'), !.scan = Zero(chats'),
                                 !.acked = Zero(chats'),
                                 !.awaiting = watch.awaiting \cup {c}]
  /\ UNCHANGED <<pending, outside, local, pc, built, fault>>

(* extend_chats.  Without a watch state the handler fails after settings   *)
(* were written, and the chat is locked all the same.                      *)
AcceptChat(c) ==
  /\ pc = "idle" /\ c \in DOMAIN rx.cursors \ chats
  /\ chats' = chats \cup {c}
  /\ watch' = IF watch.phase = "none" THEN watch
              ELSE [watch EXCEPT !.cursors = With(chats, c, watch.cursors),
                                 !.scan = With(chats, c, watch.scan),
                                 !.acked = With(chats, c, watch.acked),
                                 !.awaiting = watch.awaiting \cup {c}]
  /\ UNCHANGED <<pending, outside, local, pc, built, fault>>

-----------------------------------------------------------------------------
(* The service part of a tick: _run_monitor.                               *)

EndTick(why) ==
  /\ pc' = "idle" /\ g' = NoGate /\ resumed' = FALSE /\ morning' = FALSE /\ reported' = {}
  /\ fault' = why
  /\ UNCHANGED <<outside, built>>

(* The gate is verified on every tick, before Telegram is touched.         *)
TakeGate ==
  /\ pc = "idle" /\ watch.phase # "none" /\ ChainOK(rx)
  /\ pc' = IF ServiceNeeded(rx) THEN "service" ELSE "morning"
  /\ g' = rx /\ fault' = "none"
  /\ UNCHANGED <<durable, outside, resumed, morning, reported, built>>

GateAccepted == g = After(pending)

NothingStaged ==
  /\ pc = "service" /\ ~Staged
  /\ pc' = "dispatch"
  /\ UNCHANGED <<durable, outside, local, built, fault>>

ResumeAccepted ==
  /\ pc = "service" /\ Staged /\ GateAccepted
  /\ resumed' = TRUE /\ pc' = "apply"
  /\ UNCHANGED <<durable, outside, g, morning, reported, built, fault>>

(* Faulty variant: mentions are dropped before asking whether they arrived. *)
DropMentionsUnasked ==
  /\ pc = "service" /\ Staged /\ pending.kind = "mentions"
  /\ pending' = NoUpload /\ pc' = "regate"
  /\ UNCHANGED <<chats, watch, outside, local, built, fault>>

(* Mentions 0.2.12 staged and the receiver never saw are not delivered.    *)
DropMentions ==
  /\ pc = "service" /\ Staged /\ ~GateAccepted /\ g = Expected /\ pending.kind = "mentions"
  /\ pending' = NoUpload /\ pc' = "regate"
  /\ UNCHANGED <<chats, watch, outside, local, built, fault>>

ResumeUpload ==
  /\ pc = "service" /\ Staged /\ ~GateAccepted /\ g = Expected /\ pending.kind # "mentions"
  /\ resumed' = TRUE /\ pc' = "upload"
  /\ UNCHANGED <<durable, outside, g, morning, reported, built, fault>>

Regate ==
  /\ pc = "regate"
  /\ g' = rx /\ resumed' = FALSE /\ pc' = "dispatch"
  /\ UNCHANGED <<durable, outside, morning, reported, built, fault>>

BuildBaseline ==
  /\ pc = "dispatch" /\ watch.phase = "activation_requested"
  /\ g.next = 1 /\ DOMAIN g.cursors = chats
  /\ \E tops \in [chats -> MessageIds] : pending' = Payload("baseline", g.cursors, tops)
  /\ built' = built + 1 /\ pc' = "upload"
  /\ UNCHANGED <<chats, watch, outside, local, fault>>

BuildExtension ==
  /\ pc = "dispatch" /\ watch.phase = "active" /\ g.next > 1
  /\ watch.awaiting # {} /\ \A c \in watch.awaiting : g.cursors[c] = 0
  /\ \E tops \in [watch.awaiting -> MessageIds] :
       pending' = Payload("extension_baseline", Zero(watch.awaiting), tops)
  /\ built' = built + 1 /\ pc' = "upload"
  /\ UNCHANGED <<chats, watch, outside, local, fault>>

ServiceDone ==
  /\ pc = "dispatch" /\ watch.phase = "active" /\ g.next > 1 /\ watch.awaiting = {}
  /\ pc' = "morning"
  /\ UNCHANGED <<durable, outside, local, built, fault>>

(* Local and remote chains disagree, for the whole tick or for the staged  *)
(* upload (whose check does not forgive an announced chat).                *)
ChainBreaks ==
  \/ pc = "idle" /\ watch.phase # "none" /\ ~ChainOK(rx)
  \/ pc = "service" /\ Staged /\ ~GateAccepted /\ g # Expected
  \/ pc = "dispatch" /\ watch.phase = "active" /\ g.next = 1

(* build_monitor_upload refuses, or the receiver wants no baseline.        *)
BuildBreaks ==
  /\ pc = "dispatch"
  /\ \/ watch.phase = "activation_requested" /\ (g.next # 1 \/ DOMAIN g.cursors # chats)
     \/ watch.phase = "active" /\ g.next > 1 /\ \E c \in watch.awaiting : g.cursors[c] # 0

ApplyBreaks == pc = "apply" /\ ~Applicable(pending)

Refuse ==
  /\ ChainBreaks \/ BuildBreaks \/ ApplyBreaks
  /\ EndTick(IF ChainBreaks THEN "chain" ELSE IF BuildBreaks THEN "build" ELSE "apply")
  /\ UNCHANGED durable

(* Faulty variant: a failed exchange is taken for a receipt.               *)
UploadTakenForReceipted ==
  /\ pc = "upload"
  /\ pc' = "apply"
  /\ UNCHANGED <<durable, outside, local, built, fault>>

UploadReceipted ==
  /\ pc = "upload"
  /\ \/ Accepts(pending) /\ rx' = Accepted(pending)
     \/ IsDuplicate(pending) /\ rx' = rx
  /\ pc' = "apply"
  /\ UNCHANGED <<durable, inflight, readMark, local, built, fault>>

CutOff ==
  /\ pc = "upload"
  /\ inflight' = pending
  /\ pc' = "idle" /\ g' = NoGate /\ resumed' = FALSE
  /\ UNCHANGED <<durable, rx, readMark, morning, reported, built, fault>>

ApplyPayload ==
  /\ pc = "apply" /\ Applicable(pending)
  /\ watch' = Apply(pending)
  /\ pc' = "unlink"
  /\ UNCHANGED <<chats, pending, outside, local, built, fault>>

(* A resumed upload is followed by a fresh gate, a baseline by its reads,  *)
(* an extension by the rest of the tick.                                   *)
UnlinkPending ==
  /\ pc = "unlink"
  /\ pending' = NoUpload
  /\ pc' = IF resumed THEN "regate"
           ELSE IF pending.kind = "baseline" THEN "reads" ELSE "morning"
  /\ UNCHANGED <<chats, watch, outside, local, built, fault>>

-----------------------------------------------------------------------------
(* Marking chats as read: _run_morning_read_ack and _retry_read_acks.      *)

BaselineReads ==
  /\ pc = "dispatch" /\ watch.phase = "baseline_read_pending"
  /\ pc' = "reads"
  /\ UNCHANGED <<durable, outside, local, built, fault>>

(* Faulty variant: a chat that awaits its baseline is marked too.          *)
MorningTopsOfEveryChat ==
  /\ pc = "morning" /\ watch.phase = "active"
  /\ \E tops \in [chats -> MessageIds] :
       watch' = [watch EXCEPT !.scan = [c \in chats |->
                   IF tops[c] > watch.scan[c] THEN tops[c] ELSE watch.scan[c]]]
  /\ morning' = TRUE /\ pc' = "reads"
  /\ UNCHANGED <<chats, pending, outside, g, resumed, reported, built, fault>>

(* Faulty variant: a lower top moves the cursor back.                      *)
MorningTopsAsAnswered ==
  /\ pc = "morning" /\ watch.phase = "active"
  /\ \E tops \in [chats \ watch.awaiting -> MessageIds] :
       watch' = [watch EXCEPT !.scan = Override(watch.scan, tops)]
  /\ morning' = TRUE /\ pc' = "reads"
  /\ UNCHANGED <<chats, pending, outside, g, resumed, reported, built, fault>>

(* The tops Telegram answers with move the local cursors, on disk before   *)
(* any read mark is sent.  A chat that awaits its baseline is left alone.  *)
MorningTops ==
  /\ pc = "morning" /\ watch.phase = "active"
  /\ \E answered \in SUBSET (chats \ watch.awaiting) :
       \E tops \in [answered -> MessageIds] :
         watch' = [watch EXCEPT !.scan = [c \in chats |->
                     IF c \in answered /\ tops[c] > watch.scan[c] THEN tops[c] ELSE watch.scan[c]]]
  /\ morning' = TRUE /\ pc' = "reads"
  /\ UNCHANGED <<chats, pending, outside, g, resumed, reported, built, fault>>

(* Telegram marks some chats and reports some of those: a chat it does not *)
(* report may be marked all the same.                                      *)
SendReads ==
  /\ pc = "reads" /\ Unread # {}
  /\ \E told \in SUBSET Unread : \E marked \in SUBSET Unread :
       /\ told \subseteq marked
       /\ readMark' = [c \in Chats |->
            IF c \in marked /\ watch.scan[c] > readMark[c] THEN watch.scan[c] ELSE readMark[c]]
       /\ reported' = told
  /\ pc' = "save"
  /\ UNCHANGED <<durable, rx, inflight, g, resumed, morning, built, fault>>

(* Faulty variant: a refused read mark is recorded as acknowledged.        *)
SaveReadsOfEveryChat ==
  /\ pc = "save"
  /\ watch' = [watch EXCEPT !.acked = watch.scan]
  /\ reported' = {} /\ pc' = "readsDone"
  /\ UNCHANGED <<chats, pending, outside, g, resumed, morning, built, fault>>

SaveReads ==
  /\ pc = "save"
  /\ watch' = [watch EXCEPT !.acked = [c \in chats |->
                 IF c \in reported THEN watch.scan[c] ELSE watch.acked[c]]]
  /\ reported' = {} /\ pc' = "readsDone"
  /\ UNCHANGED <<chats, pending, outside, g, resumed, morning, built, fault>>

NothingUnread ==
  /\ pc = "reads" /\ Unread = {}
  /\ pc' = "readsDone"
  /\ UNCHANGED <<durable, outside, local, built, fault>>

(* Faulty variant: the phase stays behind when the batch was complete.      *)
FinishReadsWithoutActivating ==
  /\ pc = "readsDone"
  /\ pc' = IF morning \/ watch.phase # "active" THEN "idle" ELSE "morning"
  /\ morning' = FALSE
  /\ g' = IF pc' = "idle" THEN NoGate ELSE g
  /\ UNCHANGED <<durable, outside, resumed, reported, built, fault>>

(* The phase becomes active once the whole baseline is marked; then the    *)
(* morning pass may follow in the same tick.                               *)
FinishReads ==
  /\ pc = "readsDone"
  /\ watch' = IF watch.phase = "baseline_read_pending" /\ Unread = {}
              THEN [watch EXCEPT !.phase = "active"] ELSE watch
  /\ pc' = IF morning \/ watch'.phase # "active" THEN "idle" ELSE "morning"
  /\ morning' = FALSE
  /\ g' = IF pc' = "idle" THEN NoGate ELSE g
  /\ UNCHANGED <<chats, pending, outside, resumed, reported, built, fault>>

-----------------------------------------------------------------------------
(* A tick ends where it awaits: cancelled, failed, or with nothing to do   *)
(* outside the morning window.                                             *)
Awaiting == {"service", "regate", "dispatch", "upload", "apply", "morning", "reads", "save",
             "readsDone"}

Abort ==
  /\ pc \in Awaiting
  /\ pc' = "idle" /\ g' = NoGate /\ resumed' = FALSE /\ morning' = FALSE /\ reported' = {}
  /\ UNCHANGED <<durable, outside, built, fault>>

(* A snapshot that times out does not hold up an active monitor's morning. *)
SnapshotTimeout ==
  /\ pc = "dispatch" /\ watch.phase = "active" /\ watch.awaiting # {}
  /\ pc' = "morning"
  /\ UNCHANGED <<durable, outside, local, built, fault>>

(* The process dies anywhere and is unlocked again.                        *)
Crash ==
  /\ pc # "idle"
  /\ pc' = "idle" /\ g' = NoGate /\ resumed' = FALSE /\ morning' = FALSE /\ reported' = {}
  /\ fault' = "none"
  /\ UNCHANGED <<durable, outside, built>>

-----------------------------------------------------------------------------
(* A new installation.                                                     *)
Installed ==
  /\ watch = Untouched("none", {})
  /\ pending = NoUpload /\ built = 0
  /\ rx = [next |-> 1, prev |-> 0, cursors |-> Zero(Locked)]
  /\ readMark = Zero(Chats)

(* An upgrade from 0.2.12: active, with mentions staged for one chat that  *)
(* the receiver has accepted or not.                                       *)
Mentions(c) ==
  [kind |-> "mentions", seq |-> 2, prev |-> 1, hash |-> 2,
   from |-> [d \in {c} |-> 0], to |-> [d \in {c} |-> MaxMsg]]

Upgraded ==
  /\ watch = [Untouched("active", Locked) EXCEPT !.seq = 1, !.hash = 1]
  /\ \E c \in Locked :
       /\ pending = Mentions(c)
       /\ \/ rx = [next |-> 2, prev |-> 1, cursors |-> Zero(Locked)]
          \/ rx = [next |-> 3, prev |-> 2, cursors |-> Override(Zero(Locked), Mentions(c).to)]
  /\ built = 2
  /\ readMark = Zero(Chats)

Init ==
  /\ Installed \/ Upgraded
  /\ chats = Locked /\ inflight = NoUpload
  /\ pc = "idle" /\ g = NoGate /\ resumed = FALSE /\ morning = FALSE /\ reported = {}
  /\ fault = "none"

Administer == Activate \/ (\E c \in Chats : AcceptChat(c))

SettleStaged == NothingStaged \/ ResumeAccepted \/ DropMentions \/ ResumeUpload

Dispatch == BuildBaseline \/ BuildExtension \/ ServiceDone \/ BaselineReads

Reads == MorningTops \/ SendReads \/ SaveReads \/ NothingUnread \/ FinishReads

Environment ==
  \/ (\E c \in Chats : Announce(c))
  \/ Land \/ CutOff \/ Abort \/ SnapshotTimeout \/ Crash

Next ==
  \/ Administer \/ TakeGate \/ SettleStaged \/ Regate \/ Dispatch \/ Refuse
  \/ UploadReceipted \/ ApplyPayload \/ UnlinkPending
  \/ Reads \/ Environment

Spec == Init /\ [][Next]_vars

(* The scheduler ticks for ever and Telegram, the receiver and the network *)
(* fail only transiently: a step that is possible again and again is       *)
(* finally taken, and some read batch is finally marked as a whole.        *)
WholeBatch == SendReads /\ reported' = Unread
WholeSave == SaveReads /\ reported = Unread

Fairness ==
  /\ SF_vars(TakeGate) /\ SF_vars(SettleStaged) /\ SF_vars(Regate) /\ SF_vars(Dispatch)
  /\ SF_vars(UploadReceipted) /\ SF_vars(ApplyPayload) /\ SF_vars(UnlinkPending)
  /\ SF_vars(WholeBatch) /\ SF_vars(WholeSave) /\ SF_vars(NothingUnread)
  /\ SF_vars(FinishReads) /\ WF_vars(Abort)

FairSpec == Spec /\ Fairness

-----------------------------------------------------------------------------
(* Properties.                                                             *)

Places == {"idle", "service", "regate", "dispatch", "upload", "apply", "unlink", "morning",
           "reads", "save", "readsDone"}

(* Every variable keeps its shape, and the watch state covers the chats.   *)
TypeOK ==
  /\ chats \in SUBSET Chats /\ watch \in Watch /\ pending \in Upload
  /\ rx \in Position /\ inflight \in Upload /\ readMark \in [Chats -> MessageIds]
  /\ pc \in Places /\ g \in Position
  /\ resumed \in BOOLEAN /\ morning \in BOOLEAN /\ reported \in SUBSET Chats
  /\ built \in Nat /\ fault \in {"none", "chain", "build", "apply"}
  /\ watch.phase # "none" =>
       DOMAIN watch.cursors = chats /\ DOMAIN watch.scan = chats /\ DOMAIN watch.acked = chats

(* Every state the guardian writes is one _load_watch_state accepts: the   *)
(* cursors of a chat stay ordered through read-acked, monitor and scan, and *)
(* an activation that is only requested starts at zero.  A file it refuses *)
(* would fail every later tick and the next unlocking of the vault.        *)
WatchStateLoads ==
  watch.phase # "none" =>
    /\ \A c \in chats : watch.acked[c] <= watch.scan[c] /\ watch.cursors[c] <= watch.scan[c]
    /\ watch.awaiting \subseteq chats
    /\ watch.phase = "activation_requested" => watch.seq = 0 /\ watch.scan = Zero(chats)

(* A read mark is checkpointed locally before it is sent, and recorded as  *)
(* acknowledged only after Telegram has it: whatever is lost in between is *)
(* marked again, and nothing the guardian has not seen is marked.          *)
ReadsAreCheckpointed ==
  \A c \in Chats :
    /\ readMark[c] > 0 => watch.phase # "none" /\ c \in chats
    /\ c \in DOMAIN watch.acked => watch.acked[c] <= readMark[c] /\ readMark[c] <= watch.scan[c]

(* No chat is marked as read before the receiver holds its baseline, the   *)
(* frozen record of what was unread.                                       *)
ReadsFollowBaseline ==
  \A c \in Chats : readMark[c] > 0 => rx.next > 1 /\ c \notin watch.awaiting

(* No tick fails on the chains: with chats announced to a settled monitor  *)
(* only, whatever was cut off, dropped or crashed can be reconciled, built *)
(* upon and applied.                                                       *)
MonitorNeverBreaks == fault = "none"

(* A chat marked as awaiting its extension baseline still needs one: the   *)
(* receiver has it at zero, or its baseline is staged to be applied.       *)
AwaitingNeedsBaseline ==
  \A c \in watch.awaiting :
    rx.cursors[c] > 0 => Staged /\ c \in DOMAIN pending.to

(* A staged upload leaves the disk only once it is applied or while the    *)
(* receiver has not accepted it.                                           *)
AcceptedIsNeverDropped ==
  [][(Staged /\ pending'.seq = 0) => watch.hash = pending.hash \/ rx.prev # pending.hash]_vars

(* The monitor only moves forward: its sequence, its phase and the three   *)
(* cursors of every chat.                                                  *)
Rank == [none |-> 0, activation_requested |-> 1, baseline_read_pending |-> 2, active |-> 3]
Grows(old, new) == \A c \in DOMAIN old : c \in DOMAIN new /\ new[c] >= old[c]

MonitorAdvances ==
  [][/\ watch'.seq >= watch.seq /\ Rank[watch'.phase] >= Rank[watch.phase]
     /\ Grows(watch.cursors, watch'.cursors) /\ Grows(watch.scan, watch'.scan)
     /\ Grows(watch.acked, watch'.acked)]_vars

(* The monitor implements the receipted stream.                            *)
Stream == INSTANCE ReceiptStream WITH head <- rx.next - 1, settled <- watch.seq
StreamSpec == Stream!Spec

(* A requested activation is completed, and so is every extension: the     *)
(* baseline is delivered, its chats are marked, nothing stays staged.      *)
Settled == watch.phase = "active" /\ watch.awaiting = {} /\ ~Staged
MonitorSettles == (watch.phase # "none") ~> Settled
=============================================================================
