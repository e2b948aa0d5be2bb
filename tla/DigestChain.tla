------------------------------ MODULE DigestChain ------------------------------
(***************************************************************************)
(* The daily digest stream of guardian_engine.Collector (_run_digest and   *)
(* the checkpoint helpers around it) against the external forced-command   *)
(* receiver.                                                               *)
(*                                                                         *)
(* Durable: the locked chat set (settings), the chat set watch_state is    *)
(* bound to, the digest checkpoint acknowledged.json and the staged upload *)
(* pending-upload.json.  Each of them is replaced atomically, so a crash   *)
(* falls between two writes, never inside one.  Volatile: the gate         *)
(* snapshot of the running tick, its place (pc) and the cooldown memory.   *)
(*                                                                         *)
(* A content hash is a number, fresh for every payload that is built.  A   *)
(* cursor vector is a function from the chats it covers to message ids.    *)
(* A record with seq = 0 stands for an absent file.                        *)
(*                                                                         *)
(* An exchange that is cut off may still take effect at the receiver, at   *)
(* any later time: such an upload is in flight.                            *)
(***************************************************************************)
EXTENDS Naturals

CONSTANTS
  Chats,        \* every chat the receiver may ever bind
  Locked,       \* the chats locked at set-up
  LastDay,      \* bound: the number of digest dates
  MaxMsg,       \* bound: the largest message id
  QuietOnly     \* TRUE: the operator announces a chat only while nothing is staged

ASSUME ChatsAssumption == Locked \subseteq Chats /\ Locked # {}
ASSUME BoundsAssumption == LastDay \in Nat \ {0} /\ MaxMsg \in Nat
ASSUME QuietAssumption == QuietOnly \in BOOLEAN

VARIABLES
  chats,        \* settings.json: the locked chat set
  watchChats,   \* the chat set watch_state is bound to
  ack,          \* acknowledged.json, seq = 0 when absent
  pending,      \* pending-upload.json, seq = 0 when absent
  rx,           \* the receiver's digest chain: next, prev, cursors, last accepted date
  inflight,     \* the upload of an exchange that was cut off, seq = 0 when none
  today,        \* the receiver's current digest_date
  open,         \* the receiver's time lies in [prepare_not_before, accept_until]
  pc,           \* where the tick (or the extension) stands
  g,            \* the gate snapshot of the running tick
  lastAttempt,  \* _last_attempt: the sequence under cooldown, 0 for none
  built,        \* number of payloads built so far; the last content hash
  fault         \* why the last tick failed: "none", "chain", "load" or "build"

durable == <<chats, watchChats, ack, pending>>
receiver == <<rx, inflight, today, open>>
vars == <<durable, receiver, pc, g, lastAttempt, built, fault>>

-----------------------------------------------------------------------------
(* Data.                                                                   *)

MessageIds == 0..MaxMsg
Cursors == UNION {[S -> MessageIds] : S \in SUBSET Chats}
Zero(S) == [c \in S |-> 0]
Only(S, cursors) == [c \in S \cap DOMAIN cursors |-> cursors[c]]

Ack == [seq : Nat, hash : Nat, date : Nat, cursors : Cursors]
Upload == [seq : Nat, prev : Nat, hash : Nat, date : Nat, from : Cursors, to : Cursors]
Position == [next : Nat, prev : Nat, cursors : Cursors]
Chain == [next : Nat, prev : Nat, cursors : Cursors, date : Nat]
Gate == [next : Nat, prev : Nat, cursors : Cursors, date : Nat, due : BOOLEAN]

NoAck == [seq |-> 0, hash |-> 0, date |-> 0, cursors |-> Zero({})]
NoUpload == [seq |-> 0, prev |-> 0, hash |-> 0, date |-> 0,
             from |-> Zero({}), to |-> Zero({})]
NoGate == [next |-> 0, prev |-> 0, cursors |-> Zero({}), date |-> 0, due |-> FALSE]

(* The position the receiver must be at when nothing is in doubt.          *)
Base == IF ack.seq = 0
        THEN [next |-> 1, prev |-> 0, cursors |-> Zero(chats)]
        ELSE [next |-> ack.seq + 1, prev |-> ack.hash, cursors |-> ack.cursors]

(* The position the receiver reaches by accepting p.                       *)
After(p) == [next |-> p.seq + 1, prev |-> p.hash, cursors |-> p.to]

PositionOf(section) ==
  [next |-> section.next, prev |-> section.prev, cursors |-> section.cursors]

(* Faulty variant: cursors of announced chats count as a chain break.      *)
UnfilteredPosition(section) == PositionOf(section)

(* The same position without the cursors of chats not accepted locally.    *)
SettledPosition(section) ==
  [PositionOf(section) EXCEPT !.cursors = Only(chats, section.cursors)]

Staged == pending.seq > 0

(* pending continues the checkpoint ...                                    *)
Linked(p) == [next |-> p.seq, prev |-> p.prev, cursors |-> p.from] = Base

(* Faulty variant: a leftover of the settled upload is not recognised.     *)
NeverStale(p) == FALSE

(* ... or is the checkpoint: a crash came between saving the one and       *)
(* unlinking the other.                                                    *)
StaleLocal(p) ==
  /\ ack.seq > 0
  /\ p.seq = ack.seq /\ p.hash = ack.hash /\ p.date = ack.date
  /\ After(p) = Base

Allowed == {Base} \cup (IF Staged /\ Linked(pending) THEN {After(pending)} ELSE {})

ChainOK(section) ==
  /\ Staged => Linked(pending) \/ StaleLocal(pending)
  /\ PositionOf(section) \in Allowed \/ SettledPosition(section) \in Allowed

CheckpointOf(p) == [seq |-> p.seq, hash |-> p.hash, date |-> p.date, cursors |-> p.to]

(* _load_watch_state and _load_digest_ack refuse files bound to another    *)
(* chat set than the locked one.                                           *)
AckLoads == ack.seq = 0 \/ DOMAIN ack.cursors = chats
FilesLoad == watchChats = chats /\ AckLoads

(* What unlocking the vault checks of the digest files.                    *)
RuntimeStateOK == FilesLoad /\ (Staged => DOMAIN pending.to = chats)

-----------------------------------------------------------------------------
(* The receiver (external) and its operator.                               *)

Due == open /\ rx.date < today

GateSnapshot == [next |-> rx.next, prev |-> rx.prev, cursors |-> rx.cursors,
                 date |-> today, due |-> Due]

Accepts(p) ==
  /\ Due /\ p.date = today
  /\ p.seq = rx.next /\ p.prev = rx.prev /\ p.from = rx.cursors

(* The receiver's chain once it has accepted p.                            *)
Accepted(p) == [next |-> p.seq + 1, prev |-> p.hash, cursors |-> p.to, date |-> p.date]

IsDuplicate(p) == p.seq + 1 = rx.next /\ p.hash = rx.prev

NextDay ==
  /\ today < LastDay
  /\ today' = today + 1 /\ open' = TRUE
  /\ UNCHANGED <<durable, rx, inflight, pc, g, lastAttempt, built, fault>>

(* The last day's window stays open.                                       *)
CloseWindow ==
  /\ open /\ today < LastDay
  /\ open' = FALSE
  /\ UNCHANGED <<durable, rx, inflight, today, pc, g, lastAttempt, built, fault>>

(* The server operator extends the chat set; the new chat starts at zero.  *)
Announce(c) ==
  /\ c \notin DOMAIN rx.cursors
  /\ QuietOnly => pc = "idle" /\ ~Staged
  /\ rx' = [rx EXCEPT !.cursors = [d \in DOMAIN rx.cursors \cup {c} |->
                                     IF d = c THEN 0 ELSE rx.cursors[d]]]
  /\ UNCHANGED <<durable, inflight, today, open, pc, g, lastAttempt, built, fault>>

(* An upload in flight lands; it is refused or ignored unless it is next.  *)
Land ==
  /\ inflight.seq > 0 /\ Accepts(inflight)
  /\ rx' = Accepted(inflight) /\ inflight' = NoUpload
  /\ UNCHANGED <<durable, today, open, pc, g, lastAttempt, built, fault>>

-----------------------------------------------------------------------------
(* The tick.                                                               *)

EndTick(why) ==
  /\ pc' = "idle" /\ g' = NoGate /\ fault' = why
  /\ UNCHANGED <<receiver, built>>

(* A tick inside the morning window takes the authenticated gate.          *)
TakeGate ==
  /\ pc = "idle" /\ open
  /\ IF watchChats = chats
     THEN pc' = "reconcile" /\ g' = GateSnapshot /\ fault' = "none"
     ELSE pc' = "idle" /\ g' = g /\ fault' = "load"
  /\ UNCHANGED <<durable, receiver, lastAttempt, built>>

(* The checkpoint loads and the local and remote chains agree.             *)
Reconciling == pc = "reconcile" /\ AckLoads /\ ChainOK(g)

NothingStaged ==
  /\ Reconciling /\ ~Staged
  /\ pc' = "plan"
  /\ UNCHANGED <<durable, receiver, g, lastAttempt, built, fault>>

DropStaleLocal ==
  /\ Reconciling /\ Staged /\ ~Linked(pending)
  /\ pending' = NoUpload
  /\ UNCHANGED <<chats, watchChats, ack, receiver, pc, g, lastAttempt, built, fault>>

(* Faulty variant: the confirmed upload is dropped without a checkpoint.   *)
ConfirmWithoutSaving ==
  /\ Reconciling /\ Staged /\ Linked(pending)
  /\ PositionOf(g) = After(pending)
  /\ pc' = "confirmed"
  /\ UNCHANGED <<durable, receiver, g, lastAttempt, built, fault>>

(* The gate already stands behind the staged upload: its receipt was lost. *)
ConfirmFromGate ==
  /\ Reconciling /\ Staged /\ Linked(pending)
  /\ PositionOf(g) = After(pending)
  /\ ack' = CheckpointOf(pending)
  /\ pc' = "confirmed"
  /\ UNCHANGED <<chats, watchChats, pending, receiver, g, lastAttempt, built, fault>>

UnlinkConfirmed ==
  /\ pc = "confirmed"
  /\ pending' = NoUpload /\ pc' = "plan"
  /\ UNCHANGED <<chats, watchChats, ack, receiver, g, lastAttempt, built, fault>>

NotYetAccepted ==
  Reconciling /\ Staged /\ Linked(pending) /\ PositionOf(g) # After(pending)

(* Faulty variant: an old plan is dropped before asking whether it was     *)
(* accepted.                                                               *)
ReplanBeforeConfirming ==
  /\ Reconciling /\ Staged /\ Linked(pending)
  /\ g.date # pending.date /\ g.due
  /\ pending' = NoUpload /\ pc' = "plan"
  /\ UNCHANGED <<chats, watchChats, ack, receiver, g, lastAttempt, built, fault>>

(* Faulty variant: the staged upload is kept for a plan that has passed.   *)
KeepOldPlan ==
  /\ NotYetAccepted /\ g.date # pending.date /\ g.due
  /\ pc' = "resend"
  /\ UNCHANGED <<durable, receiver, g, lastAttempt, built, fault>>

(* The staged upload belongs to an earlier plan.  A plan is its date here: *)
(* the timezone same_plan compares too is the receiver's configuration,    *)
(* which is taken not to change while an upload of the same date waits.    *)
Replan ==
  /\ NotYetAccepted /\ g.date # pending.date /\ g.due
  /\ pending' = NoUpload /\ pc' = "plan"
  /\ UNCHANGED <<chats, watchChats, ack, receiver, g, lastAttempt, built, fault>>

PendingNotDue ==
  /\ NotYetAccepted /\ g.date = pending.date /\ ~g.due
  /\ EndTick("none")
  /\ UNCHANGED <<durable, lastAttempt>>

Resume ==
  /\ NotYetAccepted /\ g.date = pending.date /\ g.due
  /\ pc' = "resend"
  /\ UNCHANGED <<durable, receiver, g, lastAttempt, built, fault>>

(* Nothing is staged any more: is there an issue to build?                 *)
DateDidNotAdvance == ack.seq > 0 /\ g.date <= ack.date

NotDue ==
  /\ pc = "plan" /\ ~g.due
  /\ EndTick("none")
  /\ UNCHANGED <<durable, lastAttempt>>

Cooldown ==
  /\ pc = "plan" /\ g.due /\ ~DateDidNotAdvance /\ lastAttempt = g.next
  /\ EndTick("none")
  /\ UNCHANGED <<durable, lastAttempt>>

Attempt ==
  /\ pc = "plan" /\ g.due /\ ~DateDidNotAdvance /\ lastAttempt # g.next
  /\ lastAttempt' = g.next /\ pc' = "build"
  /\ UNCHANGED <<durable, receiver, g, built, fault>>

(* ReceiverChainError, and the ValueError of a checkpoint that does not     *)
(* load: the tick fails, with nothing written.                             *)
PlanMismatch == NotYetAccepted /\ g.date # pending.date /\ ~g.due

ChainBreaks ==
  \/ pc = "reconcile" /\ ~(AckLoads /\ ChainOK(g))
  \/ PlanMismatch
  \/ pc = "plan" /\ g.due /\ DateDidNotAdvance

Refuse ==
  /\ ChainBreaks
  /\ EndTick(IF AckLoads THEN "chain" ELSE "load")
  /\ UNCHANGED <<durable, lastAttempt>>

(* What fetching leaves: no chat's cursor moves back, whether the boundary *)
(* of the issue lies before or behind it.                                  *)
Fetched(to) == \A c \in chats : to[c] >= g.cursors[c]

(* The rows, one for each chat the collector knows, are the gate's chats.  *)
(* Faulty variant: what rows there are is staged.                          *)
CoverageUnchecked == TRUE
CoversLockedChats == DOMAIN g.cursors = chats

(* Fetching, the model call and build_digest_upload; the staged bytes are  *)
(* on disk before the upload starts.                                       *)
Build ==
  /\ pc = "build" /\ CoversLockedChats
  /\ \E to \in [chats -> MessageIds] :
       /\ Fetched(to)
       /\ pending' = [seq |-> g.next, prev |-> g.prev, hash |-> built + 1,
                      date |-> g.date, from |-> g.cursors, to |-> to]
  /\ built' = built + 1 /\ pc' = "send"
  /\ UNCHANGED <<chats, watchChats, ack, receiver, g, lastAttempt, fault>>

(* "digest upload must cover every locked chat"                            *)
RefuseBuild ==
  /\ pc = "build" /\ ~CoversLockedChats
  /\ EndTick("build")
  /\ UNCHANGED <<durable, lastAttempt>>

(* The receiver's side of a whole exchange.                               *)
Deliver(p) ==
  \/ Accepts(p) /\ rx' = Accepted(p)
  \/ IsDuplicate(p) /\ rx' = rx

Sending == pc \in {"send", "resend"}

(* Faulty variant: a failed exchange is taken for a receipt.               *)
UploadTakenForReceipted ==
  /\ Sending
  /\ pc' = IF pc = "send" THEN "settle" ELSE "resettle"
  /\ UNCHANGED <<durable, receiver, g, lastAttempt, built, fault>>

(* accepted | duplicate, and the receipt arrives                           *)
UploadReceipted ==
  /\ Sending
  /\ Deliver(pending)
  /\ pc' = IF pc = "send" THEN "settle" ELSE "resettle"
  /\ UNCHANGED <<durable, inflight, today, open, g, lastAttempt, built, fault>>

(* The exchange times out or is cancelled while the receiver is at work:   *)
(* the receipt, if there is ever one, is lost.                             *)
CutOff ==
  /\ Sending
  /\ inflight' = pending
  /\ pc' = "idle" /\ g' = NoGate
  /\ UNCHANGED <<durable, rx, today, open, lastAttempt, built, fault>>

SaveAck ==
  /\ pc \in {"settle", "resettle"}
  /\ ack' = CheckpointOf(pending)
  /\ pc' = IF pc = "settle" THEN "unlink" ELSE "reunlink"
  /\ UNCHANGED <<chats, watchChats, pending, receiver, g, lastAttempt, built, fault>>

UnlinkPending ==
  /\ pc \in {"unlink", "reunlink"}
  /\ pending' = NoUpload
  /\ lastAttempt' = IF pc = "unlink" THEN 0 ELSE lastAttempt
  /\ EndTick("none")
  /\ UNCHANGED <<chats, watchChats, ack>>

(* Cancellation, a refused or undelivered upload, a failed Telegram or     *)
(* model call: the tick ends where it awaits, with nothing more written.   *)
Awaiting == {"reconcile", "build", "send", "resend", "settle", "resettle"}

Abort ==
  /\ pc \in Awaiting
  /\ pc' = "idle" /\ g' = NoGate
  /\ UNCHANGED <<durable, receiver, lastAttempt, built, fault>>

CooldownExpires ==
  /\ lastAttempt # 0
  /\ lastAttempt' = 0
  /\ UNCHANGED <<durable, receiver, pc, g, built, fault>>

(* The process dies anywhere and comes back only if unlocking accepts what *)
(* it finds on disk.                                                       *)
Restart ==
  /\ pc' = IF RuntimeStateOK THEN "idle" ELSE "refused"
  /\ g' = NoGate /\ lastAttempt' = 0 /\ fault' = "none"
  /\ UNCHANGED <<durable, receiver, built>>

-----------------------------------------------------------------------------
(* extend_chats: three files, three writes, in this order.  It runs as an  *)
(* administrative operation, which has ended the running tick.             *)

AcceptChat(c) ==
  /\ pc = "idle" /\ c \in DOMAIN rx.cursors \ chats
  /\ chats' = chats \cup {c} /\ pc' = "extendWatch"
  /\ UNCHANGED <<watchChats, ack, pending, receiver, g, lastAttempt, built, fault>>

ExtendWatch ==
  /\ pc = "extendWatch"
  /\ watchChats' = chats /\ pc' = "extendAck"
  /\ UNCHANGED <<chats, ack, pending, receiver, g, lastAttempt, built, fault>>

(* Faulty variant: the whole checkpoint restarts at zero.                  *)
ExtendAckFromZero ==
  /\ pc = "extendAck"
  /\ ack' = IF ack.seq = 0 THEN ack ELSE [ack EXCEPT !.cursors = Zero(chats)]
  /\ pc' = "idle"
  /\ UNCHANGED <<chats, watchChats, pending, receiver, g, lastAttempt, built, fault>>

ExtendAck ==
  /\ pc = "extendAck"
  /\ ack' = IF ack.seq = 0 THEN ack
            ELSE [ack EXCEPT !.cursors = [c \in chats |->
                    IF c \in DOMAIN ack.cursors THEN ack.cursors[c] ELSE 0]]
  /\ pc' = "idle"
  /\ UNCHANGED <<chats, watchChats, pending, receiver, g, lastAttempt, built, fault>>

-----------------------------------------------------------------------------
Init ==
  /\ chats = Locked /\ watchChats = Locked
  /\ ack = NoAck /\ pending = NoUpload
  /\ rx = [next |-> 1, prev |-> 0, cursors |-> Zero(Locked), date |-> 0]
  /\ inflight = NoUpload
  /\ today = 1 /\ open = TRUE
  /\ pc = "idle"
  /\ g = NoGate
  /\ lastAttempt = 0 /\ built = 0 /\ fault = "none"

Reconcile ==
  \/ NothingStaged \/ DropStaleLocal \/ ConfirmFromGate \/ UnlinkConfirmed
  \/ Replan \/ PendingNotDue \/ Resume

Plan == NotDue \/ Cooldown \/ Attempt

Extend == (\E c \in Chats : AcceptChat(c)) \/ ExtendWatch \/ ExtendAck

Environment ==
  \/ NextDay \/ CloseWindow \/ (\E c \in Chats : Announce(c))
  \/ Land \/ CutOff \/ Abort \/ CooldownExpires \/ Restart

Next ==
  \/ TakeGate \/ Reconcile \/ Plan \/ Refuse \/ Build \/ RefuseBuild
  \/ UploadReceipted \/ SaveAck \/ UnlinkPending
  \/ Extend \/ Environment

Spec == Init /\ [][Next]_vars

(* The scheduler starts a tick every five minutes for ever, so a step of   *)
(* the tick that is possible again and again is finally taken: failures of *)
(* the network are transient.  The cooldown is no longer than the period,  *)
(* and every call a tick awaits has a timeout (Abort).                     *)
Fairness ==
  /\ SF_vars(TakeGate) /\ SF_vars(Reconcile) /\ SF_vars(Plan) /\ SF_vars(Build)
  /\ SF_vars(UploadReceipted) /\ SF_vars(SaveAck) /\ SF_vars(UnlinkPending)
  /\ WF_vars(CooldownExpires) /\ WF_vars(Abort) /\ WF_vars(NextDay)

FairSpec == Spec /\ Fairness
-----------------------------------------------------------------------------
(* Properties.                                                             *)

Places == {"idle", "reconcile", "confirmed", "plan", "build", "send", "resend", "settle",
           "resettle", "unlink", "reunlink", "extendWatch", "extendAck", "refused"}

(* What the receiver's reader asks of an upload: each chat of the gate has *)
(* its range, and the range runs forward.                                  *)
WellRanged(p) ==
  DOMAIN p.from = DOMAIN p.to /\ \A c \in DOMAIN p.to : p.from[c] <= p.to[c]

(* Every variable keeps its shape, both chat sets stay within Chats, and   *)
(* the upload on disk or in flight is one its loader and the receiver's    *)
(* would take: every chat of its gate has a range, which runs forward.     *)
TypeOK ==
  /\ chats \in SUBSET Chats /\ watchChats \in SUBSET Chats
  /\ ack \in Ack /\ pending \in Upload /\ WellRanged(pending)
  /\ rx \in Chain /\ inflight \in Upload /\ WellRanged(inflight)
  /\ today \in 1..LastDay /\ open \in BOOLEAN
  /\ pc \in Places /\ g \in Gate
  /\ lastAttempt \in Nat /\ built \in Nat
  /\ fault \in {"none", "chain", "load", "build"}

(* The checkpoint never runs ahead of the receiver: acknowledged.json only *)
(* ever names an upload the receiver accepted, and when it names the last  *)
(* one it names it by the right hash.                                      *)
CheckpointIsReceipted ==
  /\ ack.seq < rx.next
  /\ ack.seq + 1 = rx.next => ack.hash = rx.prev

(* Whenever the files load, the receiver stands where the checkpoint says, *)
(* or just behind the one staged upload: whatever was lost, cancelled or   *)
(* crashed, the next gate can always be reconciled.                        *)
ChainAgreement == FilesLoad => ChainOK(rx)

(* With a receiver that never rolls back, _run_digest never raises         *)
(* ReceiverChainError.                                                     *)
NoChainBreak == fault # "chain"

(* A tick reaches the model for every due issue it starts on: a chat that  *)
(* is announced but not accepted yet does not stop the digest.             *)
DigestSurvivesAnnouncement == fault # "build"

(* A staged upload leaves the disk only once it is checkpointed or while   *)
(* the receiver has not accepted it.                                       *)
AcceptedIsNeverDiscarded ==
  [][(Staged /\ pending'.seq = 0) => ack.hash = pending.hash \/ rx.prev # pending.hash]_vars

(* The checkpoint only moves forward: its sequence, its date and every     *)
(* cursor in it.  No message is digested twice.                            *)
CheckpointAdvances ==
  [][/\ ack'.seq >= ack.seq
     /\ ack'.seq > ack.seq => ack'.date > ack.date
     /\ \A c \in DOMAIN ack.cursors :
          c \in DOMAIN ack'.cursors /\ ack'.cursors[c] >= ack.cursors[c]]_vars

(* The digest implements the receipted stream.                             *)
Stream == INSTANCE ReceiptStream WITH head <- rx.next - 1, settled <- ack.seq
StreamSpec == Stream!Spec

(* Once the dates stop advancing, the last day's issue is accepted and     *)
(* checkpointed, and nothing stays staged.                                 *)
LastIssueSettles == <>[](ack.date = LastDay /\ ~Staged)
=============================================================================
