# A verification project for Sunny Personal Digest

This directory holds TLA+ modules for the program in `src/sunny_digest` of this repository, the TLC
configurations that model-check them on small instances, and theorems about them that TLAPS checks
for every instance. Line numbers of `PROJECT.json` refer to the sources of this commit; below,
*engine* is `guardian_engine.py`.

## 1. The system

An Umbrel application of three processes, each under its own user id, and two services outside.

```
 browser ── web (1002) ──admin socket──> guardian (1000) ──Mihomo SOCKS──> Telegram
                                          │   │    └──ssh forced command──> receiver
                      collector (1001) ──jobs socket    vault, checkpoints, staged uploads
                          └── tunnel ──> OpenRouter
```

The guardian reads the unread messages of a locked set of chats, has a model summarise them, and
delivers two *streams* to the receiver: the **daily digest** and the **monitor** (the frozen
baseline of what was unread when a chat was activated, after which the guardian marks the chat as
read). The receiver keeps, per stream, a chain: next sequence number, hash of the last upload,
message-id cursor of every chat. Its *gate*, fetched at the start of a tick, is a snapshot of both
chains with the digest's date and window. An upload must name exactly the position the chain is at.

### Inventory

| component | source | state | operations | what is hard | what makes it correct |
|---|---|---|---|---|---|
| digest chain | engine `_run_digest`, `_digest_*`, `_save_digest_ack`; `contracts.py` | `acknowledged.json`, `pending-upload.json`, cooldown memory | reconcile with the gate, resume, replan, build, upload, checkpoint | receipts lost, late landings, crash between two files, date changes, chat extension | checkpoint never ahead of the receiver, always reconcilable, nothing accepted discarded, the issue is delivered |
| monitor chain | engine `_run_monitor`, `_handle_monitor_pending`, `_apply_monitor_payload`, `_retry_read_acks`, `_run_morning_read_ack` | `watch_state.json`, `monitor-pending-upload.json` | activate, baseline, extension baseline, morning marks, read-acks | the same, and marks that Telegram takes but does not confirm | read marks only behind a delivered baseline; cursors ordered and monotone; activation completes |
| chat extension | engine `extend_chats` | settings, watch state, checkpoint | three writes in a row | crash between them, a staged upload, a baseline not yet taken | the files stay bound to one chat set, or are refused |
| tick | engine `run_once`, `_run_morning_pass` | state lock, run lock, attempt counters | gate, monitor service, digest, read-acks | cancellation at every await | one tick at a time, nothing written after revocation |
| model jobs | `guardian_jobs.py`, `model_collector.py`, `job_contracts.py`, `model_lease.py` | one job slot, `cleanup_unconfirmed` | request, next_job, job_status, job_result, job_reaped, cancel | lost answers, cancellation of a running worker, lease expiry | one worker at a time; no answer of an earlier epoch is used |
| guardian | `guardian.py`, `guardian_ipc.py`, `ipc.py` | admin lock, engine, views, registrations, epoch, next tick | begin, finish, end of epoch, scheduler | an operation against a running tick, exit requests | a grant runs once, in its own epoch |
| session setup, revocation | engine, `vault_storage.py`, `storage.py` | the vault's records, outstanding marker, revocation warning | configure, send_code ... select_chats, extend_chats, revoke_and_reset, acknowledge | crash between any two writes, lost answers, a restored config | a live session is never forgotten, a reset can be finished |
| VPN | `vpn_subscription.py`, engine | active node and its host name, child, stalled ticks, cooldown | choose, replace, re-resolve, test, restore | half-done repair, cancellation, the end of an epoch | ticks use the stored node, a moved node is found again |
| morning pass | engine `_run_morning_pass` | attempt counters, mark of the day (memory) | pass, count, give up | gate older than the pass, dead route, extension, restart | bounded, and given up only when the bound is spent |
| what an issue reads | engine `_run_digest`, `telegram_gateway.py`, `prompting.py` | cursors, prompt budget | boundary, scan, share, refill | a scan cut off, a share refilled, text skipped | no text is passed over unreported, no byte sold twice |
| passkeys | `authn.py`, `guardian.py` | pending challenges, starts, bootstrap token | begin, finish, verify, add, remove, cancel | ceremonies begun while others are finished | a challenge is used once, the owner keeps a passkey |
| vault | `vault.py`, `vault_storage.py`, `secret_files.py` | encrypted document, manifest | initialize, unlock, update, change_passphrase, close | a failed write, a power loss | disk and memory agree, or the vault is closed |
| migration | `migrate_vault.py`, `storage.py` | marker, plaintext, ciphertext | apply, resume | crash, power loss at each barrier | no secret is lost, no plaintext left behind |
| model lease | `guardian_jobs.py`, `model_lease.py`, `openrouter_worker.py` | grant, lease, both clocks | request, send, fall back | suspend, a late answer, the end of an epoch | no prompt leaves outside its grant |
| SSH transport | `ssh_transport.py` | none | gate, upload | timeout with the far side at work | an exchange has happened, or may still |
| gateways, supervisors | `telegram_gateway.py`, `telegram_probe.py`, `mihomo.py`, `openrouter*.py` | child processes, the tasks of a batch | fetch, mark, start, stop | partial answers, reaping, repeated cancellation | nothing outlives its owner, what is answered is reported |
| data | `contracts.py`, `settings.py`, `prompting.py`, `layout.py`, `models.py`, `storage.py` | files | validate, render, write atomically | limits | a document is accepted exactly when well formed |
| web, entry points | `web.py`, `secure_web.py`, `console.py`, `main.py`, `healthcheck.py`, `memory_guard.py` | cookies | parse, forward | | no decision of its own |

How they interact: the scheduler (`guardian.py:476`) starts a tick every 300 seconds unless an
administrative operation holds the admin lock; such an operation first ends the epoch (cancels the
model job and the running tick, waits for both, increments the security epoch) and only then
changes the policy. Files are the only thing a restart keeps.

## 2. Modules

| module | models | extends / uses |
|---|---|---|
| `ReceiptStream` | the abstract promise of a receipted stream | |
| `DigestChain` | the digest chain, with chat extension at its crash points | refines `ReceiptStream` |
| `MonitorChain` | the monitor chain, read marks included | refines `ReceiptStream` |
| `MCDigestChain`, `MCMonitorChain` | model values for TLC | |
| `DigestChainProofs`, `MonitorChainProofs` | the theorems about the two chains | TLAPS |
| `ModelJobs` | the job slot, its worker and the worker's child | |
| `Guardian` | ceremonies, admin lock, epochs, scheduler, process | composes `ModelJobs` |
| `GuardianProofs` | the theorems about `ModelJobs` and `Guardian` | TLAPS |
| `Session` | setup, chat lock, reset and acknowledgement on the vault's records | |
| `Route` | the node, the child, repairs and what starts them | |
| `Morning` | the morning pass and its counters | |
| `VaultFiles` | vault writes and the migration as file steps | |
| `Children` | the supervised child processes | |
| `Collect` | what an issue reads: boundary, shares, refill | |
| `PeerBatch` | a batch of requests over one Telegram client | |
| `ModelGrant` | grant, lease, fallback and the clocks | |
| `Passkeys` | the ceremonies of `authn.py` and the tables beside them | |
| `MCParts` | the nine modules above, one at a time in one run | extends the nine |
| `TelegramProofs` | the theorems about `Session` and `Route` | TLAPS |
| `VaultProofs` | the theorems about `Passkeys` and `VaultFiles` | TLAPS |
| `TickProofs` | the theorems about `Morning`, `ModelGrant` and `Collect` | TLAPS |
| `CallProofs` | the theorems about `Children` and `PeerBatch` | TLAPS |
| `PartsProofs` | `MCParts` is each of its parts | extends the four above |

**ReceiptStream** has two counters, how many uploads the receiver has accepted (`head`) and how many
the guardian knows of (`settled`), and two steps: `Accept` is possible only when they agree, `Settle`
only when they do not. So at most one upload is ever in doubt, and it is settled before the next.

**DigestChain.** One action per step of `_run_digest` between two points where the code can be
interrupted (an await or a write): `TakeGate`; the reconciliation `NothingStaged`, `DropStaleLocal`,
`ConfirmFromGate` + `UnlinkConfirmed`, `Replan`, `PendingNotDue`, `Resume`; the plan `NotDue`,
`Cooldown`, `Attempt`; `Build`, then `UploadReceipted`, `SaveAck`, `UnlinkPending`; and `Refuse` for
every raise of `ReceiverChainError`. `pc` is the place in that function. `AcceptChat`, `ExtendWatch`,
`ExtendAck` are the three writes of `extend_chats`. The environment: the receiver's calendar, its
operator (`Announce`: the receiver binds one more chat at cursor zero), `CutOff` (an exchange that
ends without a receipt; the upload stays in flight), `Land` (it takes effect later, at any time),
`Abort` (the tick ends where it awaits), `Restart` (a crash at any point; the guardian returns only
when `_check_runtime_state` accepts the files). A payload's content is its hash, a fresh number.

**MonitorChain.** `Activate` and `AcceptChat` are administrative. A tick is `TakeGate`, then the
service part (`NothingStaged`, `ResumeAccepted`, `DropMentions`, `ResumeUpload`, `Regate`,
`BuildBaseline`, `BuildExtension`, `BaselineReads`, `ServiceDone`), `UploadReceipted`,
`ApplyPayload`, `UnlinkPending`, then the marks: `MorningTops`, `SendReads`, `SaveReads`,
`FinishReads`. `SendReads` lets Telegram mark more chats than it confirms. A run starts from a new
installation or from an upgraded 0.2.12 one with mentions staged, accepted or not.

**ModelJobs.** `slot` is `JobBroker.active`; `caller` is where `request()` stands: waiting on the
future, or in the shielded cleanup that waits for `job_reaped`. The caller's actions are `Request`,
`TakeAnswer`, `GiveUp`, `Interrupt` (its task is cancelled), `Free` and `CleanupTimesOut`;
`CancelJob` is `cancel()`. The worker is a process of its own, with one action for each of its calls
(`TakeJob`, `Poll`, `PostResult`, `PostReaped`) and one for its loss (`LoseJob`, `LosePoll`,
`LoseResult`, `LoseReaped`); it may crash at any point. `Lapse` is the lease: both processes read
the clocks of one host, so a lease runs out for both. `NewProcess` is a guardian that has ended: its
broker is gone, the worker and its child are not, and `first` tells the new process's jobs from the
earlier ones. `JobsConfined` joins the three things the slot must keep together: `NoStrayChild`,
`ReapedIsGone` and `AnswerIsOwn`. With the one worker the system has, either of the two tests of
`result` (the job was delivered; it is this job) would keep the last: dropping both breaks it.

**Guardian.** `engine`, `challenges`, `views` are the fields of `Guardian`; `vault` keeps the open
vault's epoch, the disk's and the browser hints' apart; `event` is the engine's revoked `Event`,
known by a number because a new epoch *replaces* the object, and a tick holds the one it captured.
`op` is the holder of the admin lock. One action stands for what runs between two awaits:
`StartOperation` cancels the job and every registered task; `EndEpoch`, `EndEpochFails` or
`CleanupUnconfirmed` follow when the tasks it waits for are gone (`Closed`); then `WriteManifest`,
`EndOperation`, or the failure of each. A setup step that finds the lock held waits (`AskStep`) and
looks its view up again when it gets it (`RunStep`); one that finds it free does not give way, and
is left out because nothing can come between. The tick is `Schedule`, `StartTick` (it registers
itself and captures the event once it has `run_lock`), `CallModel`, `Return`, `EndTick`, or the
record that fails to be written (`TickLosesVault`). `Exit` is the end the code asks for (a lock, a
lost vault, an unconfirmed cleanup), `Restart` a crash at any time; `RepairManifest` is the
console's command. What a tick does to the chains is the subject of the other two modules.

**Session.** `records` are the names in the vault, `phase` the field of the settings record,
`markers` the files beside it, `remote` whether Telegram holds a device for us. A handler is the
list of its durable writes and requests in the order of the code (`Put`, `Del`, `Phase`, `Mark`,
`Clear`, `Ask`), and `HandlerStep` takes the next: so a `Crash` may fall between any two, a request may take
effect with its answer lost, and the consent lease may end before any of them. `Open` is the unlock
with `RuntimeStateAccepted`, that is `_check_runtime_state`; `RestoreConfig` is Umbrel's restore of
the configuration without the private directory. `Acknowledge` takes the owner's word that the
device was ended for true. `SessionInit` is an empty installation.

**Route.** `node` and `origin` are the two records, `child` the node Mihomo runs, `repair` the task
that replaces a node (manually or by re-resolution; `at` is the await it stands at), `ends` the
operation that waits for the end of the epoch. A tick is `StartTick`, `EnsureVpn`, `Contact` or
`IdleTick`; the stall counter and the cooldown decide in the `finally` of `run_once` whether a
re-resolution starts. `CommitNode` and `CommitOrigin` follow each other with no await but with a
crash between. `Rotate` moves a host to a new address; the old one is dead from then on.

**Morning.** `StartPass`, `RunDigest`, `RunMorningReadAck`, `MarkIsDone` are the parts of
`_run_morning_pass`; `tries`, `readDone` its counters and mark, which a restart forgets; `spent` is
observability: what each day has cost. An issue may be settled with no contact to Telegram at all
(the gate confirms it, or a staged upload is resent), so `RunDigest` takes either answer to whether
Telegram was heard, whatever its outcome.

**VaultFiles.** `seen` is what a reader finds, `kept` what a power loss may leave of each file: a
write or an unlink adds to it, and the fsync of the directory (`DoSync`) settles every file in it.
An operation is a list of steps in the order of the code, `job`; `at` is the next one and `dirty` the
directory a step has changed and not synced yet. `Begin` starts `Vault.initialize` with the migration
(`Apply`), `Resume`, `Unlock`, `Update`, `ChangePassphrase` or `RepairManifest`. `DoWrite` replaces one
file, its own fsync before the replacement included; the three directories (configuration, private,
mihomo) are synced each for itself, and each holds a record and a remnant of an interrupted write;
`DoUnlink` removes one of the files of its step
and `AllUnlinked` ends the step when all are gone: the names of one step may go in any order, and one
that is gone is passed over without a sync, as `safe_unlink` does. `FileFails`, `VaultCrash` and
`PowerLoss` come before any step and between a change and its sync. A vault file is its wrapper's and
its body's key: it opens when they agree.

**Children.** One supervised call of any of eight kinds. The kinds differ in what they watch
(deadline, revoked event), whether the child is checked by the memory guard, whether key files exist
and whether the exit code matters. `CancelCaller` comes as often as it likes, also in the cleanup.
The ssh check and the model worker's fetch are *deaf*: a cancellation that comes during their
cleanup is not reported, and `NothingOutlives` says so; where the cleanup of a failed disconnect
raises, its error replaces the cancellation.

**Collect.** A chat is a sequence of messages with a day and a row size; a message may come at any
moment, and the run sees those up to its `cutoff`. `StartIssue` begins what `_run_digest` does
between plan and model, and `stage` is the place in it. Both passes open the chats of `todo` in the
order of their ids, as the gate lists them (`IsNextFeed`). In the first pass each is opened
(`BeginScan`: `DigestLookback` and `IsBoundary` give its lower end, `Share` its budget), read one
message a step (`PassOver` for one without text, `TakeRow` for one that goes into
the prompt) and closed (`EndFetch`), at the end of its window or before a row that does not fit.
`StartRefill` divides what is left among the `exhausted` chats, `BeginRefill` opens each again from
where it stopped (`NothingToRefill` skips it), and there the first row of a chat is cut when it may
not wait: it then takes anything from one byte to the budget, since whole characters are cut.
`CompletePrompt` ends the passes; `Accepted` moves the receiver's cursors, `DropIssue` is every other
end. The bytes of all rows are `sold`; `told`, `opening` and `cutTo` are observability.

**PeerBatch.** One task per chat: waiting for a slot, asking, going on to the topics of a forum,
joined. A future the client cancels ends its task as a cancellation (`FutureCancelled`), which is
what `_gather_peer_tasks` is written for.

**ModelGrant.** `grant` is what gate and consent left when the gate was received, with the time that
has passed since, awake and asleep; `jobLease` what the job was given of it. `SendPrompt` is the
worker's last look at the lease before the bytes leave. The mailbox is left to `ModelJobs`.

**Passkeys.** `pending` joins the authorizer's challenges with `_registration`, since both are
dropped together; `unlocking` is `_unlock_pending`; `busy` the operation that holds the lock and waits
for the end of its epoch, while further ceremonies may be begun. `FinishOperation` also takes an
unlock ceremony that is finished after the guardian was unlocked by another: the code ends the epoch
before it refuses it. A ceremony is known by the start that is counted for it.

**MCParts.** These nine components share no variable, so a behaviour of one says nothing about
another, and their product would only multiply states. `part` is chosen in the initial state and
names the module that moves; the others stay as they started. The run is nine runs in one, with the
fairness of `Route` stated for behaviours of that part.

The operators with a comment "Faulty variant" (`ConfirmWithoutSaving`, `MorningTopsAsAnswered`, ...)
are not part of any specification: each is the definition that follows it with a plausible bug in
it, and shows that the property named for it in `PROJECT.json` notices.

## 3. What TLC checks

| run | question | bounds |
|---|---|---|
| `digest_daily` | fixed chats: does any loss, crash, cancellation or late landing make the chain irreconcilable (`NoChainBreak`); is the last issue finally delivered (`LastIssueSettles`) | 1 chat, 3 dates, message ids to 2 |
| `digest_quiet` | chats announced while nothing is staged: does every staged upload cover its gate's chats, each range running forward (`TypeOK`); `ChainAgreement`, `AcceptedIsNeverDiscarded`, refinement of `ReceiptStream` | 2 chats, 3 dates |
| `digest_loose` | chats announced and accepted at any time: what still holds (`CheckpointIsReceipted`, `CheckpointAdvances`) | 2 chats, 3 dates |
| `digest_announced` | violation, finding 1 | 2 chats |
| `digest_wedged` | violation, finding 2 | 2 chats, 2 dates |
| `monitor_careful` | chats announced one at a time to a settled monitor: `ReadsFollowBaseline`, `MonitorNeverBreaks`, `MonitorSettles` | 2 chats, ids to 1 |
| `monitor_loose` | chats announced at any time: `WatchStateLoads`, `ReadsAreCheckpointed`, `AcceptedIsNeverDropped`, `MonitorAdvances`, refinement of `ReceiptStream` | 2 chats, ids to 2 |
| `monitor_early` | violation, finding 3 | 2 chats |
| `guardian_epochs` | does an epoch end only when its work has (`EpochEndsWork`), do jobs stay confined to one slot, worker and answer (`JobsConfined`), is a view used only in its epoch, does a failed write or an unconfirmed cleanup end the process (`BrokenGuardianEnds`), does every request come back and do ticks resume | 2 epochs, 2 jobs, 1 pending ceremony |
| `guardian_overlap` | violation, finding 4 | the same |
| `parts` | `DeviceIsNotForgotten` (Session); `TicksUseTheStoredNode`, `EndedRepairsAreInert`, `RotationIsHealed` (Route); `MorningIsBoundedAndEarned` (Morning); `NothingIsLost`, `ReadyMeansClean` (VaultFiles); `NothingOutlives` (Children); `TextIsReadOrReported`, `NoByteIsSoldTwice`, `NobodyIsCrowdedOut` (Collect); `BatchIsAccounted` (PeerBatch); `PromptsAreGranted` (ModelGrant); `OwnerKeepsAPasskey` (Passkeys) | below |
| `session_stuck` | violation, finding 5 | none: the module is finite |

*Why the bounds are enough.* The uploads of a stream interact only with their neighbours in the
chain: three dates give an upload in doubt, its successor, and one after a missed day. One locked
and one announced chat give every relation between the two chat sets; message ids only move
forward, and two moves show a cursor that stays, moves, and could move back. The model never
bounds the number of ticks, crashes, losses or restarts. `built`, the hash counter, is bounded by
the dates through the cooldown and the chain, not by a constraint. One change of epoch gives every
order of an operation, its tick, the job and the worker; two jobs are needed for a child of one
while the slot holds the other, across a restart or not; a second pending ceremony only repeats the
first, since the end of an epoch drops them all, and the number of restarts and lost calls has no
bound. Only `parts` and `session_stuck` say
`CHECK_DEADLOCK FALSE`: their bounded counters run out, and a component that is done may stop. All
other runs check that the system never stops.

*The bounds of `parts`.* `Session` has none: every record, every phase and any number of crashes and
restores. `Route`: one provider with a host name and one without give a repair that keeps, gains or
loses the name; one rotation, one fault and two ends of an epoch give a repair overtaken at each
await (`RotationIsHealed` needs faults to end, as it does in the world). `Morning`: two chats (one
added during a pass), two answered attempts of three ticks (so that either limit is met first), two
days, one restart. `VaultFiles`: one record in each directory, two changes of the passphrase, five
operations, any number of failures and power losses; two changes leave a file that may be the old,
the middle or the new one. `Children`: two cancellations of one call, one while it waits and one in
its cleanup, or both there. `Collect`: two chats, messages with no text, a row below a share and one above it in a space of
seven units, three messages, three days, a scan of two: chats put off, rows cut and shares refilled,
scans cut off by size and by count, messages that arrive while others are read, issues that are lost,
and a chat that joins in between. With a look-back of one day, the third lets a message grow older
than the window: text is skipped and announced, the window widens after a missed issue, and the very
first issue passes text that was already too old. `PeerBatch`: three chats for two slots, so
that one waits for a second wave. `ModelGrant`: a grant of up to four, a budget of three, a
permitted gap of one and a nap of two put each expiry on either side of each step. `Passkeys`: a
limit of two of three devices, four starts in a lifetime (add, its registration and two others), two
bootstrap tokens, two ends of an epoch: two removals, or two additions, begun together. The nine
together have about 1.2 million states. `PartsTypeOK` looks at the variables of the part that moves:
those of the others are as they began.

*Two assumptions about the operator of the receiver* are constants. `QuietOnly`: a chat is announced
only while no digest is staged. `Careful`: a chat is announced only to an active monitor with
nothing staged and no extension under way, and only while the receiver names no other chat that is
not accepted locally. Neither is enforced by the code; the runs `digest_loose`
and `monitor_loose` do without them, and the findings show what is lost then.

*Fairness.* `scheduler` starts a tick every five minutes for ever, whatever became of the last one,
and the transient failures of the network are modelled as choices: so a step of the tick that
becomes possible again and again is finally taken (strong fairness of each step; every `Abort`,
`CutOff` and crash may interrupt it any finite number of times in a row). `Abort` is weakly fair
because every await of a tick has a deadline (`_bounded_external`, `asyncio.wait(..., timeout=30)`).
`CooldownExpires` is weakly fair because the cooldown is a duration; `NextDay` because it is a
calendar. Announcing, accepting chats and crashing are never fair. For read marks, fairness says
that Telegram sometimes confirms a whole batch (`WholeBatch`, `WholeSave`): a chat that is refused
for ever would, and in the code does, hold the activation open.

In `Guardian` what the guardian's own event loop has started goes on (weak fairness of the caller's
waits, of the end of an operation and of a step, of a tick's start, return and end; a tick's own
awaits have deadlines). A lease runs out after at most 235 seconds, the wait for a cleanup after
ten, so `Lapse` and `Cleanup` are weakly fair. The scheduler retries every five minutes, and other
holders of the lock come and go between (strong fairness of `Schedule`). The exit that is asked for
happens (`Exit`). Users, the worker and crashes are never fair: `RequestEnds`, for one, holds
whatever the worker does.

In `Route` the scheduler starts ticks for ever and morning windows open again (`FairScheduler`); the
awaits of a repair have deadlines (`FairRepair`; its `finally` writes run on, `CommitOrigin`); the
cooldown is a clock (`FairCooldown`); an operation that has ended the epoch goes on (`FairAdmin`); an
await on Telegram is bounded (`FairContact`). `EnsureVpn` is strongly fair: ticks that other holders
of the run lock keep from the node come again every five minutes. Rotations, faults, users and
crashes are not fair. `MCParts` states the same fairness for behaviours of the part `route`.

*What the properties of `parts` leave out.* Each exemption is a behaviour of the code that a reader
should know:

* `ReadyMeansClean` exempts a remnant in the mihomo directory after a power loss: `safe_unlink`
  (`storage.py:77`) returns for a name that is gone without syncing the directory, so a removal that
  an earlier process did not sync is not made durable by a later one.
* `TextIsReadOrReported` exempts what was older than the window when the very first issue came out
  (engine:2828): with no checkpoint the window is not widened, and a zero cursor announces nothing.
* `NobodyIsCrowdedOut` asks for a row of every chat that wanted more than its share. Beyond the first
  row it measures a chat by its share: one that wanted more may be left with less than
  a share when its next row would have taken it past the share (the refill, which has no whole share
  to give to a chat that has a row, may not reach it), and when its first row was cut, which loses up
  to a character.
* `RotationIsHealed` accepts any node that answers: after a crash between the node and its host name
  (engine:1158) a re-resolution goes to the earlier provider, which the docstring accepts.
* `PromptsAreGranted` counts time from the receipt of the gate (engine:2172), as the code does. What
  passes during the exchange itself, a suspend included, is never seen.

## 4. Findings

1. **An announced chat stops the digest** (`digest_announced`). While the receiver names a chat not
   accepted locally, the chain check forgives it, and `build_digest_upload` then refuses the issue,
   because its ranges must cover the gate's cursors. A comment in the chain check says the digest
   must not fall during exactly this window.
2. **A chat accepted while a digest is staged** (`digest_wedged`) leaves the staged upload linked to
   no checkpoint: every later tick fails, and the vault does not unlock.
3. **A chat accepted between activation and the first baseline** (`monitor_early`) keeps its mark as
   awaiting an extension that nothing can deliver: every later tick fails while building it.
4. **A tick beside an operation** (`guardian_overlap`). The scheduler's comment says that an
   administrative operation has already cancelled the tick it found. `close` cancels the tasks that
   have registered themselves, and a tick registers once it holds the run lock: one that was only
   just created, or waits behind a VPN repair, is not cancelled, captures the new epoch's event and
   runs beside the operation. `EpochEndsWork` still holds: it does nothing before the epoch ends.

5. **A reset that is cut off cannot be finished** (`session_stuck`). A reset deletes the vault's
   records one write at a time, the settings first. After a crash, or a failed write, between two of
   them `_check_runtime_state` refuses the records without settings at every later unlock, so the
   acknowledgement that a comment says finishes a failed reset can never run. A crash in the middle
   of `configure`, of `select_chats`, or after a restore of the configuration alone comes to the
   same.

Each was met while modelling and agrees with what the Python code does when driven through it.

One more was met while proving, and no run shows it (with three chats it is too large for one): two
chats announced together can stop every tick until both are accepted. One of them is accepted, its
extension baseline is staged and the exchange is cut off. The next tick's chain check
(engine:2190-2195) forgives a chat the receiver names and the guardian does not have, as its comment
says it must, but the handler of the staged payload (engine:2068-2070) compares the two chat sets and
raises. TLC finds this on `MonitorChain` with a third chat, and it is why `Careful` says *one at a
time*: with one chat in doubt the receiver's set and the guardian's agree whenever something is staged.

## 5. What is proved

Every theorem holds for all values of the constants: TLC's bounds play no part. Every safety property
of a run that passes is proved, every action property included; what stays with TLC is liveness.

### The chains

`DigestChainProofs`, for every set of chats, every number of dates and message ids:

* `DigestTypes`: `Spec => []TypeOK`, which says besides the types that every staged or travelling
  upload has one range for each chat of its gate and none that runs backward (`WellRanged`): the
  receiver would refuse it for ever, and a chat announced or accepted meanwhile must not make it so.
* `DigestCheckpointIsReceipted`: `Spec => []CheckpointIsReceipted`, without any assumption on the
  operator. The inductive invariant `ReceiptInv` adds what connects the upload under way to the
  chain: hashes are never reused, a tick that is about to checkpoint holds an upload the receiver
  has accepted, and an upload in flight is one that was staged.
* `DigestCheckpointAdvances`: no step takes the checkpoint back (`CheckpointAdvances`), again without
  any assumption. A sequence number alone would not do, since a staged upload may be one that was
  checkpointed long ago: `AdvanceInv` says that what is staged is ahead of the checkpoint or is the
  checkpoint, that a plan continues it, and that what has been sent links to it.
* `DigestAgreement`, `DigestNeverBreaks`, `DigestKeepsAccepted`, `DigestImplementsStream`:
  `ChainAgreement`, `NoChainBreak`, `AcceptedIsNeverDiscarded` and the refinement of `ReceiptStream`,
  under `QuietOnly = TRUE`. The inductive invariant `QuietInv` says where the stream can be at all:
  the checkpoint is sound; the disk is in one of four stages (*settled*, *waiting* for an upload to
  be accepted, accepted but not checkpointed (*arrived*), checkpointed but not unlinked (*saved*));
  an upload in flight is the staged one or can never be accepted again; and the running tick's gate
  is not behind the stage its place allows. Agreement alone is not inductive, because whether a late
  landing is harmless depends on the stage.

`MonitorChainProofs`, for every set of chats and message ids:

* `MonitorTypes`, `MonitorStateLoads`, `MonitorReadsCheckpointed`, `MonitorMovesForward`,
  `MonitorKeepsAccepted` and `MonitorImplementsStream`, for any behaviour of the operator: the watch
  state passes its own validation whenever it is loaded, marks are backed by a checkpoint, cursors
  and sequence never go back, an accepted payload is applied before it leaves the disk, and the
  monitor refines `ReceiptStream`. `TypeInv` and `ReadInv` carry the first four: the latter adds that
  the chats whose marks a tick is about to save (`reported`) do show those marks in Telegram. `ChainInv` carries
  the rest: the stages of the digest again, a gate that shows the receiver's position unless the
  staged payload has landed since, and mentions of release 0.2.12 that are never on their way.
* `CarefulMonitorNeverBreaks`, `CarefulReadsFollowBaseline`, `CarefulAwaitingNeedsBaseline`, under
  `Careful = TRUE`. `CarefulInv` relates the cursors of the two sides: they agree on every chat, but
  for the staged payload's move; at most one chat is announced and not accepted, and none while
  something is staged; one that awaits its baseline is still at zero; and what is staged starts where
  the watch state is. The third is
  the property that `monitor_early` refutes without the assumption.

### The guardian

`GuardianProofs` begins with `ModelJobs`, for every number of jobs: `JobsAreConfined`, that is
`NoStrayChild`, `ReapedIsGone` (the broker never takes a child for reaped that still runs) and
`AnswerIsOwn`. `NoStrayChild` alone is not inductive: the broker frees a slot that was never
delivered without waiting, so the invariant `JobInv` adds that a child of the slot's own job means a
delivered slot, that only a delivered one is acknowledged, and that the caller is at work exactly
when there is a job. Then, for every number of epochs, jobs and ceremonies:

* `GuardianUsesJobs`: `Spec => JobSpec`; every step of the guardian is a step of the jobs'
  specification or leaves them alone. So `JobsStayConfined` follows from the jobs' own theorem.
* `GuardianTypesHold`, `VaultIsOnDisk`: `TypeOK` and `RamIsDisk`.
* `EpochsEndWork`, `StepsKeepEpoch`: the two action properties. Their invariant `EpochInv` holds the
  argument of `close`: while it waits, the revoked event stays set, so no tick it does not wait for
  can ask for a job or close the vault, and the job it has cancelled stays cancelled. When the tick
  it waits for is gone, nobody waits for a job; then the slot is empty, and by `NoStrayChild` no
  child is left unless the latch is set, in which case the epoch does not end.

`TelegramProofs` begins with `TheDeviceIsNotForgotten` and `SessionTypes`. The handler that was cut off is gone,
so the invariant `SessionInv` has to say what the rest of each handler may still do: only a reset
gives the outstanding marker and the warning up, and only once Telegram holds no device; every phase
behind `configured` has the marker beside it, or `send_code` is about to write it; and a reset that
has begun to wipe has no phase any more, since the settings are the first record to go.

Its second part is about the route, for every set of providers and every number of rotations, faults
and epochs: `RouteTypes`, `TicksUseTheStoredNodeOnly` and `EndedRepairsChangeNothing`. `RouteInv` says that a
repair of an epoch that is over has only just been created (a cancelled tick may still create one)
and will stop at its first look at the event; that a repair which holds the run lock excludes a
tick; and, place by place, which node the child runs.

`VaultProofs` has two parts. `TheOwnerKeepsAPasskey` and `PasskeysTypesHold`, for any number of
devices, limits, lifetimes and ceremonies at a time. The property is not inductive: the invariant
`PasskeysInv` adds that every ceremony that is alive, and the one that holds the lock, still *fits*
the passkeys as they are (a removal names one of at least two, an addition finds room, and the new
key is not among them). It is kept because the end of an epoch drops every other ceremony before the
passkeys change, and nothing is awaited in between.

`NoSecretIsLost`, `ReadyVaultsAreClean` and `VaultTypesHold`, for every set of legacy records and any
number of operations, failures, crashes and power losses. The invariant `FilesInv` speaks of `kept`,
not of what is seen: every vault that a power loss could leave opens with a passphrase the owner has
and holds all the secrets; while it could still leave *no* vault, no plaintext is touched; and a
vault without a durable marker beside it means that the remnants are durably gone. For this, it names
what each operation has reached at each step (`ApplyFits`, `FinishFits`, `ChangeFits`): the marker
is on the disk before the vault, the private directory is synced (with the manifest) and the
configuration (with the marker) before the first plaintext file is removed, and the old passphrase is given up only when the new vault is the
only one a power loss can leave. `FinishMigration` is reached from `Apply` and from `Resume`, so
`FinishFits` is about the place in it from either.

### Ticks and calls

`TickProofs`, for every set of chats, both limits and any number of days and restarts:
`MorningMarksAreBounded` and `MorningTypesHold`. The invariant `MorningInv` connects the one pair of
counters in memory with what every day has cost: the counters are those of the last key counted,
keys of the same chats come in the order of their days, and a key that differs from the counters'
has cost nothing, which is why resetting the counters for a new key loses no count. And, for every
length of grant, lease, gap and nap, `EveryPromptIsGranted` (the action property) and
`GrantTypesHold`. `GrantInv` says what has been sent at each place of the caller and of the worker: a
lease never outlasts its grant, and a second prompt follows one refusal only.

The third part of `TickProofs` is `Collect`: `EveryTextIsReadOrReported`, `PromptsAlwaysFit`,
`NobodyIsEverCrowdedOut` and `CollectTypesHold`, for every set of chats that fits the prompt, every
prompt, row size, lookback, scan limit and number of days and messages. None of the three is
inductive, and they need each other's strengthening; `CollectInv` has these parts:

* `RangeInv` says what lies behind the range of a chat that has been opened: from its cursor to
  `lower` only what is older than the window, from there to `through` only what was selected or has no
  text, and after `cutoff` only messages of today. The difficult case is a cursor of zero, which
  announces no skip. `HistoryInv` carries it across days: beside a checkpoint, a locked chat still at
  zero has no message that is older than the last issue and was sent after it was chosen. That holds
  because an issue whose range of a chat ends at zero has found that chat empty, or has put it off
  with its first row, and then the refill cannot leave it at zero: it has a whole share aside, so the
  first row is taken or cut. So the exact form of the refill's reserve is what keeps text from being
  skipped in silence.
* `BudgetInv` counts promises: what is sold, what the open fetch may still take, a share for every
  chat to come, a share for every chat put off, and the separators never exceed the prompt; in the
  refill, `refill` for each chat to come and a share more for those without a row. Each step moves a
  promise from one term to another.
* `CrowdInv`: a chat that wanted more has had its share, or its next row would exceed it. That leaves
  open a chat whose first row is bigger than its share and which gets no row at all; `DeferredInv`
  closes it: a chat that was put off without a row is still to be refilled, or its open fetch has the
  next row before it, and a fetch of the refill cannot end there, because the row is cut instead.

`PromptsAlwaysFit` is the reason why the exact length check at the end of the code never refuses a
prompt that the shares have filled.

`CallProofs`, for any number of cancellations: `NothingOutlivesACall` and `ChildrenTypesHold`. The
invariant `ChildInv` says at which place of a call the child is reaped, the exchange over and the key
files gone, and that a cancellation, once it has come, is remembered (`heard`) through the cleanup or
already reported. And, for every number of chats, slots and ticks of a deadline,
`EveryBatchIsAccounted` and `BatchTypes`. The deadline of a batch is a scheduling argument: no slot
is idle while a chat waits, so once k deadlines are past the first k + 1 waves have started
(`NoneIdle`), a chat that runs beyond k deadlines has k waves before it (`LateOnes`), and the last
wave is over in time.

`PartsProofs` closes the gap between the run `parts` and these theorems: every behaviour of `MCParts`
is a behaviour of each part (one lemma per part), so `PartsTypesHold` and whatever else is proved of a
part holds of the composition.

### Assumptions, and what is not proved

The proofs have one step per action; the steps of a tick and those of the environment are separate
lemmas. They assume the named ASSUMEs of the modules, which TLC evaluates in every run of these
modules, and nothing else: of the chains (the locked chats are a non-empty subset of the chats; there
is at least one date), of `ModelJobs`, `Guardian`, `Route`, `Children`, `PeerBatch`, `Morning`,
`ModelGrant`, `Passkeys` and `Collect` (bounds, limits and lifetimes are natural numbers, positive where
zero would disable the component; no provider is in both sets, a batch has finitely many chats), of
`VaultFiles` (finitely many records, with names other than those of the vault's own files, each in one
directory), of `Collect` besides that chat ids are integers, and
`LeastSharesFit` of `Collect`: the prompt has room for the least share of every chat and the separators.
The code guarantees it: at most 16 chats can be locked, a least share is 1024 bytes, and a prompt of
98304 bytes has a prefix of 6004. `Session` has no
constants. `QuietOnly` and `Careful` are hypotheses of the theorems that need them, by name.

*Only model-checked:* every liveness property (`LastIssueSettles`, `MonitorSettles`, `RequestEnds`,
`TicksResume`, `BrokenGuardianEnds`, `RotationIsHealed`): proofs under fairness are out of the prover's
reach. No invariant and no action property is left to TLC alone.

## 6. Not modelled, and the plan

Not modelled, for good: cryptography (a vault opens when its keys agree, an assertion is accepted or
not), TLS and HTTP, parsing of subscriptions and links, the text and layout of prompts and digests,
web forms and cookies, the command lines of the entry points, and packaging. `mlock` and its like in
`memory_guard.py` are calls with no state of their own; `verify_native_child`, which may fail between
spawn and use, is a choice in `Children`. The heartbeat, the status file and the journal record
nothing that is read back for a decision. The receiver's timezone is fixed: a plan is compared by its
date only (`Replan`, `Resume`), where the code compares the timezone too (engine:2735-2737); the two
differ only if the receiver is reconfigured within one date. Two seconds between unlock attempts are shorter than a
step of the clock in `Passkeys`.

Planned next: the tick as a composition, that is one gate for both chains and the morning pass, the
order in which their errors are reported, and a cancellation between them. Today `DigestChain` and
`MonitorChain` each take their own gate at the start of a tick, and `Morning` one of its own.
