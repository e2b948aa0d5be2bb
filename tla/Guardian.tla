------------------------------ MODULE Guardian ------------------------------
(***************************************************************************)
(* guardian.Guardian: ceremonies, the administrative lock, the end of a    *)
(* security epoch, the scheduler and the process around them, composed     *)
(* with the model jobs of ModelJobs.  guardian.py, guardian_ipc.dispatch   *)
(* and serve, Collector.run_once as far as it is scheduled and cancelled.  *)
(*                                                                         *)
(* The policy revision always moves with the security epoch, so one number *)
(* stands for both.  A view token is known by the epoch it was issued in.  *)
(***************************************************************************)
EXTENDS ModelJobs, FiniteSets

CONSTANTS
  MaxEpoch,     \* bound: the last security epoch
  MaxPending    \* bound: ceremonies pending at a time

ASSUME GuardianAssumption == MaxEpoch \in Nat \ {0} /\ MaxPending \in Nat

VARIABLES
  engine,       \* "locked" (Guardian.engine is None) or "unlocked"
  vault,        \* ram: the open vault's epoch, 0 when closed; disk; hints: the manifest
  challenges,   \* ceremonies begun and not yet consumed
  views,        \* Guardian._views
  step,         \* the view of a setup step that waits for the admin lock, or 0
  op,           \* the holder of the admin lock
  event,        \* Collector.revoked: which Event object, and whether it is set
  tick,         \* the scheduler's tick task and the Event it has captured
  exit          \* exit_requested, or a dead scheduler: the process is ending

policy == <<engine, vault, challenges, views, step>>
guardianVars == <<policy, op, event, tick, exit>>
vars == <<jobVars, guardianVars>>

-----------------------------------------------------------------------------
Epochs == 1..MaxEpoch
Operations == {"unlock", "lock", "change", "passkey_add", "registration"}
Challenge == [op : Operations, epoch : Epochs]
Held == [at : {"free", "closing", "hinting", "executing", "stepping"},
         kind : Operations \cup {"none"}, waits : BOOLEAN]
NoHolder == [at |-> "free", kind |-> "none", waits |-> FALSE]
NoTick == [at |-> "none", event |-> 0]

TickRegistered == tick.at \notin {"none", "created"}
Doomed == tick.event # event.n \/ event.set
TickLive == TickRegistered /\ ~Doomed

Pending(kind) == {c \in challenges : c.op = kind}

-----------------------------------------------------------------------------
(* Ceremonies.                                                             *)

Begin(kind) ==
  /\ Cardinality(challenges) < MaxPending
  /\ \/ /\ kind \in {"lock", "change", "passkey_add"}
        /\ engine = "unlocked" /\ vault.ram > 0
        /\ challenges' = challenges \cup {[op |-> kind, epoch |-> vault.ram]}
     \/ /\ kind = "unlock" /\ engine = "locked" /\ Pending("unlock") = {}
        /\ challenges' = challenges \cup {[op |-> kind, epoch |-> vault.hints]}
  /\ UNCHANGED <<jobVars, engine, vault, views, step, op, event, tick, exit>>

(* 120 seconds, or a finish that is refused: a challenge is used up anyway. *)
Lose(c) ==
  /\ c \in challenges
  /\ challenges' = challenges \ {c}
  /\ UNCHANGED <<jobVars, engine, vault, views, step, op, event, tick, exit>>

(* finish while locked: the vault is opened, and the browser's hints must  *)
(* agree with what it holds.                                               *)
Unlock(c) ==
  /\ op.at = "free" /\ engine = "locked" /\ c \in Pending("unlock")
  /\ c.epoch = vault.disk
  /\ engine' = "unlocked" /\ vault' = [vault EXCEPT !.ram = vault.disk]
  /\ challenges' = challenges \ {c} /\ views' = views \cup {vault.disk}
  /\ event' = [n |-> event.n + 1, set |-> FALSE]
  /\ UNCHANGED <<jobVars, step, op, tick, exit>>

(* passkey_add: the grant only opens a registration.                       *)
OpenRegistration(c) ==
  /\ op.at = "free" /\ engine = "unlocked" /\ c \in Pending("passkey_add")
  /\ c.epoch = vault.ram
  /\ challenges' = (challenges \ {c}) \cup {[op |-> "registration", epoch |-> vault.ram]}
  /\ UNCHANGED <<jobVars, engine, vault, views, step, op, event, tick, exit>>

(* finish on a vault that a failed write has closed.                       *)
FinishWithoutVault(c) ==
  /\ op.at = "free" /\ engine = "unlocked" /\ vault.ram = 0
  /\ c \in challenges /\ c.op # "registration"
  /\ exit' = TRUE
  /\ UNCHANGED <<jobVars, policy, op, event, tick>>

-----------------------------------------------------------------------------
(* The end of an epoch.                                                    *)

(* jobs.cancel, then close: revoked is set and every task that has         *)
(* registered itself is cancelled, all before the first await.             *)
StartOperation(c) ==
  /\ op.at = "free" /\ engine = "unlocked"
  /\ c \in challenges /\ c.op \in {"lock", "change", "registration"}
  /\ c.epoch = vault.ram /\ vault.ram < MaxEpoch
  /\ CancelJob
  /\ challenges' = challenges \ {c}
  /\ op' = [at |-> "closing", kind |-> c.op, waits |-> TickRegistered]
  /\ event' = [event EXCEPT !.set = TRUE]
  /\ UNCHANGED <<engine, vault, views, step, tick, exit>>

(* Faulty variant: close does not wait for what it has cancelled.          *)
ClosedAtOnce == op.at = "closing"

(* close has returned: the tick it has cancelled is gone.                  *)
Closed == op.at = "closing" /\ (op.waits => tick.at = "none")

(* close itself fails (the VPN child's directory cannot be removed).       *)
CloseFails ==
  /\ Closed
  /\ op' = NoHolder
  /\ UNCHANGED <<jobVars, policy, event, tick, exit>>

CleanupUnconfirmed ==
  /\ Closed /\ unconfirmed
  /\ op' = NoHolder /\ exit' = TRUE
  /\ UNCHANGED <<jobVars, policy, event, tick>>

FreshEpoch ==
  /\ event' = [n |-> event.n + 1, set |-> FALSE]
  /\ views' = {} /\ challenges' = {}

(* Faulty variant: the revoked Event of the ended epoch is kept.           *)
EndEpochKeepingTheEvent ==
  /\ Closed /\ ~unconfirmed
  /\ views' = {} /\ challenges' = {}
  /\ vault' = [vault EXCEPT !.ram = @ + 1, !.disk = vault.ram + 1]
  /\ op' = [op EXCEPT !.at = "hinting"]
  /\ UNCHANGED <<jobVars, engine, step, event, tick, exit>>

EndEpoch ==
  /\ Closed /\ ~unconfirmed
  /\ FreshEpoch
  /\ vault' = [vault EXCEPT !.ram = @ + 1, !.disk = vault.ram + 1]
  /\ op' = [op EXCEPT !.at = "hinting"]
  /\ UNCHANGED <<jobVars, engine, step, tick, exit>>

(* Faulty variant: a failed write leaves the vault open.                   *)
EndEpochUnwritten ==
  /\ Closed /\ ~unconfirmed
  /\ FreshEpoch
  /\ vault' = [vault EXCEPT !.ram = @ + 1]
  /\ op' = NoHolder /\ exit' = (exit \/ op.kind # "registration")
  /\ UNCHANGED <<jobVars, engine, step, tick>>

(* vault.update fails: the vault closes, whatever has reached the disk.    *)
(* Only finish, not registration_finish, then asks for the exit.           *)
EndEpochFails ==
  /\ Closed /\ ~unconfirmed
  /\ FreshEpoch
  /\ \E disk \in {vault.disk, vault.ram + 1} :
       vault' = [vault EXCEPT !.ram = 0, !.disk = disk]
  /\ op' = NoHolder /\ exit' = (exit \/ op.kind # "registration")
  /\ UNCHANGED <<jobVars, engine, step, tick>>

(* write_manifest; a lock then closes the vault and asks for the exit.     *)
WriteManifest ==
  /\ op.at = "hinting"
  /\ IF op.kind = "lock"
     THEN /\ vault' = [vault EXCEPT !.hints = vault.ram, !.ram = 0]
          /\ engine' = "locked" /\ exit' = TRUE /\ op' = NoHolder
     ELSE /\ vault' = [vault EXCEPT !.hints = vault.ram]
          /\ op' = [op EXCEPT !.at = "executing"]
          /\ UNCHANGED <<engine, exit>>
  /\ UNCHANGED <<jobVars, challenges, views, step, event, tick>>

ManifestFails ==
  /\ op.at = "hinting"
  /\ op' = NoHolder
  /\ UNCHANGED <<jobVars, policy, event, tick, exit>>

(* Faulty variant: a view is issued for a vault that has closed meanwhile.  *)
EndOperationWithoutVault ==
  /\ op.at = "executing"
  /\ op' = NoHolder /\ views' \in {views, views \cup {vault.ram}}
  /\ UNCHANGED <<jobVars, engine, vault, challenges, step, event, tick, exit>>

(* The operation itself has run, or was refused: a view only if it has.    *)
EndOperation ==
  /\ op.at = "executing" /\ vault.ram > 0
  /\ op' = NoHolder /\ views' \in {views, views \cup {vault.ram}}
  /\ UNCHANGED <<jobVars, engine, vault, challenges, step, event, tick, exit>>

OperationLosesVault ==
  /\ op.at = "executing"
  /\ vault' = [vault EXCEPT !.ram = 0]
  /\ op' = NoHolder /\ exit' = (exit \/ op.kind # "registration")
  /\ UNCHANGED <<jobVars, engine, challenges, views, step, event, tick>>

-----------------------------------------------------------------------------
(* Setup and presentation steps, authorised by a view.                     *)

(* A free lock is taken without giving way, under the check just made; what *)
(* is modelled is the step that has to wait for an operation to end.       *)
AskStep(view) ==
  /\ engine = "unlocked" /\ view \in views
  /\ op.at \in {"closing", "executing"} /\ step = 0
  /\ step' = view
  /\ UNCHANGED <<jobVars, engine, vault, challenges, views, op, event, tick, exit>>

ExpireView(view) ==
  /\ view \in views
  /\ views' = views \ {view}
  /\ UNCHANGED <<jobVars, engine, vault, challenges, step, op, event, tick, exit>>

(* Faulty variant: the view is not looked up again under the lock.         *)
RunStepUnchecked ==
  /\ step > 0 /\ op.at = "free"
  /\ step' = 0
  /\ op' = IF engine = "unlocked" THEN [NoHolder EXCEPT !.at = "stepping"] ELSE op
  /\ UNCHANGED <<jobVars, engine, vault, challenges, views, event, tick, exit>>

RunStep ==
  /\ step > 0 /\ op.at = "free"
  /\ step' = 0
  /\ op' = IF engine = "unlocked" /\ step \in views
           THEN [NoHolder EXCEPT !.at = "stepping"] ELSE op
  /\ UNCHANGED <<jobVars, engine, vault, challenges, views, event, tick, exit>>

EndStep ==
  /\ op.at = "stepping"
  /\ op' = NoHolder
  /\ vault' \in {vault, [vault EXCEPT !.ram = 0]}
  /\ UNCHANGED <<jobVars, engine, challenges, views, step, event, tick, exit>>

-----------------------------------------------------------------------------
(* The scheduler and its tick.                                             *)

Schedule ==
  /\ engine = "unlocked" /\ op.at = "free" /\ tick.at = "none" /\ ~exit
  /\ tick' = [at |-> "created", event |-> 0]
  /\ UNCHANGED <<jobVars, policy, op, event, exit>>

(* Once it holds run_lock, run_once registers itself and captures the Event. *)
StartTick ==
  /\ tick.at = "created"
  /\ tick' = [at |-> "running", event |-> event.n]
  /\ UNCHANGED <<jobVars, policy, op, event, exit>>

CallModel ==
  /\ tick.at = "running" /\ ~Doomed /\ vault.ram > 0
  /\ Request
  /\ tick' = [tick EXCEPT !.at = "calling"]
  /\ UNCHANGED <<policy, op, event, exit>>

(* request() has returned or raised.                                       *)
Return ==
  /\ tick.at = "calling" /\ caller = "none"
  /\ tick' = [tick EXCEPT !.at = "running"]
  /\ UNCHANGED <<jobVars, policy, op, event, exit>>

(* A record of the vault cannot be written.  The end of an epoch, from     *)
(* vault.update to write_manifest, awaits nothing.                         *)
TickLosesVault ==
  /\ tick.at = "running" /\ ~Doomed /\ op.at # "hinting"
  /\ vault' = [vault EXCEPT !.ram = 0]
  /\ UNCHANGED <<jobVars, engine, challenges, views, step, op, event, tick, exit>>

(* Faulty variant: the scheduler survives a tick that cannot report.       *)
EndTickForgiving ==
  /\ tick.at = "running"
  /\ tick' = NoTick
  /\ exit' = (exit \/ unconfirmed)
  /\ UNCHANGED <<jobVars, policy, op, event>>

(* The tick ends; one that cannot even write its status kills the          *)
(* scheduler, and so does a job whose cleanup was not confirmed.           *)
EndTick ==
  /\ tick.at = "running"
  /\ tick' = NoTick
  /\ exit' = (exit \/ unconfirmed \/ vault.ram = 0)
  /\ UNCHANGED <<jobVars, policy, op, event>>

-----------------------------------------------------------------------------
(* The process, its console and its jobs socket.  The supervisor starts a  *)
(* guardian that has ended again, locked.                                  *)

Restart ==
  /\ NewProcess
  /\ engine' = "locked" /\ vault' = [vault EXCEPT !.ram = 0]
  /\ challenges' = {} /\ views' = {} /\ step' = 0
  /\ op' = NoHolder /\ event' = [n |-> 0, set |-> FALSE] /\ tick' = NoTick /\ exit' = FALSE

Exit == exit /\ Restart

RepairManifest ==
  /\ vault.ram = 0
  /\ vault' = [vault EXCEPT !.hints = vault.disk]
  /\ UNCHANGED <<jobVars, engine, challenges, views, step, op, event, tick, exit>>

Jobs ==
  /\ Wait \/ Interrupt \/ Cleanup \/ Lapse \/ WorkerStep
  /\ UNCHANGED guardianVars

Init ==
  /\ JobInit
  /\ engine = "locked" /\ vault = [ram |-> 0, disk |-> 1, hints |-> 1]
  /\ challenges = {} /\ views = {} /\ step = 0
  /\ op = NoHolder /\ event = [n |-> 0, set |-> FALSE] /\ tick = NoTick /\ exit = FALSE

Ceremonies ==
  \/ \E kind \in Operations : Begin(kind)
  \/ \E c \in challenges : Lose(c) \/ Unlock(c) \/ OpenRegistration(c) \/ FinishWithoutVault(c)

Epoch ==
  \/ \E c \in challenges : StartOperation(c)
  \/ CloseFails \/ CleanupUnconfirmed \/ EndEpoch \/ EndEpochFails
  \/ WriteManifest \/ ManifestFails \/ EndOperation \/ OperationLosesVault

Steps ==
  \/ \E view \in views : AskStep(view) \/ ExpireView(view)
  \/ RunStep \/ EndStep

Tick == Schedule \/ StartTick \/ CallModel \/ Return \/ TickLosesVault \/ EndTick

Next == Ceremonies \/ Epoch \/ Steps \/ Tick \/ Jobs \/ Restart \/ RepairManifest

Idled(A) == A /\ UNCHANGED guardianVars

Fairness ==
  /\ WF_vars(Idled(Wait)) /\ WF_vars(Idled(Cleanup)) /\ WF_vars(Idled(Lapse))
  /\ WF_vars(CloseFails \/ CleanupUnconfirmed \/ EndEpoch \/ EndEpochFails)
  /\ WF_vars(WriteManifest \/ ManifestFails)
  /\ WF_vars(EndOperation \/ OperationLosesVault) /\ WF_vars(EndStep)
  /\ SF_vars(Schedule) /\ WF_vars(StartTick) /\ WF_vars(Return) /\ WF_vars(EndTick)
  /\ WF_vars(Exit)

Spec == Init /\ [][Next]_vars /\ Fairness

-----------------------------------------------------------------------------
(* Properties.                                                             *)

(* Every variable keeps its shape, those of the jobs included.             *)
TypeOK ==
  /\ JobTypeOK
  /\ engine \in {"locked", "unlocked"} /\ exit \in BOOLEAN
  /\ vault \in [ram : 0..MaxEpoch, disk : Epochs, hints : Epochs]
  /\ challenges \subseteq Challenge /\ views \subseteq Epochs /\ step \in 0..MaxEpoch
  /\ op \in Held /\ event \in [n : Nat, set : BOOLEAN]
  /\ tick \in [at : {"none", "created", "running", "calling"}, event : Nat]

(* A security epoch ends only when its work has: no tick that could still  *)
(* act, no job the worker may take or answer, and no child of this         *)
(* guardian's jobs that still holds its prompt and keys.                   *)
EpochEndsWork ==
  [][vault'.ram = vault.ram + 1 /\ vault.ram > 0 =>
       ~TickLive /\ ~Active /\ ~(ChildAlive /\ worker.job >= first)]_vars

(* A setup step runs under a view of the epoch it runs in, however long it *)
(* has waited for the lock.                                                *)
StepsAreOfTheEpoch ==
  [][RunStep /\ op'.at = "stepping" /\ vault.ram > 0 => step = vault.ram]_vars

(* An open vault is the one on the disk, whatever write has failed, and    *)
(* the browser's hints never run ahead of it.                              *)
RamIsDisk ==
  /\ vault.ram > 0 => vault.ram = vault.disk
  /\ vault.hints <= vault.disk

(* A guardian that cannot go on ends and comes back locked: one that has   *)
(* lost its vault to a failed write does not stay up and look unlocked,    *)
(* and one whose worker has not confirmed its cleanup issues no more jobs. *)
Broken == unconfirmed \/ (engine = "unlocked" /\ vault.ram = 0)
BrokenGuardianEnds == Broken ~> ~Broken

(* Every request for a digest comes back, whatever the worker does.        *)
RequestEnds == (caller # "none") ~> (caller = "none")

(* After an operation ticks work again, unless another operation or the    *)
(* end of the process comes first.                                         *)
TicksResume == (op.at = "hinting") ~> (TickLive \/ engine = "locked" \/ op.at = "closing")

(* The scheduler's comment (guardian.py:492): an administrative operation  *)
(* has cancelled the tick it found.                                        *)
NoTickDuringOperation == ~(op.at = "executing" /\ TickLive)
=============================================================================
