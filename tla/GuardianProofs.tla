--------------------------- MODULE GuardianProofs ---------------------------
(***************************************************************************)
(* Proofs about ModelJobs and about Guardian, whose guardian runs the same *)
(* jobs: for any number of epochs, jobs and ceremonies.                    *)
(***************************************************************************)
EXTENDS Guardian, TLAPS

-----------------------------------------------------------------------------
(***************************************************************************)
(* ModelJobs.                                                              *)
(***************************************************************************)

(* What the broker and the worker know of each other.  NoStrayChild needs  *)
(* that a child of the slot's own job is a delivered one, and that what    *)
(* was never delivered was never acknowledged; else the slot could be      *)
(* freed at once while a child of its job lives.                           *)
JobInv ==
  /\ JobTypeOK
  /\ caller = "none" <=> slot.id = 0
  /\ slot.id = 0 => slot = NoSlot
  /\ slot.id <= issued
  /\ worker.at # "idle" => worker.job > 0
  /\ worker.job > 0 /\ worker.job = slot.id => slot.delivered
  /\ slot.reaped => slot.delivered
  /\ NoStrayChild /\ ReapedIsGone /\ AnswerIsOwn

(* Cancelling a job changes two fields of the slot.                        *)
LEMMA CancelledSlot ==
  ASSUME NEW s \in Slot
  PROVE  /\ Cancelled(s) \in Slot
         /\ Cancelled(s).id = s.id /\ Cancelled(s).delivered = s.delivered
         /\ Cancelled(s).reaped = s.reaped /\ Cancelled(s).answer = s.answer
         /\ Cancelled(s).lapsed = s.lapsed /\ Cancelled(s).cancelled
         /\ Cancelled(s).future = "result" <=> s.future = "result"
BY DEF Cancelled, Slot, Futures

LEMMA LookedSlot ==
  ASSUME JobInv
  PROVE  /\ Looked \in Slot
         /\ Looked.id = slot.id /\ Looked.delivered = slot.delivered
         /\ Looked.reaped = slot.reaped /\ Looked.answer = slot.answer
         /\ Looked.future = "result" <=> slot.future = "result"
         /\ slot.id = 0 => Looked = slot
         /\ slot.cancelled => Looked.cancelled
BY CancelledSlot DEF JobInv, JobTypeOK, Looked, NoSlot

(* What the fields are, for the arithmetic of the proofs below.            *)
LEMMA JobTypes ==
  ASSUME JobInv
  PROVE  /\ slot \in Slot /\ slot.id \in Nat /\ slot.answer \in Nat
         /\ slot.delivered \in BOOLEAN /\ slot.cancelled \in BOOLEAN
         /\ slot.reaped \in BOOLEAN /\ slot.lapsed \in BOOLEAN
         /\ worker \in Worker /\ worker.job \in Nat /\ worker.job <= issued
         /\ worker.at \in WorkerPlaces
         /\ issued \in Nat /\ first \in Nat /\ unconfirmed \in BOOLEAN
BY MaxJobsAssumption DEF JobInv, JobTypeOK, Slot, Worker

LEMMA NoSlotFields ==
  /\ NoSlot \in Slot /\ NoSlot.id = 0 /\ NoSlot.answer = 0 /\ NoSlot.future = "open"
  /\ NoSlot.delivered = FALSE /\ NoSlot.reaped = FALSE /\ NoSlot.lapsed = FALSE
BY DEF NoSlot, Slot, Futures

LEMMA IdleFields == Idle \in Worker /\ Idle.job = 0 /\ Idle.at = "idle"
BY DEF Idle, Worker, WorkerPlaces

(* No job, no child and no answer at the start.                            *)
LEMMA JobInitInv == JobInit => JobInv
<1>1. JobInit => unconfirmed \in BOOLEAN
  BY Zenon DEF JobInit
<1> QED
  BY <1>1, MaxJobsAssumption, NoSlotFields, IdleFields
  DEF JobInit, JobInv, JobTypeOK, NoStrayChild, ReapedIsGone, AnswerIsOwn, ChildAlive

(* The steps of request(), of cancel and of the guardian process.          *)
LEMMA CallerStep ==
  ASSUME JobInv,
         Request \/ TakeAnswer \/ GiveUp \/ Interrupt \/ CancelJob \/ Cleanup \/ NewProcess
  PROVE  JobInv'
<1> USE MaxJobsAssumption, JobTypes, NoSlotFields
    DEF JobInv, JobTypeOK, NoStrayChild, ReapedIsGone, AnswerIsOwn, ChildAlive
<1>1. CASE Request
  <2>1. /\ slot' \in Slot /\ slot'.id = issued + 1 /\ slot'.future = "open"
        /\ slot'.reaped = FALSE
    BY <1>1 DEF Request, Slot
  <2>2. /\ caller' = "waiting" /\ issued' = issued + 1 /\ issued < MaxJobs
        /\ slot.id = 0 /\ UNCHANGED <<unconfirmed, first, worker>>
    BY <1>1 DEF Request
  <2> QED BY <2>1, <2>2
<1>2. CASE TakeAnswer \/ GiveUp \/ Interrupt
  <2>1. /\ slot' = Cancelled(slot) /\ caller = "waiting" /\ caller' = "cleaning"
        /\ UNCHANGED <<unconfirmed, issued, first, worker>>
    BY <1>2 DEF TakeAnswer, GiveUp, Interrupt
  <2> QED BY <2>1, CancelledSlot
<1>3. CASE CancelJob
  <2>1. UNCHANGED <<caller, unconfirmed, issued, first, worker>>
    BY <1>3 DEF CancelJob
  <2>2. CASE slot' = slot
    BY <2>1, <2>2
  <2>3. CASE slot.id > 0 /\ slot' = Cancelled(slot)
    BY <2>1, <2>3, CancelledSlot
  <2> QED BY <1>3, <2>2, <2>3 DEF CancelJob
<1>4. CASE Free
  BY <1>4 DEF Free
<1>5. CASE CleanupTimesOut
  <2>1. unconfirmed' /\ unconfirmed' \in BOOLEAN
    BY Zenon, <1>5 DEF CleanupTimesOut
  <2> QED BY <1>5, <2>1 DEF CleanupTimesOut
<1>6. CASE NewProcess
  <2>1. unconfirmed' \in BOOLEAN
    BY Zenon, <1>6 DEF NewProcess
  <2> QED BY <1>6, <2>1 DEF NewProcess
<1> QED BY <1>1, <1>2, <1>3, <1>4, <1>5, <1>6 DEF Cleanup

(* The worker's calls, what becomes of its child, and time.                *)
LEMMA WorkerStepInv ==
  ASSUME JobInv, WorkerStep \/ Lapse
  PROVE  JobInv'
<1> USE MaxJobsAssumption, JobTypes, NoSlotFields, IdleFields
    DEF JobInv, JobTypeOK, NoStrayChild, ReapedIsGone, AnswerIsOwn, ChildAlive
<1>1. ASSUME NEW place \in WorkerPlaces, Work(place)
      PROVE  worker' \in Worker /\ worker'.at = place /\ worker'.job = worker.job
  BY <1>1 DEF Work, Worker
<1>2. CASE TakeJob
  <2>1. /\ slot' \in Slot /\ slot'.id = slot.id /\ slot'.delivered = TRUE
        /\ slot'.reaped = slot.reaped /\ slot'.future = slot.future
        /\ slot'.answer = slot.answer
    BY <1>2 DEF TakeJob, Slot
  <2>2. worker' \in Worker /\ worker'.at = "running" /\ worker'.job = slot.id
    BY <1>2 DEF TakeJob, Worker, WorkerPlaces
  <2>3. /\ slot.id > 0 /\ ~slot.delivered
        /\ UNCHANGED <<caller, unconfirmed, issued, first>>
    BY <1>2 DEF TakeJob, Active
  <2> QED BY <2>1, <2>2, <2>3
<1>3. CASE LoseJob
  <2>1. /\ slot' \in Slot /\ slot'.id = slot.id /\ slot'.delivered = TRUE
        /\ slot'.reaped = slot.reaped /\ slot'.future = slot.future
        /\ slot'.answer = slot.answer
    BY <1>3 DEF LoseJob, Slot
  <2>2. slot.id > 0 /\ UNCHANGED <<caller, unconfirmed, issued, first, worker>>
    BY <1>3 DEF LoseJob, Active
  <2> QED BY <2>1, <2>2
<1>4. CASE Poll
  <2>1. /\ worker' \in Worker /\ worker'.job = worker.job
        /\ \/ worker'.at = worker.at
           \/ worker.at = "running" /\ worker'.at = "stopping"
    BY <1>1, <1>4 DEF Poll, WorkerPlaces
  <2>2. slot' = Looked /\ UNCHANGED <<caller, unconfirmed, issued, first>>
    BY <1>4 DEF Poll
  <2> QED BY <2>1, <2>2, LookedSlot
<1>5. CASE LosePoll
  BY <1>1, <1>5 DEF LosePoll, broker, WorkerPlaces
<1>6. CASE ChildAnswers \/ ReapChild \/ LoseResult
  BY <1>1, <1>6 DEF ChildAnswers, ReapChild, LoseResult, broker, WorkerPlaces
<1>7. CASE PostResult
  <2>1. /\ worker' \in Worker /\ worker'.at = "reaping" /\ worker'.job = worker.job
        /\ worker.at = "answered" /\ UNCHANGED <<caller, unconfirmed, issued, first>>
    BY <1>1, <1>7 DEF PostResult, WorkerPlaces
  <2>2. CASE Takeable
    <3>1. /\ slot' \in Slot /\ slot'.id = slot.id /\ slot'.delivered = slot.delivered
          /\ slot'.answer = worker.job
      BY <1>7, <2>2 DEF PostResult, Slot, Futures
    <3>2. slot.id > 0 /\ slot.delivered /\ slot.id = worker.job
      BY <2>2 DEF Takeable, Active
    <3> QED BY <2>1, <3>1, <3>2
  <2>3. CASE ~Takeable
    <3>1. slot' = Looked
      BY <1>7, <2>3 DEF PostResult
    <3> QED BY <2>1, <3>1, LookedSlot
  <2> QED BY <2>2, <2>3
<1>8. CASE PostReaped
  <2>1. worker.at = "reaping" /\ worker' = Idle /\ UNCHANGED <<caller, unconfirmed, issued, first>>
    BY <1>8 DEF PostReaped
  <2>2. CASE slot.id = worker.job
    <3>1. /\ slot' \in Slot /\ slot'.id = slot.id /\ slot'.delivered = slot.delivered
          /\ slot'.future = slot.future /\ slot'.answer = slot.answer
      BY <1>8, <2>2 DEF PostReaped, Slot
    <3> QED BY <2>1, <2>2, <3>1
  <2>3. CASE slot.id # worker.job
    BY <1>8, <2>1, <2>3 DEF PostReaped
  <2> QED BY <2>2, <2>3
<1>9. CASE LoseReaped \/ WorkerCrash
  BY <1>9 DEF LoseReaped, WorkerCrash, broker
<1>10. CASE Lapse
  <2>1. PICK job \in {slot.id, worker.job} \ {0} :
          /\ slot' = [slot EXCEPT !.lapsed = @ \/ slot.id = job]
          /\ worker' = [worker EXCEPT !.lapsed = @ \/ worker.job = job]
          /\ UNCHANGED <<caller, unconfirmed, issued, first>>
    BY <1>10 DEF Lapse
  <2>2. /\ slot' \in Slot /\ slot'.id = slot.id /\ slot'.delivered = slot.delivered
        /\ slot'.reaped = slot.reaped /\ slot'.future = slot.future
        /\ slot'.answer = slot.answer
    BY <2>1 DEF Slot
  <2>3. slot.id = 0 => slot' = slot
    <3> SUFFICES ASSUME slot = NoSlot PROVE slot' = slot
      OBVIOUS
    <3> QED BY <2>1 DEF NoSlot
  <2>4. worker' \in Worker /\ worker'.at = worker.at /\ worker'.job = worker.job
    BY <2>1 DEF Worker
  <2> QED BY <2>1, <2>2, <2>3, <2>4
<1> QED
  BY <1>2, <1>3, <1>4, <1>5, <1>6, <1>7, <1>8, <1>9, <1>10 DEF WorkerStep

LEMMA JobStep == JobInv /\ [JobNext]_jobVars => JobInv'
<1> SUFFICES ASSUME JobInv, [JobNext]_jobVars PROVE JobInv'
  OBVIOUS
<1>1. CASE JobNext
  BY <1>1, CallerStep, WorkerStepInv DEF JobNext, Wait
<1>2. CASE UNCHANGED jobVars
  BY <1>2 DEF jobVars, broker, JobInv, JobTypeOK, NoStrayChild, ReapedIsGone, AnswerIsOwn, ChildAlive
<1> QED BY <1>1, <1>2

(* The broker and the worker keep that knowledge in every step.            *)
THEOREM JobInvariant == JobSpec => []JobInv
BY JobInitInv, JobStep, PTL DEF JobSpec

(* The broker gives a job up only when its child is gone or the latch is   *)
(* set, acknowledges what is true, and takes a job's own answer, whatever  *)
(* calls are lost and whichever process crashes.                           *)
THEOREM JobsAreConfined == JobSpec => []JobsConfined
<1>1. JobInv => JobsConfined
  BY DEF JobInv, JobsConfined
<1> QED BY <1>1, JobInvariant, PTL

-----------------------------------------------------------------------------
(***************************************************************************)
(* Guardian.                                                               *)
(***************************************************************************)

(* The jobs inside the guardian are those of ModelJobs.                    *)

LEMMA JobsStart == Init => JobInit
BY DEF Init

LEMMA JobsFollow == [Next]_vars => [JobNext]_jobVars
<1> SUFFICES ASSUME [Next]_vars PROVE [JobNext]_jobVars
  OBVIOUS
<1>1. CASE Ceremonies
  BY <1>1 DEF Ceremonies, Begin, Lose, Unlock, OpenRegistration, FinishWithoutVault
<1>2. CASE Epoch
  BY <1>2 DEF Epoch, StartOperation, CloseFails, CleanupUnconfirmed, EndEpoch, EndEpochFails,
              WriteManifest, ManifestFails, EndOperation, OperationLosesVault, JobNext
<1>3. CASE Steps
  BY <1>3 DEF Steps, AskStep, ExpireView, RunStep, EndStep
<1>4. CASE Tick
  BY <1>4 DEF Tick, Schedule, StartTick, CallModel, Return, TickLosesVault, EndTick, JobNext
<1>5. CASE Jobs \/ Restart \/ RepairManifest
  BY <1>5 DEF Jobs, Restart, RepairManifest, JobNext
<1>6. CASE UNCHANGED vars
  BY <1>6 DEF vars
<1> QED BY <1>1, <1>2, <1>3, <1>4, <1>5, <1>6 DEF Next

(* Whatever ceremonies, epochs, ticks and restarts do, they use the broker *)
(* as its own specification says.                                          *)
THEOREM GuardianUsesJobs == Spec => JobSpec
BY JobsStart, JobsFollow, PTL DEF Spec, JobSpec

(* So what holds of the jobs alone holds of them inside the guardian.      *)
THEOREM JobsStayConfined == Spec => []JobsConfined
BY GuardianUsesJobs, JobsAreConfined, PTL

(* The job's own steps issue nothing and bring no cancelled job back.      *)
LEMMA CancelledStays ==
  ASSUME JobInv, Wait \/ Interrupt \/ Cleanup \/ Lapse \/ WorkerStep
  PROVE  /\ caller = "none" => caller' = "none"
         /\ slot.id = 0 \/ slot.cancelled => slot'.id = 0 \/ slot'.cancelled
<1> USE JobTypes, NoSlotFields
<1>1. CASE Wait \/ Interrupt
  BY <1>1, CancelledSlot DEF Wait, TakeAnswer, GiveUp, Interrupt
<1>2. CASE Cleanup
  BY <1>2 DEF Cleanup, Free, CleanupTimesOut
<1>3. CASE Lapse
  BY <1>3 DEF Lapse, Slot
<1>4. CASE TakeJob \/ LoseJob
  BY <1>4 DEF TakeJob, LoseJob, Active, Slot
<1>5. CASE Poll
  BY <1>5, LookedSlot DEF Poll
<1>6. CASE PostResult
  <2>1. CASE Takeable
    BY <1>6, <2>1 DEF PostResult, Takeable, Active
  <2>2. CASE ~Takeable
    BY <1>6, <2>2, LookedSlot DEF PostResult
  <2> QED BY <2>1, <2>2
<1>7. CASE PostReaped
  BY <1>7 DEF PostReaped, Slot
<1>8. CASE LosePoll \/ ChildAnswers \/ ReapChild \/ LoseResult \/ LoseReaped \/ WorkerCrash
  BY <1>8 DEF LosePoll, ChildAnswers, ReapChild, LoseResult, LoseReaped, WorkerCrash, broker
<1> QED BY <1>1, <1>2, <1>3, <1>4, <1>5, <1>6, <1>7, <1>8 DEF WorkerStep

-----------------------------------------------------------------------------
(* What the guardian relies on when it ends an epoch.  A job is asked for  *)
(* only by the tick; a locked guardian keeps nothing; a view is of the     *)
(* epoch that is open; and while close waits, the revoked Event stays set, *)
(* so that no tick it does not wait for can ask for a job or close the     *)
(* vault, and the job it has cancelled stays cancelled.                    *)
EpochInv ==
  /\ caller # "none" => tick.at = "calling"
  /\ engine = "locked" => vault.ram = 0 /\ views = {} /\ op.at = "free"
  /\ vault.ram > 0 => views \subseteq {vault.ram}
  /\ op.at = "closing" =>
       /\ vault.ram \in 1..(MaxEpoch - 1) /\ event.set
       /\ ~op.waits => tick.at # "calling"
       /\ slot.id = 0 \/ slot.cancelled
  /\ op.at = "hinting" => vault.ram > 0 /\ views = {}

GuardianInv == TypeOK /\ JobInv /\ RamIsDisk /\ EpochInv

LEMMA InitInv == Init => GuardianInv
<1> SUFFICES ASSUME Init PROVE GuardianInv
  OBVIOUS
<1>1. JobInv
  BY JobsStart, JobInitInv
<1>2. exit \in BOOLEAN
  BY Zenon DEF Init
<1>3. op \in Held /\ op.at = "free"
  BY DEF Init, NoHolder, Held
<1>4. /\ vault \in [ram : 0..MaxEpoch, disk : Epochs, hints : Epochs]
      /\ vault.ram = 0 /\ vault.disk = 1 /\ vault.hints = 1
  BY GuardianAssumption DEF Init, Epochs
<1>5. event \in [n : Nat, set : BOOLEAN]
  BY DEF Init
<1>6. tick \in [at : {"none", "created", "running", "calling"}, event : Nat]
  BY DEF Init, NoTick
<1>7. TypeOK
  BY <1>1, <1>2, <1>3, <1>4, <1>5, <1>6, GuardianAssumption DEF Init, TypeOK, JobInv
<1> QED
  BY <1>1, <1>3, <1>4, <1>7 DEF Init, JobInit, GuardianInv, RamIsDisk, EpochInv

(* The fields of the guardian's records.                                   *)
LEMMA GuardianTypes ==
  ASSUME GuardianInv
  PROVE  /\ vault.ram \in 0..MaxEpoch /\ vault.disk \in Epochs /\ vault.hints \in Epochs
         /\ vault = [ram |-> vault.ram, disk |-> vault.disk, hints |-> vault.hints]
         /\ event.n \in Nat /\ MaxEpoch \in Nat \ {0} /\ 0 \in 0..MaxEpoch
         /\ exit \in BOOLEAN
BY GuardianAssumption DEF GuardianInv, TypeOK

LEMMA ClosedVault ==
  ASSUME vault \in [ram : 0..MaxEpoch, disk : Epochs, hints : Epochs],
         NEW disk \in Epochs, NEW hints \in Epochs
  PROVE  /\ [vault EXCEPT !.ram = 0, !.disk = disk]
              \in [ram : 0..MaxEpoch, disk : Epochs, hints : Epochs]
         /\ [vault EXCEPT !.hints = hints, !.ram = 0]
              \in [ram : 0..MaxEpoch, disk : Epochs, hints : Epochs]
<1>1. 0 \in 0..MaxEpoch
  BY GuardianAssumption
<1> QED BY <1>1

(* The ceremonies change the policy alone, and only an unlock the vault.   *)
LEMMA CeremoniesKeepInv ==
  ASSUME GuardianInv, JobInv', Ceremonies
  PROVE  GuardianInv'
<1> USE GuardianTypes DEF GuardianInv, TypeOK, RamIsDisk, EpochInv, JobInv
<1>1. ASSUME NEW kind \in Operations, Begin(kind)
      PROVE  GuardianInv'
  <2>1. challenges' \subseteq Challenge
    BY <1>1 DEF Begin, Challenge, Operations, Epochs
  <2> QED BY <1>1, <2>1 DEF Begin, jobVars, broker
<1>2. ASSUME NEW c \in challenges, Lose(c)
      PROVE  GuardianInv'
  BY <1>2 DEF Lose, jobVars, broker
<1>3. ASSUME NEW c \in challenges, Unlock(c)
      PROVE  GuardianInv'
  <2>1. vault' \in [ram : 0..MaxEpoch, disk : Epochs, hints : Epochs]
        /\ vault'.ram = vault.disk /\ vault'.disk = vault.disk /\ vault'.hints = vault.hints
    BY <1>3 DEF Unlock, Epochs
  <2>2. event' \in [n : Nat, set : BOOLEAN]
    BY <1>3 DEF Unlock
  <2> QED BY <1>3, <2>1, <2>2 DEF Unlock, jobVars, broker
<1>4. ASSUME NEW c \in challenges, OpenRegistration(c)
      PROVE  GuardianInv'
  <2>1. challenges' \subseteq Challenge
    BY <1>4 DEF OpenRegistration, Pending, Challenge, Operations
  <2> QED BY <1>4, <2>1 DEF OpenRegistration, jobVars, broker
<1>5. ASSUME NEW c \in challenges, FinishWithoutVault(c)
      PROVE  GuardianInv'
  <2>1. exit' \in BOOLEAN
    BY Zenon, <1>5 DEF FinishWithoutVault
  <2> QED BY <1>5, <2>1 DEF FinishWithoutVault, policy, jobVars, broker
<1> QED BY <1>1, <1>2, <1>3, <1>4, <1>5 DEF Ceremonies

(* While an operation holds the lock, its vault is open from close to the  *)
(* end of the epoch, and a new epoch starts without views.                 *)
LEMMA EpochKeepsInv ==
  ASSUME GuardianInv, JobInv', Epoch
  PROVE  GuardianInv'
<1> USE GuardianTypes DEF GuardianInv, TypeOK, RamIsDisk, EpochInv, JobInv
<1>1. NoHolder \in Held /\ NoHolder.at = "free"
  BY DEF NoHolder, Held
<1>2. ASSUME NEW c \in challenges, StartOperation(c)
      PROVE  GuardianInv'
  <2>1. op' \in Held /\ op'.at = "closing" /\ (op'.waits <=> TickRegistered)
    <3>1. op' = [at |-> "closing", kind |-> c.op, waits |-> TickRegistered]
      BY <1>2 DEF StartOperation
    <3>2. c.op \in Operations /\ TickRegistered \in BOOLEAN
      BY <1>2 DEF TickRegistered, Challenge
    <3> QED BY <3>1, <3>2 DEF Held
  <2>2. event' \in [n : Nat, set : BOOLEAN] /\ event'.set
    BY <1>2 DEF StartOperation
  <2>3. vault.ram \in 1..(MaxEpoch - 1)
    BY <1>2 DEF StartOperation, Challenge, Epochs
  <2>4. slot'.id = 0 \/ slot'.cancelled
    BY <1>2, JobTypes, CancelledSlot DEF StartOperation, CancelJob
  <2>5. caller' = caller
    BY <1>2 DEF StartOperation, CancelJob
  <2>6. ~op'.waits => tick.at # "calling"
    BY <2>1 DEF TickRegistered
  <2> QED BY <1>2, <2>1, <2>2, <2>3, <2>4, <2>5, <2>6 DEF StartOperation
<1>3. CASE CloseFails
  BY <1>1, <1>3 DEF CloseFails, Closed, policy, jobVars, broker
<1>4. CASE CleanupUnconfirmed
  <2>1. exit' \in BOOLEAN
    BY Zenon, <1>4 DEF CleanupUnconfirmed
  <2> QED BY <1>1, <1>4, <2>1 DEF CleanupUnconfirmed, Closed, policy, jobVars, broker
<1>5. CASE EndEpoch
  <2>1. /\ vault' \in [ram : 0..MaxEpoch, disk : Epochs, hints : Epochs]
        /\ vault'.ram = vault.ram + 1 /\ vault'.disk = vault.ram + 1
        /\ vault'.hints = vault.hints
    <3>1. vault' = [vault EXCEPT !.ram = vault.ram + 1, !.disk = vault.ram + 1]
      BY <1>5 DEF EndEpoch
    <3>2. vault.ram + 1 \in Epochs /\ vault.ram + 1 \in 0..MaxEpoch
      BY <1>5 DEF EndEpoch, Closed, Epochs
    <3> QED BY <3>1, <3>2
  <2>2. op' \in Held /\ op'.at = "hinting"
    BY <1>5 DEF EndEpoch, Held
  <2>3. event' \in [n : Nat, set : BOOLEAN]
    BY <1>5 DEF EndEpoch, FreshEpoch
  <2>4. vault.ram > 0 /\ engine # "locked"
    BY <1>5 DEF EndEpoch, Closed
  <2> QED BY <1>5, <2>1, <2>2, <2>3, <2>4 DEF EndEpoch, FreshEpoch, jobVars, broker, Epochs
<1>6. CASE EndEpochFails
  <2>1. exit' \in BOOLEAN
    BY Zenon, <1>6 DEF EndEpochFails
  <2>2. PICK disk \in {vault.disk, vault.ram + 1} :
          vault' = [vault EXCEPT !.ram = 0, !.disk = disk]
    BY <1>6 DEF EndEpochFails
  <2>3. disk \in Epochs /\ vault.disk <= disk
    BY <1>6 DEF EndEpochFails, Closed, Epochs
  <2>4. /\ vault' \in [ram : 0..MaxEpoch, disk : Epochs, hints : Epochs]
        /\ vault'.ram = 0 /\ vault'.disk = disk /\ vault'.hints = vault.hints
    BY <2>2, <2>3, ClosedVault DEF Epochs
  <2>5. event' \in [n : Nat, set : BOOLEAN]
    BY <1>6 DEF EndEpochFails, FreshEpoch
  <2>6. engine # "locked"
    BY <1>6 DEF EndEpochFails, Closed
  <2> QED
    BY <1>1, <1>6, <2>1, <2>3, <2>4, <2>5, <2>6
    DEF EndEpochFails, FreshEpoch, jobVars, broker, Epochs
<1>7. CASE WriteManifest
  <2>1. CASE op.kind = "lock"
    <3>1. exit' \in BOOLEAN
      BY Zenon, <1>7, <2>1 DEF WriteManifest
    <3>2. vault' = [vault EXCEPT !.hints = vault.ram, !.ram = 0]
      BY <1>7, <2>1 DEF WriteManifest
    <3>3. vault.ram = vault.disk
      BY <1>7 DEF WriteManifest
    <3>4. /\ vault' \in [ram : 0..MaxEpoch, disk : Epochs, hints : Epochs]
          /\ vault'.ram = 0 /\ vault'.disk = vault.disk /\ vault'.hints = vault.disk
      BY <3>2, <3>3, ClosedVault DEF Epochs
    <3> QED BY <1>1, <1>7, <2>1, <3>1, <3>4 DEF WriteManifest, jobVars, broker, Epochs
  <2>2. CASE op.kind # "lock"
    <3>1. op' \in Held /\ op'.at = "executing"
      BY <1>7, <2>2 DEF WriteManifest, Held
    <3>2. /\ vault' \in [ram : 0..MaxEpoch, disk : Epochs, hints : Epochs]
          /\ vault'.ram = vault.ram /\ vault'.disk = vault.disk /\ vault'.hints = vault.disk
      BY <1>7, <2>2 DEF WriteManifest, Epochs
    <3> QED BY <1>7, <2>2, <3>1, <3>2 DEF WriteManifest, jobVars, broker, Epochs
  <2> QED BY <2>1, <2>2
<1>8. CASE ManifestFails
  BY <1>1, <1>8 DEF ManifestFails, policy, jobVars, broker
<1>9. CASE EndOperation
  BY <1>1, <1>9 DEF EndOperation, jobVars, broker, Epochs
<1>10. CASE OperationLosesVault
  <2>1. exit' \in BOOLEAN
    BY Zenon, <1>10 DEF OperationLosesVault
  <2>2. vault' = [vault EXCEPT !.ram = 0]
    BY <1>10 DEF OperationLosesVault
  <2>3. /\ vault' \in [ram : 0..MaxEpoch, disk : Epochs, hints : Epochs]
        /\ vault'.ram = 0 /\ vault'.disk = vault.disk /\ vault'.hints = vault.hints
    BY <2>2
  <2> QED BY <1>1, <1>10, <2>1, <2>3 DEF OperationLosesVault, jobVars, broker
<1> QED
  BY <1>2, <1>3, <1>4, <1>5, <1>6, <1>7, <1>8, <1>9, <1>10 DEF Epoch

(* A step that was kept waiting runs only under a view of this epoch.      *)
LEMMA StepsKeepInv ==
  ASSUME GuardianInv, JobInv', Steps
  PROVE  GuardianInv'
<1> USE GuardianTypes DEF GuardianInv, TypeOK, RamIsDisk, EpochInv, JobInv
<1>1. NoHolder \in Held /\ NoHolder.at = "free"
  BY DEF NoHolder, Held
<1>2. ASSUME NEW view \in views, AskStep(view)
      PROVE  GuardianInv'
  BY <1>2 DEF AskStep, jobVars, broker, Epochs
<1>3. ASSUME NEW view \in views, ExpireView(view)
      PROVE  GuardianInv'
  BY <1>3 DEF ExpireView, jobVars, broker
<1>4. CASE RunStep
  <2>1. op' \in Held /\ (op' = op \/ (op'.at = "stepping" /\ engine = "unlocked"))
    BY <1>1, <1>4 DEF RunStep, NoHolder, Held
  <2> QED BY <1>4, <2>1 DEF RunStep, jobVars, broker
<1>5. CASE EndStep
  <2>1. vault' = vault \/ vault' = [vault EXCEPT !.ram = 0]
    BY <1>5 DEF EndStep
  <2>2. /\ vault' \in [ram : 0..MaxEpoch, disk : Epochs, hints : Epochs]
        /\ vault'.ram \in {0, vault.ram}
        /\ vault'.disk = vault.disk /\ vault'.hints = vault.hints
    BY <2>1
  <2> QED BY <1>1, <1>5, <2>2 DEF EndStep, jobVars, broker
<1> QED BY <1>2, <1>3, <1>4, <1>5 DEF Steps

(* The tick asks for a job only while it is not doomed, and closes the     *)
(* vault only then: never behind an operation that waits in close.         *)
LEMMA TickKeepsInv ==
  ASSUME GuardianInv, JobInv', Tick
  PROVE  GuardianInv'
<1> USE GuardianTypes DEF GuardianInv, TypeOK, RamIsDisk, EpochInv, JobInv
<1> DEFINE Ticks == [at : {"none", "created", "running", "calling"}, event : Nat]
<1>1. CASE Schedule
  <2>1. tick' \in Ticks /\ tick'.at = "created"
    BY <1>1 DEF Schedule
  <2> QED BY <1>1, <2>1 DEF Schedule, policy, jobVars, broker
<1>2. CASE StartTick
  <2>1. tick' \in Ticks /\ tick'.at = "running" /\ tick.at = "created"
    BY <1>2 DEF StartTick
  <2> QED BY <1>2, <2>1 DEF StartTick, policy, jobVars, broker
<1>3. CASE CallModel
  <2>1. tick' \in Ticks /\ tick'.at = "calling"
    BY <1>3 DEF CallModel
  <2>2. ~event.set
    BY <1>3 DEF CallModel, Doomed
  <2> QED BY <1>3, <2>1, <2>2 DEF CallModel, policy
<1>4. CASE Return
  <2>1. tick' \in Ticks /\ tick'.at = "running" /\ caller = "none"
    BY <1>4 DEF Return
  <2> QED BY <1>4, <2>1 DEF Return, policy, jobVars, broker
<1>5. CASE TickLosesVault
  <2>1. vault' = [vault EXCEPT !.ram = 0]
    BY <1>5 DEF TickLosesVault
  <2>2. /\ vault' \in [ram : 0..MaxEpoch, disk : Epochs, hints : Epochs]
        /\ vault'.ram = 0 /\ vault'.disk = vault.disk /\ vault'.hints = vault.hints
    BY <2>1
  <2>3. ~event.set /\ op.at # "hinting"
    BY <1>5 DEF TickLosesVault, Doomed
  <2> QED BY <1>5, <2>2, <2>3 DEF TickLosesVault, jobVars, broker
<1>6. CASE EndTick
  <2>1. tick' \in Ticks /\ tick'.at = "none" /\ tick.at = "running"
    BY <1>6 DEF EndTick, NoTick
  <2>2. exit' \in BOOLEAN
    BY Zenon, <1>6 DEF EndTick
  <2> QED BY <1>6, <2>1, <2>2 DEF EndTick, policy, jobVars, broker
<1> QED BY <1>1, <1>2, <1>3, <1>4, <1>5, <1>6 DEF Tick

(* The jobs' own steps, a new process and the repaired manifest.           *)
LEMMA OthersKeepInv ==
  ASSUME GuardianInv, JobInv', Jobs \/ Restart \/ RepairManifest
  PROVE  GuardianInv'
<1> USE GuardianTypes DEF GuardianInv, TypeOK, RamIsDisk, EpochInv, JobInv
<1>1. CASE Jobs
  <2>1. UNCHANGED guardianVars
    BY <1>1 DEF Jobs
  <2>2. /\ caller = "none" => caller' = "none"
        /\ slot.id = 0 \/ slot.cancelled => slot'.id = 0 \/ slot'.cancelled
    BY <1>1, CancelledStays DEF Jobs
  <2> QED BY <2>1, <2>2 DEF guardianVars, policy
<1>2. CASE Restart
  <2>1. op' \in Held /\ op'.at = "free"
    BY <1>2 DEF Restart, NoHolder, Held
  <2>2. exit' \in BOOLEAN
    BY Zenon, <1>2 DEF Restart
  <2>3. vault' = [vault EXCEPT !.ram = 0]
    BY <1>2 DEF Restart
  <2>4. /\ vault' \in [ram : 0..MaxEpoch, disk : Epochs, hints : Epochs]
        /\ vault'.ram = 0 /\ vault'.disk = vault.disk /\ vault'.hints = vault.hints
    BY <2>3
  <2>5. event' \in [n : Nat, set : BOOLEAN]
    BY <1>2 DEF Restart
  <2>6. tick' \in [at : {"none", "created", "running", "calling"}, event : Nat]
    BY <1>2 DEF Restart, NoTick
  <2>7. caller' = "none"
    BY <1>2 DEF Restart, NewProcess
  <2> QED BY <1>2, <2>1, <2>2, <2>4, <2>5, <2>6, <2>7 DEF Restart
<1>3. CASE RepairManifest
  <2>1. vault' = [vault EXCEPT !.hints = vault.disk]
    BY <1>3 DEF RepairManifest
  <2>2. /\ vault' \in [ram : 0..MaxEpoch, disk : Epochs, hints : Epochs]
        /\ vault'.ram = vault.ram /\ vault'.disk = vault.disk /\ vault'.hints = vault.disk
    BY <2>1
  <2> QED BY <1>3, <2>2 DEF RepairManifest, jobVars, broker, Epochs
<1> QED BY <1>1, <1>2, <1>3

-----------------------------------------------------------------------------
(* The invariant, and what follows from it.                                *)

LEMMA GuardianStep == GuardianInv /\ [Next]_vars => GuardianInv'
<1> SUFFICES ASSUME GuardianInv, [Next]_vars PROVE GuardianInv'
  OBVIOUS
<1>1. JobInv'
  BY JobsFollow, JobStep DEF GuardianInv
<1>2. CASE UNCHANGED vars
  BY <1>1, <1>2
  DEF GuardianInv, TypeOK, JobInv, RamIsDisk, EpochInv, vars, guardianVars, policy, jobVars, broker
<1> QED
  BY <1>1, <1>2, CeremoniesKeepInv, EpochKeepsInv, StepsKeepInv, TickKeepsInv, OthersKeepInv
  DEF Next

THEOREM GuardianInvariant == Spec => []GuardianInv
BY InitInv, GuardianStep, PTL DEF Spec

(* Every variable keeps its shape.                                         *)
THEOREM GuardianTypesHold == Spec => []TypeOK
<1>1. GuardianInv => TypeOK
  BY DEF GuardianInv
<1> QED BY <1>1, GuardianInvariant, PTL

(* An open vault is the one on the disk after every failed write, and the  *)
(* hints do not run ahead of it.                                           *)
THEOREM VaultIsOnDisk == Spec => []RamIsDisk
<1>1. GuardianInv => RamIsDisk
  BY DEF GuardianInv
<1> QED BY <1>1, GuardianInvariant, PTL

(* An open vault's epoch moves on by the end of an epoch and nothing else. *)
LEMMA OnlyEndEpoch ==
  ASSUME GuardianInv, [Next]_vars, vault'.ram = vault.ram + 1, vault.ram > 0
  PROVE  EndEpoch
<1> USE GuardianTypes DEF GuardianInv
<1>1. vault'.ram # vault.ram /\ vault'.ram # 0
  OBVIOUS
<1>2. ~(Jobs \/ UNCHANGED vars)
  BY <1>1 DEF Jobs, vars, guardianVars, policy
<1>3. ~(Restart \/ RepairManifest)
  BY <1>1 DEF Restart, RepairManifest, TypeOK
<1>4. ~Tick
  BY <1>1
  DEF Tick, Schedule, StartTick, CallModel, Return, TickLosesVault, EndTick, policy, TypeOK
<1>5. ~Steps
  BY <1>1 DEF Steps, AskStep, ExpireView, RunStep, EndStep, TypeOK
<1>6. ~Ceremonies
  BY <1>1 DEF Ceremonies, Begin, Lose, Unlock, OpenRegistration, FinishWithoutVault, policy, EpochInv
<1>7. CASE Epoch
  BY <1>1, <1>7
  DEF Epoch, StartOperation, CloseFails, CleanupUnconfirmed, EndEpochFails, WriteManifest,
      ManifestFails, EndOperation, OperationLosesVault, policy, TypeOK
<1> QED BY <1>2, <1>3, <1>4, <1>5, <1>6, <1>7 DEF Next

(* An operation that ends an epoch has waited for the tick it found, has   *)
(* doomed the one it did not find, and goes on only when the job of either *)
(* is freed and its child gone.                                            *)
THEOREM EpochsEndWork == Spec => EpochEndsWork
<1> DEFINE Ended == vault'.ram = vault.ram + 1 /\ vault.ram > 0 =>
                      ~TickLive /\ ~Active /\ ~(ChildAlive /\ worker.job >= first)
<1>1. ASSUME GuardianInv, [Next]_vars
      PROVE  Ended
  <2> SUFFICES ASSUME vault'.ram = vault.ram + 1, vault.ram > 0
               PROVE  ~TickLive /\ ~Active /\ ~(ChildAlive /\ worker.job >= first)
    OBVIOUS
  <2>1. EndEpoch
    BY <1>1, OnlyEndEpoch
  <2>2. ~TickLive
    BY <1>1, <2>1 DEF EndEpoch, Closed, TickLive, Doomed, GuardianInv, EpochInv
  <2>3. caller = "none"
    BY <1>1, <2>1 DEF EndEpoch, Closed, GuardianInv, EpochInv
  <2>4. slot.id = 0
    BY <1>1, <2>3 DEF GuardianInv, JobInv
  <2>5. ~Active
    BY <2>4 DEF Active
  <2>6. ~(ChildAlive /\ worker.job >= first)
    BY <1>1, <2>1, <2>4, JobTypes
    DEF EndEpoch, GuardianInv, JobInv, NoStrayChild, ChildAlive
  <2> QED BY <2>2, <2>5, <2>6
<1>2. GuardianInv /\ [Next]_vars => [Ended]_vars
  BY <1>1
<1> HIDE DEF Ended
<1>3. Spec => [][Ended]_vars
  BY <1>2, GuardianInvariant, PTL DEF Spec
<1> QED BY <1>3 DEF EpochEndsWork, Ended

(* The view of a step is looked up again under the lock, and an open epoch *)
(* keeps no view of an earlier one.                                        *)
THEOREM StepsKeepEpoch == Spec => StepsAreOfTheEpoch
<1> DEFINE InEpoch == RunStep /\ op'.at = "stepping" /\ vault.ram > 0 => step = vault.ram
<1>1. ASSUME GuardianInv, RunStep, op'.at = "stepping", vault.ram > 0
      PROVE  step = vault.ram
  <2>1. step \in views
    BY <1>1 DEF RunStep
  <2> QED BY <1>1, <2>1 DEF GuardianInv, EpochInv
<1>2. GuardianInv /\ [Next]_vars => [InEpoch]_vars
  BY <1>1
<1> HIDE DEF InEpoch
<1>3. Spec => [][InEpoch]_vars
  BY <1>2, GuardianInvariant, PTL DEF Spec
<1> QED BY <1>3 DEF StepsAreOfTheEpoch, InEpoch
=============================================================================
