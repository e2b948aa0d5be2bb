------------------------------ MODULE ModelJobs ------------------------------
(***************************************************************************)
(* guardian_jobs.JobBroker, the guardian's single-slot mailbox of model    *)
(* jobs, and model_collector.run_job, the worker that polls it over a      *)
(* local socket.                                                           *)
(*                                                                         *)
(* A job is a number, fresh for every request, and so is its lease: both   *)
(* sides read the same host clocks, so a lease runs out for both at once   *)
(* (time, or a suspended host).  Any call of the worker may be lost before *)
(* or after the broker has served it.  The worker's child is the process   *)
(* that holds the prompt and the keys.                                     *)
(***************************************************************************)
EXTENDS Naturals

CONSTANT
  MaxJobs       \* bound: the number of jobs ever issued

ASSUME MaxJobsAssumption == MaxJobs \in Nat

VARIABLES
  slot,         \* JobBroker.active, id = 0 when there is none
  caller,       \* where JobBroker.request stands: "none", "waiting" or "cleaning"
  unconfirmed,  \* JobBroker.cleanup_unconfirmed
  issued,       \* number of jobs issued so far; the last job's id
  first,        \* the jobs of this guardian process are first..issued
  worker        \* where the worker stands, and the job it works on

broker == <<slot, caller, unconfirmed, issued, first>>
jobVars == <<broker, worker>>

-----------------------------------------------------------------------------
Futures == {"open", "result", "cancelled"}
Slot == [id : Nat, delivered : BOOLEAN, cancelled : BOOLEAN, lapsed : BOOLEAN,
         future : Futures, answer : Nat, reaped : BOOLEAN]
NoSlot == [id |-> 0, delivered |-> FALSE, cancelled |-> FALSE, lapsed |-> FALSE,
           future |-> "open", answer |-> 0, reaped |-> FALSE]
WorkerPlaces == {"idle", "running", "stopping", "answered", "reaping"}
Worker == [at : WorkerPlaces, job : Nat, lapsed : BOOLEAN]
Idle == [at |-> "idle", job |-> 0, lapsed |-> FALSE]

(* The child is reaped before the worker leaves these two places.          *)
ChildAlive == worker.at \in {"running", "stopping"}

Cancelled(s) ==
  [s EXCEPT !.cancelled = TRUE, !.future = IF @ = "open" THEN "cancelled" ELSE @]

(* JobBroker._active, and what it makes of a job whose lease has run out.  *)
Active == slot.id > 0 /\ ~slot.cancelled /\ ~slot.lapsed
Looked == IF slot.lapsed THEN Cancelled(slot) ELSE slot

-----------------------------------------------------------------------------
(* The guardian's side.                                                    *)

Request ==
  /\ caller = "none" /\ slot.id = 0 /\ ~unconfirmed
  /\ issued < MaxJobs
  /\ slot' = [NoSlot EXCEPT !.id = issued + 1]
  /\ issued' = issued + 1 /\ caller' = "waiting"
  /\ UNCHANGED <<unconfirmed, first, worker>>

(* One clock for both sides: a lease runs out for broker and worker at once. *)
Lapse ==
  \E job \in {slot.id, worker.job} \ {0} :
    /\ slot' = [slot EXCEPT !.lapsed = @ \/ slot.id = job]
    /\ worker' = [worker EXCEPT !.lapsed = @ \/ worker.job = job]
    /\ UNCHANGED <<caller, unconfirmed, issued, first>>

(* request() returns an answer, but only through its cleanup.              *)
TakeAnswer ==
  /\ caller = "waiting" /\ slot.future = "result"
  /\ slot' = Cancelled(slot) /\ caller' = "cleaning"
  /\ UNCHANGED <<unconfirmed, issued, first, worker>>

(* The lease has run out, or the future was cancelled.                     *)
GiveUp ==
  /\ caller = "waiting"
  /\ slot.lapsed \/ slot.future = "cancelled"
  /\ slot' = Cancelled(slot) /\ caller' = "cleaning"
  /\ UNCHANGED <<unconfirmed, issued, first, worker>>

(* The task that awaits request() is cancelled.                            *)
Interrupt ==
  /\ caller = "waiting"
  /\ slot' = Cancelled(slot) /\ caller' = "cleaning"
  /\ UNCHANGED <<unconfirmed, issued, first, worker>>

(* JobBroker.cancel                                                        *)
CancelJob ==
  /\ slot' = IF slot.id > 0 THEN Cancelled(slot) ELSE slot
  /\ UNCHANGED <<caller, unconfirmed, issued, first, worker>>

(* Faulty variant: a delivered job is not waited for.                      *)
FreeAtOnce ==
  /\ caller = "cleaning"
  /\ slot' = NoSlot /\ caller' = "none"
  /\ UNCHANGED <<unconfirmed, issued, first, worker>>

Free ==
  /\ caller = "cleaning"
  /\ slot.delivered => slot.reaped
  /\ slot' = NoSlot /\ caller' = "none"
  /\ UNCHANGED <<unconfirmed, issued, first, worker>>

(* Faulty variant: the wait for the worker has no end.                     *)
NeverUnconfirmed == FALSE /\ UNCHANGED jobVars

(* Ten seconds pass without job_reaped: the broker stops issuing jobs.     *)
CleanupTimesOut ==
  /\ caller = "cleaning" /\ slot.delivered /\ ~slot.reaped
  /\ unconfirmed' = TRUE
  /\ slot' = NoSlot /\ caller' = "none"
  /\ UNCHANGED <<issued, first, worker>>

(* The guardian process ends; the worker is a process of its own.          *)
NewProcess ==
  /\ slot' = NoSlot /\ caller' = "none" /\ unconfirmed' = FALSE
  /\ first' = issued + 1
  /\ UNCHANGED <<issued, worker>>

-----------------------------------------------------------------------------
(* The worker's calls, and its child.                                      *)

Work(place) == worker' = [worker EXCEPT !.at = place]

(* next_job                                                                *)
TakeJob ==
  /\ worker.at = "idle" /\ Active /\ ~slot.delivered
  /\ slot' = [slot EXCEPT !.delivered = TRUE]
  /\ worker' = [at |-> "running", job |-> slot.id, lapsed |-> FALSE]
  /\ UNCHANGED <<caller, unconfirmed, issued, first>>

(* The broker has delivered the job and the reply never arrives.           *)
LoseJob ==
  /\ worker.at = "idle" /\ Active /\ ~slot.delivered
  /\ slot' = [slot EXCEPT !.delivered = TRUE]
  /\ UNCHANGED <<caller, unconfirmed, issued, first, worker>>

(* A poll finds the job inactive: job_status with the worker running, or   *)
(* next_job, which has the same effect on an expired one.                  *)
Poll ==
  /\ worker.at \in {"idle", "running"}
  /\ slot' = Looked
  /\ IF worker.at = "running" /\ ~(Active /\ slot.id = worker.job)
     THEN Work("stopping") ELSE UNCHANGED worker
  /\ UNCHANGED <<caller, unconfirmed, issued, first>>

(* A lost poll stops the job like an inactive one; so does its lease.      *)
LosePoll ==
  /\ worker.at = "running"
  /\ Work("stopping")
  /\ UNCHANGED broker

ChildAnswers ==
  /\ worker.at = "running"
  /\ Work("answered")
  /\ UNCHANGED broker

ReapChild ==
  /\ worker.at = "stopping"
  /\ Work("reaping")
  /\ UNCHANGED broker

Takeable == Active /\ slot.delivered /\ slot.id = worker.job /\ slot.future = "open"

(* job_result: accepted, or refused as stale.                              *)
PostResult ==
  /\ worker.at = "answered" /\ ~worker.lapsed
  /\ slot' = IF Takeable
             THEN [slot EXCEPT !.reaped = TRUE, !.future = "result", !.answer = worker.job]
             ELSE Looked
  /\ Work("reaping")
  /\ UNCHANGED <<caller, unconfirmed, issued, first>>

(* The call is lost, or the lease has run out meanwhile.                   *)
LoseResult ==
  /\ worker.at = "answered"
  /\ Work("reaping")
  /\ UNCHANGED broker

(* job_reaped                                                              *)
PostReaped ==
  /\ worker.at = "reaping"
  /\ slot' = IF slot.id = worker.job THEN [slot EXCEPT !.reaped = TRUE] ELSE slot
  /\ worker' = Idle
  /\ UNCHANGED <<caller, unconfirmed, issued, first>>

LoseReaped ==
  /\ worker.at = "reaping"
  /\ worker' = Idle
  /\ UNCHANGED broker

(* The worker ends, and its child with it.                                 *)
WorkerCrash ==
  /\ worker.at # "idle"
  /\ worker' = Idle
  /\ UNCHANGED broker

-----------------------------------------------------------------------------
JobInit ==
  /\ slot = NoSlot /\ caller = "none" /\ unconfirmed = FALSE
  /\ issued = 0 /\ first = 1 /\ worker = Idle

Wait == TakeAnswer \/ GiveUp
Cleanup == Free \/ CleanupTimesOut

WorkerStep ==
  \/ TakeJob \/ LoseJob \/ Poll \/ LosePoll \/ ChildAnswers \/ ReapChild
  \/ PostResult \/ LoseResult \/ PostReaped \/ LoseReaped \/ WorkerCrash

JobNext ==
  \/ Request \/ Wait \/ Interrupt \/ CancelJob \/ Cleanup \/ NewProcess
  \/ Lapse \/ WorkerStep

JobSpec == JobInit /\ [][JobNext]_jobVars

-----------------------------------------------------------------------------
(* Properties.                                                             *)

(* Every variable keeps its shape.                                         *)
JobTypeOK ==
  /\ slot \in Slot /\ caller \in {"none", "waiting", "cleaning"}
  /\ unconfirmed \in BOOLEAN /\ issued \in 0..MaxJobs /\ first \in 1..(MaxJobs + 1)
  /\ worker \in Worker /\ worker.job <= issued

(* The slot is given up only when the child is gone: a child that works on *)
(* another job than the slot's belongs to an earlier guardian process, or  *)
(* the broker has latched that cleanup is not confirmed.                   *)
NoStrayChild ==
  ChildAlive /\ worker.job # slot.id => unconfirmed \/ worker.job < first

(* An acknowledged cleanup is a fact: once the broker has recorded that    *)
(* the worker reaped the child, no child of that job is left.              *)
ReapedIsGone == slot.reaped => ~(ChildAlive /\ worker.job = slot.id)

(* The answer a digest is built from was given for its own job, not by a   *)
(* worker that still finishes the job of an earlier guardian process.      *)
AnswerIsOwn == slot.future = "result" => slot.answer = slot.id /\ slot.delivered

(* One job, one worker, one answer: whatever calls are lost and whichever  *)
(* process crashes, the slot, the child and the answer belong together.    *)
JobsConfined == NoStrayChild /\ ReapedIsGone /\ AnswerIsOwn
=============================================================================
