----------------------------- MODULE ModelGrant -----------------------------
(***************************************************************************)
(* What one issue of the digest may ask of the models, and when: the       *)
(* receiver's gate and the owner's consent give a grant of some length,    *)
(* guardian_jobs.RemoteDigest cuts a job's lease from it, and the worker   *)
(* looks at the lease before every step that brings the prompt nearer to   *)
(* the provider.  After a refusal the fallback model is asked, once, and   *)
(* only after the checks of before_fallback.                               *)
(*                                                                         *)
(* The host may be suspended: the monotonic clock stands still then and    *)
(* the boot clock goes on.  Time is counted from the gate.  The mailbox    *)
(* between guardian and worker is module ModelJobs; here a job is taken    *)
(* once and its answer arrives once or never.                              *)
(***************************************************************************)
EXTENDS Naturals, Sequences

CONSTANTS
  MaxLeft,     \* bound: what the gate and the consent leave
  Budget,      \* the longest lease of a job
  Drift,       \* the gap between the clocks that is let pass
  MaxNap       \* bound: time asleep

ASSUME ModelGrantAssumption ==
  /\ MaxLeft \in Nat \ {0} /\ Budget \in Nat \ {0} /\ Drift \in Nat /\ MaxNap \in Nat

VARIABLES
  grant,    \* what the gate left, and the time awake and asleep since
  ask,      \* RemoteDigest: its place, the model it asks, the model of the settings
  jobLease, \* the job's deadline on the monotonic clock, and is it still active
  helper,   \* the worker's place with the job
  reply,    \* the answer of the model, or none
  sent,     \* observability: the prompts that left, each with its model and answer
  ended     \* the epoch has ended: revoked is set and the job cancelled

grantVars == <<grant, ask, jobLease, helper, reply, sent, ended>>

-----------------------------------------------------------------------------
Models == {"primary", "fallback"}
Answers == {"digest", "quiet", "empty_in_prose", "refused", "failed"}
NoAsk == [at |-> "idle", model |-> "primary", chosen |-> "primary"]
NoLease == [expires |-> 0, active |-> FALSE]
Asking == ask.at = "waiting"
Lesser(a, b) == IF a < b THEN a ELSE b

Real == grant.awake + grant.asleep
SuspendSeen == grant.asleep > Drift

(* model_seconds_left and before_fallback count on the monotonic clock and *)
(* refuse when they see a suspend; remaining_lease counts on both clocks.  *)
SecondsLeft == IF SuspendSeen \/ grant.awake >= grant.left THEN 0 ELSE grant.left - grant.awake
LeaseAlive == ~SuspendSeen /\ Real < jobLease.expires

OverWith(place) == ask' = [ask EXCEPT !.at = place]

-----------------------------------------------------------------------------
(* A fresh gate, inside the receiver's window and the consent.             *)
TakeGrant(left, model) ==
  /\ ask.at \in {"idle", "done", "over"} /\ helper = "idle" /\ ~ended
  /\ grant' = [left |-> left, awake |-> 0, asleep |-> 0]
  /\ ask' = [at |-> "collecting", model |-> model, chosen |-> model]
  /\ jobLease' = NoLease /\ reply' = "none" /\ sent' = <<>>
  /\ UNCHANGED <<helper, ended>>

(* attempt: no job without time left.                                      *)
AskModel ==
  /\ ask.at \in {"collecting", "granted"}
  /\ IF ended \/ SecondsLeft = 0
     THEN OverWith("over") /\ UNCHANGED <<jobLease, helper>>
     ELSE /\ OverWith("waiting") /\ helper' = "mailbox"
          /\ jobLease' = [expires |-> grant.awake + Lesser(Budget, SecondsLeft), active |-> TRUE]
  /\ reply' = "none"
  /\ UNCHANGED <<grant, sent, ended>>

(* next_job, then the tunnel, the worker and the connection, each behind   *)
(* a look at the lease; the last look comes right before the bytes.        *)
HelperSteps ==
  \/ helper = "mailbox" /\ jobLease.active /\ helper' = "tunnel"
  \/ helper = "tunnel" /\ helper' = "connecting"
HelperAdvances ==
  /\ LeaseAlive /\ HelperSteps
  /\ UNCHANGED <<grant, ask, jobLease, reply, sent, ended>>

(* Faulty variant: the last look at the lease, right before the bytes, is  *)
(* missing.                                                                *)
SendPromptUnchecked ==
  /\ helper = "connecting"
  /\ helper' = "sent" /\ sent' = Append(sent, [model |-> ask.model, answer |-> "none"])
  /\ UNCHANGED <<grant, ask, jobLease, reply, ended>>

SendPrompt ==
  /\ helper = "connecting" /\ LeaseAlive
  /\ helper' = "sent" /\ sent' = Append(sent, [model |-> ask.model, answer |-> "none"])
  /\ UNCHANGED <<grant, ask, jobLease, reply, ended>>

(* The answer comes back through job_result, behind one more look.         *)
ReplyArrives ==
  /\ helper = "sent" /\ LeaseAlive /\ jobLease.active /\ Asking
  /\ helper' = "idle" /\ reply' \in Answers
  /\ sent' = [sent EXCEPT ![Len(sent)].answer = reply']
  /\ UNCHANGED <<grant, ask, jobLease, ended>>

(* A failed step, or the guard that sees the job inactive or its lease out.*)
HelperStops ==
  /\ helper # "idle" /\ helper' = "idle"
  /\ reply' \in {reply} \cup IF LeaseAlive /\ jobLease.active /\ Asking THEN {"failed"} ELSE {}
  /\ UNCHANGED <<grant, ask, jobLease, sent, ended>>

-----------------------------------------------------------------------------
(* request and the rest of attempt.                                        *)

LeaseRunsOut ==
  /\ Asking /\ reply = "none" /\ ~LeaseAlive
  /\ OverWith("over") /\ jobLease' = [jobLease EXCEPT !.active = FALSE]
  /\ UNCHANGED <<grant, helper, reply, sent, ended>>

MayFallBack == reply = "refused" /\ ask.model # "fallback"
TakeReply ==
  /\ Asking /\ reply # "none" /\ jobLease' = [jobLease EXCEPT !.active = FALSE]
  /\ OverWith(IF ended \/ SecondsLeft = 0 THEN "over"
              ELSE IF reply \in {"digest", "quiet"} THEN "done"
              ELSE IF MayFallBack THEN "refused" ELSE "over")
  /\ UNCHANGED <<grant, helper, reply, sent, ended>>

BeforeFallback ==
  /\ ask.at = "refused"
  /\ ask' = IF ended \/ SecondsLeft = 0 THEN [ask EXCEPT !.at = "over"]
            ELSE [ask EXCEPT !.at = "granted", !.model = "fallback"]
  /\ UNCHANGED <<grant, jobLease, helper, reply, sent, ended>>

-----------------------------------------------------------------------------
(* Guardian._end_epoch: revoked, the job cancelled, the tick gone; the     *)
(* next epoch begins when the worker has let go.                           *)
GrantEpochEnds ==
  /\ ~ended /\ ended' = TRUE /\ jobLease' = [jobLease EXCEPT !.active = FALSE]
  /\ \/ ask.at # "idle" /\ OverWith("over")
     \/ Asking /\ reply # "none" /\ UNCHANGED ask   \* the answer is being taken
  /\ UNCHANGED <<grant, helper, reply, sent>>
GrantEpochBegins ==
  /\ ended /\ helper = "idle" /\ ~Asking /\ ended' = FALSE
  /\ UNCHANGED <<grant, ask, jobLease, helper, reply, sent>>

TimePasses ==
  /\ grant.awake < MaxLeft /\ grant' = [grant EXCEPT !.awake = @ + 1]
  /\ UNCHANGED <<ask, jobLease, helper, reply, sent, ended>>
HostSleeps ==
  /\ grant.asleep < MaxNap /\ grant' = [grant EXCEPT !.asleep = @ + 1]
  /\ UNCHANGED <<ask, jobLease, helper, reply, sent, ended>>

-----------------------------------------------------------------------------
GrantInit ==
  /\ grant = [left |-> 0, awake |-> 0, asleep |-> 0] /\ ask = NoAsk /\ jobLease = NoLease
  /\ helper = "idle" /\ reply = "none" /\ sent = <<>> /\ ended = FALSE

GrantNext ==
  \/ \E left \in 1..MaxLeft, model \in Models : TakeGrant(left, model)
  \/ AskModel \/ HelperAdvances \/ SendPrompt \/ ReplyArrives \/ HelperStops
  \/ LeaseRunsOut \/ TakeReply \/ BeforeFallback \/ GrantEpochEnds \/ GrantEpochBegins
  \/ TimePasses \/ HostSleeps
GrantSpec == GrantInit /\ [][GrantNext]_grantVars

-----------------------------------------------------------------------------
GrantTypeOK ==
  /\ grant \in [left : 0..MaxLeft, awake : 0..MaxLeft, asleep : 0..MaxNap]
  /\ ask \in [at : {"idle", "collecting", "granted", "waiting", "refused", "done", "over"},
              model : Models, chosen : Models]
  /\ jobLease \in [expires : Nat, active : BOOLEAN]
  /\ helper \in {"idle", "mailbox", "tunnel", "connecting", "sent"}
  /\ reply \in Answers \cup {"none"}
  /\ \A i \in 1..Len(sent) : sent[i] \in [model : Models, answer : Answers \cup {"none"}]
  /\ ended \in BOOLEAN

(* No prompt leaves when what the gate and the consent left is over,       *)
(* asleep or awake; at most two leave, the second only to the fallback     *)
(* after another model refused; and an issue is made of an answer that is  *)
(* taken in time (but for the gap between the clocks that is let pass) and *)
(* in its own epoch, never of an empty skeleton inside prose.              *)
PromptsAreGranted ==
  [][ /\ Len(sent') > Len(sent) =>
           /\ Real < grant.left
           /\ sent # <<>> => /\ Len(sent) = 1 /\ sent[1] = [model |-> "primary", answer |-> "refused"]
                            /\ ask.model = "fallback"
      /\ ask'.at = "done" /\ ask.at # "done" =>
           Real < grant.left + Drift /\ ~ended /\ reply \in {"digest", "quiet"}
    ]_grantVars
=============================================================================
