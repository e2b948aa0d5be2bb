------------------------------ MODULE Children ------------------------------
(***************************************************************************)
(* The supervised child processes: the Telegram probe, the subscription    *)
(* fetch, the ssh exchange with the receiver, ssh-keygen, the model        *)
(* worker, the Mihomo supervisor and the OpenRouter tunnel.                *)
(*                                                                         *)
(* All of them follow one protocol: an exchange with the child raced       *)
(* against a deadline, the revoked event and the caller's cancellation;    *)
(* then TERM, a grace period, KILL and reap in a shielded task, so that    *)
(* repeated cancellation of the caller cannot strand the child.  They      *)
(* differ in what they watch and in what they check afterwards.  One child *)
(* at a time: supervisors of different children share no state.            *)
(***************************************************************************)
EXTENDS Naturals, FiniteSets

CONSTANT MaxCancels   \* bound: cancellations of the caller of one call

ASSUME ChildrenAssumption == MaxCancels \in Nat

VARIABLES
  call,       \* the supervisor's place, what it waits for and what it will report
  process,    \* none, running, exited (a zombie) or reaped
  exchange,   \* the task that talks to the child
  secrets,    \* secret_files or the runtime directory of this child exist
  revoked,    \* the epoch's event
  cancels     \* cancellations delivered to the caller

childVars == <<call, process, exchange, secrets, revoked, cancels>>

-----------------------------------------------------------------------------
Exchanges == {"probe", "fetch", "ssh", "keygen", "attempt", "model_job"}
Servers == {"mihomo", "tunnel"}
Kinds == Exchanges \cup Servers

Watches(kind) == kind \in {"probe", "ssh", "attempt"}       \* waits for revoked, too
Guarded(kind) == kind \in {"ssh", "mihomo", "tunnel"}       \* verify_native_child
WithSecrets(kind) == kind \in {"ssh", "model_job", "mihomo", "tunnel"}
CodeIsAnError(kind) == kind \notin {"keygen", "ssh"}         \* judged before the cleanup

NoCall == [kind |-> "none", at |-> "idle", report |-> "none", heard |-> FALSE, deaf |-> FALSE]

Waiting == call.at = "waiting"
Cleaning == call.at \in {"term", "kill", "drain"}
Serving == call.at = "serving"
Go(place) == call' = [call EXCEPT !.at = place]
Fails(report) == call' = [call EXCEPT !.at = "term", !.report = report]
Same == UNCHANGED <<secrets, revoked, cancels>>

-----------------------------------------------------------------------------
BeginCall(kind) ==
  /\ call = NoCall
  /\ Watches(kind) => ~revoked
  /\ call' = [NoCall EXCEPT !.kind = kind, !.at = IF Guarded(kind) THEN "checking" ELSE "waiting",
                             !.deaf = kind = "model_job"]
  /\ process' = "running" /\ exchange' = IF kind \in Exchanges THEN "running" ELSE "none"
  /\ secrets' = WithSecrets(kind)
  /\ UNCHANGED <<revoked, cancels>>

(* verify_native_child.  ssh_transport drops the answer of the cleanup on  *)
(* this path, and fetch_job on every path: there a cancellation during the *)
(* cleanup is not reported (deaf).                                         *)
CheckChild ==
  /\ call.at = "checking" /\ Same /\ UNCHANGED <<process, exchange>>
  /\ \/ Go("waiting")
     \/ call' = [call EXCEPT !.at = "term", !.report = "error", !.deaf = call.kind = "ssh"]

-----------------------------------------------------------------------------
(* The child and the exchange, while anybody waits for them.               *)

ChildExits ==
  /\ process = "running" /\ process' = "exited"
  /\ UNCHANGED <<call, exchange>> /\ Same

ExchangeEnds ==
  /\ exchange = "running"
  /\ \/ exchange' = "failed" /\ UNCHANGED process       \* oversized, or a broken pipe
     \/ /\ process = "exited" /\ process' = "reaped"      \* EOF, then process.wait()
        /\ exchange' \in {"answered", "bad_code"}
  /\ UNCHANGED call /\ Same

Reported == IF exchange = "bad_code" /\ CodeIsAnError(call.kind) THEN "error" ELSE "value"

(* asyncio.wait or wait_for wakes with the exchange.  Revocation that      *)
(* lands after it took its snapshot is seen by the probe at once and by    *)
(* ssh after its finally.                                                  *)
TakeAnswer ==
  /\ Waiting /\ exchange \in {"answered", "bad_code", "failed"}
  /\ IF call.kind = "probe" /\ revoked THEN Fails("cancelled")
     ELSE IF exchange = "failed" \/ Reported = "error" THEN Fails("error")
     ELSE call' = [call EXCEPT !.at = "leaving", !.report = "value"]
  /\ Same /\ UNCHANGED <<process, exchange>>

NoticeRevoked ==
  /\ Waiting /\ Watches(call.kind) /\ revoked
  /\ Fails("cancelled") /\ Same /\ UNCHANGED <<process, exchange>>

Deadline ==
  /\ Waiting /\ exchange \in {"running", "none"}
  /\ Fails("error") /\ Same /\ UNCHANGED <<process, exchange>>

(* A server's _wait_until_ready, and ensure_alive or a stop later on.      *)
BecomesReady ==
  /\ Waiting /\ call.kind \in Servers /\ process = "running"
  /\ Go("serving") /\ Same /\ UNCHANGED <<process, exchange>>
SeesExit ==
  /\ Waiting /\ call.kind \in Servers /\ process = "exited"
  /\ Fails("error") /\ Same /\ UNCHANGED <<process, exchange>>
StopServer ==
  /\ Serving
  /\ Fails("value")
  /\ Same /\ UNCHANGED <<process, exchange>>

-----------------------------------------------------------------------------
(* _cleanup_failed_worker, _cleanup_process, _terminate_reap_and_cleanup   *)
(* and _reap: a task of its own, awaited behind a shield.                  *)

Reap ==
  /\ call.at \in {"term", "kill"} /\ process \in {"exited", "reaped"}
  /\ process' = "reaped" /\ Go("drain") /\ Same /\ UNCHANGED exchange
GraceOver ==
  /\ call.at = "term" /\ process = "running"
  /\ Go("kill") /\ Same /\ UNCHANGED <<process, exchange>>
(* Faulty variant: the answer of the cleanup, a late cancellation, is      *)
(* dropped.                                                                *)
DrainDeaf ==
  /\ call.at = "drain"
  /\ exchange' = IF exchange = "running" THEN "cancelled" ELSE exchange
  /\ Go("leaving")
  /\ Same /\ UNCHANGED process
Drain ==
  /\ call.at = "drain"
  /\ exchange' = IF exchange = "running" THEN "cancelled" ELSE exchange
  /\ call' = [call EXCEPT !.at = "leaving",
                          !.report = IF call.heard /\ ~call.deaf THEN "cancelled" ELSE @]
  /\ Same /\ UNCHANGED process

(* The finally of a watcher awaits once more; ssh then looks at revoked.   *)
Leave ==
  /\ call.at = "leaving"
  /\ call' = [call EXCEPT !.at = "over",
                          !.report = IF call.kind = "ssh" /\ revoked /\ @ = "value"
                                     THEN "cancelled" ELSE @]
  /\ secrets' = FALSE
  /\ UNCHANGED <<process, exchange, revoked, cancels>>
Return ==
  /\ call.at = "over" /\ call' = NoCall /\ cancels' = 0
  /\ process' = "none" /\ exchange' = "none"
  /\ UNCHANGED <<secrets, revoked>>

-----------------------------------------------------------------------------
(* The caller.  Its cancellation ends a wait; behind the shield it is only *)
(* remembered.                                                             *)

CancelCaller ==
  /\ cancels < MaxCancels /\ cancels' = cancels + 1
  /\ \/ Waiting /\ Fails("cancelled")
     \/ Cleaning /\ call' = [call EXCEPT !.heard = TRUE]
     \/ call.at = "leaving" /\ Watches(call.kind) /\ call' = [call EXCEPT !.report = "cancelled"]
  /\ UNCHANGED <<process, exchange, secrets, revoked>>

Revoke ==
  /\ ~revoked /\ revoked' = TRUE
  /\ UNCHANGED <<call, process, exchange, secrets, cancels>>
FreshEvent ==
  /\ revoked /\ call = NoCall /\ revoked' = FALSE
  /\ UNCHANGED <<call, process, exchange, secrets, cancels>>

-----------------------------------------------------------------------------
ChildrenInit ==
  /\ call = NoCall /\ process = "none" /\ exchange = "none" /\ secrets = FALSE
  /\ revoked = FALSE /\ cancels = 0

Supervise ==
  \/ CheckChild \/ TakeAnswer \/ NoticeRevoked \/ Deadline \/ BecomesReady \/ SeesExit
  \/ Reap \/ GraceOver \/ Drain \/ Leave \/ Return
ChildrenNext ==
  \/ \E kind \in Kinds : BeginCall(kind)
  \/ Supervise \/ ChildExits \/ ExchangeEnds \/ StopServer \/ CancelCaller \/ Revoke \/ FreshEvent
ChildrenSpec == ChildrenInit /\ [][ChildrenNext]_childVars

-----------------------------------------------------------------------------
Calls ==
  [kind : Kinds \cup {"none"},
   at : {"idle", "checking", "waiting", "serving", "term", "kill", "drain", "leaving", "over"},
   report : {"none", "value", "error", "cancelled"}, heard : BOOLEAN, deaf : BOOLEAN]
ChildrenTypeOK ==
  /\ call \in Calls
  /\ process \in {"none", "running", "exited", "reaped"}
  /\ exchange \in {"none", "running", "answered", "bad_code", "failed", "cancelled"}
  /\ secrets \in BOOLEAN /\ revoked \in BOOLEAN /\ cancels \in 0..MaxCancels

(* When a supervised call is over, nothing of it is left: the child is     *)
(* reaped, no task still talks to it, its key files and its runtime        *)
(* directory are gone.  And what it reports is true: a cancelled caller    *)
(* hears of the cancellation however late it came, unless it is deaf.      *)
NothingOutlives ==
  call.at = "over" =>
    /\ process = "reaped" /\ exchange # "running" /\ ~secrets
    /\ cancels > 0 /\ ~call.deaf => call.report = "cancelled"
=============================================================================
