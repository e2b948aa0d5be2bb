------------------------------- MODULE Route -------------------------------
(***************************************************************************)
(* The way to Telegram: the stored VPN node and the host name it came      *)
(* from, the Mihomo child, the stall counter of the ticks, the manual      *)
(* replacement and the automatic re-resolution of the node, and the ends   *)
(* of epochs that overtake them.  guardian_engine.Collector, with          *)
(* _TelegramContact and the repair half of run_once.                       *)
(*                                                                         *)
(* The state is that of locked chats.  A provider moves its host to a new  *)
(* address (Rotate) and the old address is dead from then on.              *)
(***************************************************************************)
EXTENDS Naturals, FiniteSets

CONSTANTS
  Named,          \* providers whose node came with a host name
  Unnamed,        \* providers whose node came with an address only
  StallTicks,     \* VPN_STALL_TICKS_BEFORE_RERESOLVE
  MaxRotations,   \* bound: rotations of an address
  MaxFaults,      \* bound: lost answers, dead children, failed starts, crashes
  MaxEpochs       \* bound: administrative operations and crashes

ASSUME RouteAssumption ==
  /\ Named # {} /\ Named \cap Unnamed = {}
  /\ StallTicks \in Nat \ {0} /\ MaxRotations \in Nat /\ MaxFaults \in Nat /\ MaxEpochs \in Nat

VARIABLES
  address,    \* the address each provider's host has now
  node,       \* vpn_active_node, or NoNode
  origin,     \* vpn_node_origin, or "none"
  child,      \* the node the Mihomo child runs with, or NoNode
  tick,       \* run_once: idle, past the gate, or talking to Telegram
  stall,      \* _telegram_stall_ticks
  cooling,    \* _vpn_reresolve_after_mono lies ahead
  repair,     \* _vpn_repair_task
  ends,       \* the operation that ends the epoch, or "none"; then revoked is set
  epoch,      \* which Event object revoked is
  faults      \* faults spent

routeVars == <<address, node, origin, child, tick, stall, cooling, repair, ends, epoch, faults>>

-----------------------------------------------------------------------------
Hosts == Named \cup Unnamed
Nodes == [host : Hosts, at : 0..MaxRotations]
NoNode == [host |-> "none", at |-> 0]
OriginOf(n) == IF n.host \in Named THEN n.host ELSE "none"
Current(h) == [host |-> h, at |-> address[h]]
Alive(n) == n # NoNode /\ n = Current(n.host)

Holding == {"testing", "probing", "committing", "naming", "restoring", "checking",
            "restarting", "rechecking"}
Places == {"none", "reading", "resolving", "fetching", "waiting"} \cup Holding
NoRepair == [at |-> "none", kind |-> "manual", epoch |-> 0, old |-> NoNode, left |-> {},
             tries |-> NoNode, cancelled |-> FALSE]
Repairing == repair.at # "none"
Revoked == ends # "none"
(* Faulty variant: the repair looks at the current Event, not at its own.  *)
StaleByCurrentEvent == Revoked
Stale == Revoked \/ repair.epoch # epoch
Fault == faults < MaxFaults /\ faults' = faults + 1
NoFault == UNCHANGED faults

-----------------------------------------------------------------------------
(* The tick: _maybe_start_vpn_reresolve runs in the finally of run_once,   *)
(* on the counter that the tick leaves behind.                             *)

Reresolves(n) == n >= StallTicks /\ ~Repairing /\ origin # "none" /\ ~cooling
EndTick(n) ==
  /\ tick' = "idle"
  /\ IF Reresolves(n)
     THEN /\ stall' = 0 /\ cooling' = TRUE
          /\ repair' = [NoRepair EXCEPT !.at = "reading", !.kind = "reresolve", !.epoch = epoch]
     ELSE stall' = n /\ UNCHANGED <<cooling, repair>>
  /\ UNCHANGED <<address, node, origin, ends, epoch>>

(* run_lock is granted in order, so a tick does not overtake a repair that *)
(* waits for it.                                                           *)
StartTick ==
  /\ tick = "idle" /\ repair.at \notin Holding \cup {"waiting"} /\ ~Revoked /\ node # NoNode
  /\ tick' = "gated"
  /\ UNCHANGED <<address, node, origin, child, stall, cooling, repair, ends, epoch, faults>>

(* A tick that ends before it asks Telegram anything counts neither way.   *)
(* Faulty variant: a tick that asked nothing counts as an answer.          *)
IdleTickResets == tick = "gated" /\ EndTick(0) /\ UNCHANGED child /\ NoFault
IdleTick == tick = "gated" /\ EndTick(stall) /\ UNCHANGED child /\ NoFault

EnsureVpn ==
  /\ tick = "gated"
  /\ \/ /\ child' = (IF child = NoNode THEN node ELSE child) /\ tick' = "talking"
        /\ NoFault /\ UNCHANGED <<address, node, origin, stall, cooling, repair, ends, epoch>>
     \/ child = NoNode /\ Fault /\ UNCHANGED child /\ EndTick(stall)

Contact ==
  /\ tick = "talking" /\ UNCHANGED child
  /\ \/ Alive(child) /\ EndTick(0) /\ NoFault
     \/ ~Alive(child) /\ EndTick(IF stall < StallTicks THEN stall + 1 ELSE stall) /\ NoFault
     \/ Alive(child) /\ Fault /\ EndTick(IF stall < StallTicks THEN stall + 1 ELSE stall)

CooldownEnds ==
  /\ cooling /\ cooling' = FALSE
  /\ UNCHANGED <<address, node, origin, child, tick, stall, repair, ends, epoch, faults>>

-----------------------------------------------------------------------------
(* The repair task.  Each place is an await of its own.                    *)

Keep == UNCHANGED <<address, tick, stall, ends, epoch>>
Goto(place) == repair' = [repair EXCEPT !.at = place]
Done == repair' = NoRepair

(* _run_vpn_reresolve up to the resolver, and _run_vpn_repair's fetch.     *)
ReadOrigin ==
  /\ repair.at = "reading" /\ Keep /\ NoFault
  /\ IF Stale \/ origin = "none" \/ node = NoNode \/ repair.cancelled THEN Done
     ELSE repair' = [repair EXCEPT !.at = "resolving", !.old = node]
  /\ UNCHANGED <<node, origin, child, cooling>>

Offer(offered) ==
  IF Stale \/ repair.cancelled THEN Done
  ELSE repair' = [repair EXCEPT !.at = "waiting", !.left = offered]

Resolve ==
  /\ repair.at = "resolving" /\ Keep
  /\ \/ NoFault /\ origin # "none" /\ Current(origin) # repair.old /\ Offer({Current(origin)})
     \/ NoFault /\ (origin = "none" \/ Current(origin) = repair.old) /\ Done
     \/ Fault /\ Done
  /\ cooling' \in {cooling} \cup IF faults' # faults THEN {FALSE} ELSE {} \* a timeout gives it back
  /\ UNCHANGED <<node, origin, child>>

Fetch ==
  /\ repair.at = "fetching" /\ Keep
  /\ \/ NoFault /\ \E offered \in SUBSET {Current(h) : h \in Hosts} : Offer(offered)
     \/ Fault /\ Done
  /\ UNCHANGED <<node, origin, child, cooling>>

(* _replace_vpn_nodes: it waits for the end of a tick, but not for ever.   *)
TakeRunLock ==
  /\ repair.at = "waiting" /\ tick = "idle" /\ Keep /\ NoFault
  /\ IF Stale \/ repair.cancelled \/ node = NoNode \/ repair.left \ {node} = {} THEN Done
     ELSE repair' = [repair EXCEPT !.at = "testing", !.old = node, !.left = @ \ {node}]
  /\ UNCHANGED <<node, origin, cooling>>
  /\ child' = IF repair'.at = "testing" THEN NoNode ELSE child

NoRunLock ==
  /\ repair.at = "waiting" /\ ((tick # "idle" /\ Fault) \/ (repair.cancelled /\ NoFault)) /\ Keep
  /\ Done
  /\ cooling' = (cooling /\ (repair.kind = "manual" \/ repair.cancelled))
  /\ UNCHANGED <<node, origin, child>>

(* _test_vpn_candidates.                                                   *)
TryNext ==
  /\ repair.at = "testing" /\ Keep
  /\ IF Stale \/ repair.cancelled \/ repair.left = {}
     THEN Goto("restoring") /\ UNCHANGED child /\ NoFault
     ELSE \E c \in repair.left :
            /\ repair' = [repair EXCEPT !.at = "probing", !.tries = c, !.left = @ \ {c}]
            /\ \/ child' = c /\ NoFault
               \/ child' = NoNode /\ Fault
  /\ UNCHANGED <<node, origin, cooling>>

(* telegram_probe_function.  It answers "unauthorised" when the account    *)
(* dropped the key: no other route can repair that.                        *)
Probe ==
  /\ repair.at = "probing" /\ Keep /\ UNCHANGED <<node, origin, child, cooling>>
  /\ IF repair.cancelled THEN Goto("restoring") /\ NoFault
     ELSE \/ Alive(child) /\ ~Stale /\ Goto("committing") /\ NoFault
          \/ ~Alive(child) /\ Goto("testing") /\ NoFault
          \/ Alive(child) /\ Fault /\ repair' \in {[repair EXCEPT !.at = p] : p \in {"testing", "restoring"}}
          \/ Stale /\ Goto("restoring") /\ NoFault

CommitNode ==
  /\ repair.at = "committing" /\ Keep /\ NoFault /\ UNCHANGED <<origin, child, cooling>>
  /\ \/ /\ ~Stale /\ ~repair.cancelled /\ child = repair.tries /\ node = repair.old
        /\ node' = repair.tries /\ Goto("naming")
     \/ /\ ~Stale /\ ~repair.cancelled /\ child # repair.tries
        /\ Goto("testing") /\ UNCHANGED node
     \/ /\ Stale \/ repair.cancelled \/ node # repair.old
        /\ Goto("restoring") /\ UNCHANGED node

(* _write_node_origin follows with no await: only a crash comes between.   *)
CommitOrigin ==
  /\ repair.at = "naming" /\ Keep /\ NoFault
  /\ origin' = OriginOf(repair.tries) /\ Done
  /\ UNCHANGED <<node, child, cooling>>

(* Faulty variant: tests that run out of time leave the child as it is.    *)
TestTimeoutAbandons ==
  /\ repair.at \in {"testing", "probing", "committing"} /\ Fault /\ Keep
  /\ Done
  /\ UNCHANGED <<node, origin, child, cooling>>

(* VPN_REPAIR_TEST_TIMEOUT_S cancels the tests at any await.               *)
TestTimeout ==
  /\ repair.at \in {"testing", "probing", "committing"} /\ Fault /\ Keep
  /\ Goto("restoring")
  /\ UNCHANGED <<node, origin, child, cooling>>

(* _restore_previous_vpn, shielded: it runs to its end whoever cancels.    *)
Restore ==
  /\ repair.at = "restoring" /\ Keep /\ NoFault /\ child' = NoNode /\ Goto("checking")
  /\ UNCHANGED <<node, origin, cooling>>
RestoreNode ==
  /\ repair.at = "checking" /\ Keep /\ NoFault /\ UNCHANGED <<origin, child, cooling>>
  /\ IF Stale THEN Done /\ UNCHANGED node ELSE node' = repair.old /\ Goto("restarting")
RestoreChild ==
  /\ repair.at = "restarting" /\ Keep /\ Goto("rechecking")
  /\ \/ child' = repair.old /\ NoFault
     \/ child' = NoNode /\ Fault
  /\ UNCHANGED <<node, origin, cooling>>
RestoreEnds ==
  /\ repair.at = "rechecking" /\ Keep /\ NoFault /\ Done
  /\ child' = IF Stale THEN NoNode ELSE child
  /\ UNCHANGED <<node, origin, cooling>>

-----------------------------------------------------------------------------
(* Administrative operations (Guardian._end_epoch, Collector.close) set    *)
(* revoked, cancel the tick and the repair and wait for both.              *)

EndEpoch(op) ==
  /\ ~Revoked /\ epoch < MaxEpochs
  /\ op = "configure" => node = NoNode
  /\ ends' = op
  /\ repair' = [repair EXCEPT !.cancelled = Repairing]
  /\ UNCHANGED <<address, node, origin, child, tick, stall, cooling, epoch, faults>>

CancelTick ==
  /\ Revoked /\ tick # "idle"
  /\ EndTick(stall) /\ UNCHANGED child /\ NoFault

(* close() stops the child, a fresh Event replaces the set one, and then   *)
(* the operation itself runs.                                              *)
Closed == Revoked /\ tick = "idle" /\ ~repair.cancelled
FreshEpoch ==
  /\ ends' = "none" /\ epoch' = epoch + 1 /\ child' = NoNode
  /\ UNCHANGED <<address, tick, faults>>

OtherOperation ==
  /\ Closed /\ ends = "other" /\ FreshEpoch
  /\ UNCHANGED <<node, origin, stall, cooling, repair>>
ReplaceVpn ==
  /\ Closed /\ ends = "replace_vpn" /\ FreshEpoch
  /\ repair' = IF Repairing \/ node = NoNode THEN repair
               ELSE [NoRepair EXCEPT !.at = "fetching", !.epoch = epoch + 1]
  /\ UNCHANGED <<node, origin, stall, cooling>>
RevokeRoute ==
  /\ Closed /\ ends = "revoke_and_reset" /\ FreshEpoch
  /\ node' = NoNode /\ origin' = "none" /\ stall' = 0 /\ cooling' = FALSE
  /\ UNCHANGED repair
ConfigureRoute ==
  /\ Closed /\ ends = "configure"
  /\ ends' = "none" /\ epoch' = epoch + 1
  /\ \E h \in Hosts : node' = Current(h) /\ origin' = OriginOf(Current(h)) /\ child' = Current(h)
  /\ UNCHANGED <<address, tick, stall, cooling, repair, faults>>

-----------------------------------------------------------------------------
Rotate(h) ==
  /\ address[h] < MaxRotations
  /\ address' = [address EXCEPT ![h] = @ + 1]
  /\ UNCHANGED <<node, origin, child, tick, stall, cooling, repair, ends, epoch, faults>>

ChildDies ==
  /\ child # NoNode /\ Fault /\ child' = NoNode
  /\ UNCHANGED <<address, node, origin, tick, stall, cooling, repair, ends, epoch>>

RouteCrash ==
  /\ epoch < MaxEpochs /\ Fault
  /\ child' = NoNode /\ tick' = "idle" /\ stall' = 0 /\ cooling' = FALSE
  /\ repair' = NoRepair /\ ends' = "none" /\ epoch' = epoch + 1
  /\ UNCHANGED <<address, node, origin>>

-----------------------------------------------------------------------------
RouteInit ==
  /\ address = [h \in Hosts |-> 0]
  /\ \E h \in Named : node = Current(h) /\ origin = h
  /\ child = NoNode /\ tick = "idle" /\ stall = 0 /\ cooling = FALSE
  /\ repair = NoRepair /\ ends = "none" /\ epoch = 0 /\ faults = 0

TickStep == StartTick \/ IdleTick \/ EnsureVpn \/ Contact \/ CancelTick
RepairStep ==
  \/ ReadOrigin \/ Resolve \/ Fetch \/ TakeRunLock \/ NoRunLock \/ TryNext \/ Probe \/ CommitNode
  \/ TestTimeout \/ Restore \/ RestoreNode \/ RestoreChild \/ RestoreEnds
AdminStep ==
  \/ \E op \in {"other", "replace_vpn", "revoke_and_reset", "configure"} : EndEpoch(op)
  \/ OtherOperation \/ ReplaceVpn \/ RevokeRoute \/ ConfigureRoute
World == CooldownEnds \/ ChildDies \/ \E h \in Hosts : Rotate(h)

RouteNext ==
  \/ CommitOrigin
  \/ RouteCrash
  \/ repair.at # "naming" /\ (TickStep \/ RepairStep \/ AdminStep \/ World)

(* Ticks come and a morning window opens again and again (the scheduler);  *)
(* the cooldown is a clock; a task that is not waiting for anybody runs.   *)
FairRepair == repair.at # "naming" /\ RepairStep
FairCooldown == repair.at # "naming" /\ CooldownEnds
FairScheduler == repair.at # "naming" /\ (StartTick \/ CancelTick)
FairAdmin == repair.at # "naming" /\ AdminStep /\ Revoked
FairContact == repair.at # "naming" /\ Contact
FairEnsure == repair.at # "naming" /\ EnsureVpn
RouteFairness ==
  /\ WF_routeVars(CommitOrigin) /\ WF_routeVars(FairRepair) /\ WF_routeVars(FairCooldown)
  /\ WF_routeVars(FairScheduler) /\ WF_routeVars(FairAdmin) /\ WF_routeVars(FairContact)
  /\ SF_routeVars(FairEnsure)
RouteSpec == RouteInit /\ [][RouteNext]_routeVars /\ RouteFairness

-----------------------------------------------------------------------------
RouteTypeOK ==
  /\ address \in [Hosts -> 0..MaxRotations]
  /\ node \in Nodes \cup {NoNode} /\ child \in Nodes \cup {NoNode}
  /\ origin \in Named \cup {"none"}
  /\ tick \in {"idle", "gated", "talking"} /\ stall \in 0..StallTicks /\ cooling \in BOOLEAN
  /\ repair \in [at : Places, kind : {"manual", "reresolve"}, epoch : 0..MaxEpochs,
                 old : Nodes \cup {NoNode}, left : SUBSET Nodes,
                 tries : Nodes \cup {NoNode}, cancelled : BOOLEAN]
  /\ ends \in {"none", "other", "replace_vpn", "revoke_and_reset", "configure"}
  /\ epoch \in 0..MaxEpochs /\ faults \in 0..MaxFaults

(* A tick never talks to Telegram over a node that is still on trial: out  *)
(* of a repair's own tests the child runs the stored node or nothing.      *)
TicksUseTheStoredNode ==
  /\ tick = "talking" => child \in {node, NoNode}
  /\ repair.at \notin Holding => child \in {node, NoNode}

(* A repair of an ended epoch changes nothing any more: not the node, not  *)
(* its origin, not the child; and no child crosses the end of an epoch.    *)
EndedRepairsAreInert ==
  [][ /\ repair.at # "none" /\ repair.epoch # epoch /\ epoch' = epoch
        => UNCHANGED <<node, origin>> /\ (repair' # repair => UNCHANGED child)
      /\ epoch' # epoch => (child' = NoNode \/ node = NoNode) ]_routeVars

(* A node whose provider moved its address is found again, by itself.      *)
RotationIsHealed ==
  origin # "none" /\ ~Alive(node) ~> Alive(node) \/ origin = "none"
=============================================================================
