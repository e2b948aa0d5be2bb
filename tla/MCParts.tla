------------------------------ MODULE MCParts ------------------------------
(***************************************************************************)
(* The components that share no state with each other, checked side by     *)
(* side: a behaviour is a behaviour of the one part chosen at the start,   *)
(* and the other parts stay in their initial states.                       *)
(***************************************************************************)
EXTENDS Session, Route, Morning, VaultFiles, Children, Collect, PeerBatch, ModelGrant, Passkeys

VARIABLE part

InPart(name) == part = name /\ part' = part

IdleBut(name) ==
  /\ name # "session" => UNCHANGED sessionVars
  /\ name # "route" => UNCHANGED routeVars
  /\ name # "morning" => UNCHANGED morningVars
  /\ name # "vault" => UNCHANGED vaultVars
  /\ name # "children" => UNCHANGED childVars
  /\ name # "collect" => UNCHANGED collectVars
  /\ name # "batch" => UNCHANGED batchVars
  /\ name # "grant" => UNCHANGED grantVars
  /\ name # "passkeys" => UNCHANGED passkeyVars

PartsInit ==
  /\ part \in {"session", "route", "morning", "vault", "children", "collect", "batch", "grant",
              "passkeys"}
  /\ SessionInit /\ RouteInit /\ MorningInit /\ VaultInit /\ ChildrenInit /\ CollectInit
  /\ BatchInit /\ GrantInit /\ PasskeysInit
  /\ part = "vault" \/ valid

PartsNext ==
  \/ InPart("session") /\ SessionNext /\ IdleBut("session")
  \/ InPart("route") /\ RouteNext /\ IdleBut("route")
  \/ InPart("morning") /\ MorningNext /\ IdleBut("morning")
  \/ InPart("vault") /\ VaultNext /\ IdleBut("vault")
  \/ InPart("children") /\ ChildrenNext /\ IdleBut("children")
  \/ InPart("collect") /\ CollectNext /\ IdleBut("collect")
  \/ InPart("batch") /\ BatchNext /\ IdleBut("batch")
  \/ InPart("grant") /\ GrantNext /\ IdleBut("grant")
  \/ InPart("passkeys") /\ PasskeysNext /\ IdleBut("passkeys")

partsVars ==
  <<part, sessionVars, routeVars, morningVars, vaultVars, childVars, collectVars, batchVars,
    grantVars, passkeyVars>>

(* RouteFairness, where the route is the part that moves.                  *)
PartsFairness ==
  /\ WF_routeVars(part = "route" /\ CommitOrigin)
  /\ WF_routeVars(part = "route" /\ FairRepair)
  /\ WF_routeVars(part = "route" /\ FairCooldown)
  /\ WF_routeVars(part = "route" /\ FairScheduler)
  /\ WF_routeVars(part = "route" /\ FairAdmin)
  /\ WF_routeVars(part = "route" /\ FairContact)
  /\ SF_routeVars(part = "route" /\ FairEnsure)

PartsSpec == PartsInit /\ [][PartsNext]_partsVars /\ PartsFairness

(* Every variable of the part that moves keeps its shape; the others are   *)
(* as they began, which each part's own first state covers.                *)
PartsTypeOK ==
  /\ part = "session" => SessionTypeOK
  /\ part = "route" => RouteTypeOK
  /\ part = "morning" => MorningTypeOK
  /\ part = "vault" => VaultTypeOK
  /\ part = "children" => ChildrenTypeOK
  /\ part = "collect" => CollectTypeOK
  /\ part = "batch" => BatchTypeOK
  /\ part = "grant" => GrantTypeOK
  /\ part = "passkeys" => PasskeysTypeOK
=============================================================================
