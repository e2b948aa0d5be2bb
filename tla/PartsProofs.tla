---------------------------- MODULE PartsProofs ----------------------------
(***************************************************************************)
(* The parts of MCParts side by side: a behaviour of the composition is a  *)
(* behaviour of every part, so what is proved of the parts holds of it.    *)
(***************************************************************************)
EXTENDS MCParts, TelegramProofs, TickProofs, CallProofs, VaultProofs

LEMMA PartsRunSession == PartsSpec => SessionInit /\ [][SessionNext]_sessionVars
<1>1. PartsInit => SessionInit
  BY DEF PartsInit
<1>2. [PartsNext]_partsVars => [SessionNext]_sessionVars
  BY DEF PartsNext, InPart, IdleBut, partsVars
<1> QED BY <1>1, <1>2, PTL DEF PartsSpec

LEMMA PartsRunRoute == PartsSpec => RouteInit /\ [][RouteNext]_routeVars
<1>1. PartsInit => RouteInit
  BY DEF PartsInit
<1>2. [PartsNext]_partsVars => [RouteNext]_routeVars
  BY DEF PartsNext, InPart, IdleBut, partsVars
<1> QED BY <1>1, <1>2, PTL DEF PartsSpec

LEMMA PartsRunMorning == PartsSpec => MorningInit /\ [][MorningNext]_morningVars
<1>1. PartsInit => MorningInit
  BY DEF PartsInit
<1>2. [PartsNext]_partsVars => [MorningNext]_morningVars
  BY DEF PartsNext, InPart, IdleBut, partsVars
<1> QED BY <1>1, <1>2, PTL DEF PartsSpec

LEMMA PartsRunVault == PartsSpec => VaultInit /\ [][VaultNext]_vaultVars
<1>1. PartsInit => VaultInit
  BY DEF PartsInit
<1>2. [PartsNext]_partsVars => [VaultNext]_vaultVars
  BY DEF PartsNext, InPart, IdleBut, partsVars
<1> QED BY <1>1, <1>2, PTL DEF PartsSpec

LEMMA PartsRunChildren == PartsSpec => ChildrenInit /\ [][ChildrenNext]_childVars
<1>1. PartsInit => ChildrenInit
  BY DEF PartsInit
<1>2. [PartsNext]_partsVars => [ChildrenNext]_childVars
  BY DEF PartsNext, InPart, IdleBut, partsVars
<1> QED BY <1>1, <1>2, PTL DEF PartsSpec

LEMMA PartsRunCollect == PartsSpec => CollectInit /\ [][CollectNext]_collectVars
<1>1. PartsInit => CollectInit
  BY DEF PartsInit
<1>2. [PartsNext]_partsVars => [CollectNext]_collectVars
  BY DEF PartsNext, InPart, IdleBut, partsVars
<1> QED BY <1>1, <1>2, PTL DEF PartsSpec

LEMMA PartsRunBatch == PartsSpec => BatchInit /\ [][BatchNext]_batchVars
<1>1. PartsInit => BatchInit
  BY DEF PartsInit
<1>2. [PartsNext]_partsVars => [BatchNext]_batchVars
  BY DEF PartsNext, InPart, IdleBut, partsVars
<1> QED BY <1>1, <1>2, PTL DEF PartsSpec

LEMMA PartsRunGrant == PartsSpec => GrantInit /\ [][GrantNext]_grantVars
<1>1. PartsInit => GrantInit
  BY DEF PartsInit
<1>2. [PartsNext]_partsVars => [GrantNext]_grantVars
  BY DEF PartsNext, InPart, IdleBut, partsVars
<1> QED BY <1>1, <1>2, PTL DEF PartsSpec

LEMMA PartsRunPasskeys == PartsSpec => PasskeysInit /\ [][PasskeysNext]_passkeyVars
<1>1. PartsInit => PasskeysInit
  BY DEF PartsInit
<1>2. [PartsNext]_partsVars => [PasskeysNext]_passkeyVars
  BY DEF PartsNext, InPart, IdleBut, partsVars
<1> QED BY <1>1, <1>2, PTL DEF PartsSpec

(* Every variable of every part keeps its shape: the records and markers   *)
(* of a session, the nodes and places of a repair, the counters of a       *)
(* morning, the files of the vault, the children, what an issue reads,     *)
(* the batches, the leases and the passkeys.                               *)
THEOREM PartsTypesHold == PartsSpec => []PartsTypeOK
<1>1. PartsSpec => []SessionTypeOK
  BY PartsRunSession, SessionInvariance, SessionIsTyped, PTL
<1>2. PartsSpec => []RouteTypeOK
  <2>1. RouteInv => RouteTypeOK BY DEF RouteInv
  <2> QED BY <2>1, PartsRunRoute, RouteInvariance, PTL
<1>3. PartsSpec => []MorningTypeOK BY PartsRunMorning, MorningTypesHold, PTL DEF MorningSpec
<1>4. PartsSpec => []VaultTypeOK BY PartsRunVault, VaultTypesHold, PTL DEF VaultSpec
<1>5. PartsSpec => []ChildrenTypeOK BY PartsRunChildren, ChildrenTypesHold, PTL DEF ChildrenSpec
<1>6. PartsSpec => []CollectTypeOK BY PartsRunCollect, CollectTypesHold, PTL DEF CollectSpec
<1>7. PartsSpec => []BatchTypeOK BY PartsRunBatch, BatchTypes, PTL DEF BatchSpec
<1>8. PartsSpec => []GrantTypeOK BY PartsRunGrant, GrantTypesHold, PTL DEF GrantSpec
<1>9. PartsSpec => []PasskeysTypeOK BY PartsRunPasskeys, PasskeysTypesHold, PTL DEF PasskeysSpec
<1>10. /\ SessionTypeOK /\ RouteTypeOK /\ MorningTypeOK /\ VaultTypeOK
       /\ ChildrenTypeOK /\ CollectTypeOK /\ BatchTypeOK /\ GrantTypeOK /\ PasskeysTypeOK
       => PartsTypeOK
  BY DEF PartsTypeOK
<1> QED BY <1>1, <1>2, <1>3, <1>4, <1>5, <1>6, <1>7, <1>8, <1>9, <1>10, PTL
=============================================================================
