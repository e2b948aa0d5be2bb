---------------------------- MODULE ReceiptStream ----------------------------
(***************************************************************************)
(* What a receipted upload stream promises, whatever it carries.           *)
(*                                                                         *)
(* The receiver's chain grows by one accepted upload at a time and the     *)
(* guardian checkpoints an upload only once the receiver has accepted it.  *)
(* At most one accepted upload is ever unconfirmed locally (its receipt    *)
(* was lost, or a crash came before the checkpoint), and the next upload   *)
(* is accepted only after that one is settled: so nothing is delivered     *)
(* twice and nothing accepted is forgotten.  Both concrete streams, the    *)
(* daily digest (DigestChain) and the monitor chain (MonitorChain), are    *)
(* shown to implement this module.                                         *)
(***************************************************************************)
EXTENDS Naturals

VARIABLES
  head,      \* number of uploads the receiver has accepted
  settled    \* number of uploads the guardian has checkpointed as accepted

vars == <<head, settled>>

Init == head \in Nat /\ settled \in Nat /\ (head = settled \/ head = settled + 1)

(* The receiver accepts the next upload of a fully settled stream.         *)
Accept == head = settled /\ head' = head + 1 /\ settled' = settled

(* The guardian learns, from a receipt or from the next gate, that the     *)
(* upload in doubt was accepted.                                           *)
Settle == head = settled + 1 /\ settled' = head /\ head' = head

Next == Accept \/ Settle

Spec == Init /\ [][Next]_vars
=============================================================================
