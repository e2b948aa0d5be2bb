---------------------------- MODULE MCDigestChain ----------------------------
(* DigestChain on small instances: c1 is locked at set-up, c2 may be added. *)
EXTENDS DigestChain

CONSTANTS c1, c2
=============================================================================
