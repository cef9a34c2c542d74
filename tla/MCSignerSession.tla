-------------------------- MODULE MCSignerSession --------------------------
(* The signer group is two nodes; the configurations choose the threshold  *)
(* and which node may crash, fail or expire.                               *)
EXTENDS SignerSession

=============================================================================
