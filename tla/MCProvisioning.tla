--------------------------- MODULE MCProvisioning ---------------------------
(* Provisioning for TLC. *)
EXTENDS Provisioning

CONSTANT w1
=============================================================================
