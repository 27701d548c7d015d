----------------------------- MODULE MCWebhook -----------------------------
(***************************************************************************)
(* Small instances of Webhook for TLC.                                     *)
(***************************************************************************)
EXTENDS Webhook, TLC

TypeSymmetry == Permutations(Types)
=============================================================================
