------------------------- MODULE OutboundWebhooksMC -------------------------
(* Symmetry for the runs of OutboundWebhooks.                              *)
EXTENDS OutboundWebhooks, TLC

Symmetry == Permutations(Slots) \cup Permutations(Jobs)
=============================================================================
