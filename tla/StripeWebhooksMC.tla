-------------------------- MODULE StripeWebhooksMC --------------------------
(* Event types and symmetry for the runs of StripeWebhooks.                *)
EXTENDS StripeWebhooks, TLC

CONSTANTS e1, e2

TwoEvents == {e1, e2}

\* A failed invoice that is paid, an overdue plan that is downgraded.
PairsOfEvents ==
    {(e1 :> "failed") @@ (e2 :> "paid"),
     (e1 :> "pastDue") @@ (e2 :> "downgrade")}
=============================================================================
