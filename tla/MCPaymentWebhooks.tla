-------------------------- MODULE MCPaymentWebhooks --------------------------
EXTENDS PaymentWebhooks, TLC

Symmetry ==
    Permutations(Customers) \cup Permutations(Licenses) \cup Permutations(Handlers)
=============================================================================
