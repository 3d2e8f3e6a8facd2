--------------------------- MODULE MCPaymentWebhook ---------------------------
(* Instances of PaymentWebhook for TLC. *)
EXTENDS PaymentWebhook, TLC

\* Sessions and workers are interchangeable (safety runs only).
Symmetry ==
  Permutations(Intents) \cup Permutations(Workers)
=============================================================================
