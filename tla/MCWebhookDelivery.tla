-------------------------- MODULE MCWebhookDelivery --------------------------
(* Small instances of WebhookDelivery.                                     *)
EXTENDS WebhookDelivery, TLC

CONSTANTS e1, h1, h2, w1, w2

OneEndpoint == [d \in Deliveries |-> e1]

Symmetric == Permutations(Deliveries) \cup Permutations(Workers)
=============================================================================
