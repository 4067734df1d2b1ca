----------------------------- MODULE MCBilling ------------------------------
(* Billing, for TLC: two rates, the second of half a credit for a tick;    *)
(* two messages about the subscription, two grants under one event ID, one *)
(* of another customer and an order.                                       *)
EXTENDS Billing, Sequences
MCRates == <<[effective |-> 0, per |-> 2], [effective |-> 1, per |-> 1]>>
Message(id, type, at, credits, from) ==
    [id |-> id, type |-> type, at |-> at, credits |-> credits, customer |-> from]
MCWebhooks ==
    <<Message(1, "subscription", 1, 0, "c1"), Message(2, "subscription", 2, 0, "c1"),
      Message(3, "grant", 1, 3, "c1"), Message(3, "grant", 1, 5, "c1"),
      Message(4, "subscription", 2, 0, "c2"), Message(5, "order", 1, 0, "c1")>>
=============================================================================
