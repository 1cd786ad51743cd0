-------------------------- MODULE MCWebhookDelivery --------------------------
(* Instances of WebhookDelivery for TLC. *)
EXTENDS WebhookDelivery, TLC

CONSTANTS t1, t2, e1, e2, e3

MCThread == {t1, t2}
MCEventId == {e1, e2, e3}
MCFlaws == {{}, {"sign"}, {"payload"}, {"key", "payload"}}
Symmetry == Permutations(MCThread) \cup Permutations(MCEventId)
============================================================================
