------------------------- MODULE MCWebhookDelivery -------------------------
(* Instances of WebhookDelivery for TLC. *)
EXTENDS WebhookDelivery, TLC

CONSTANTS e1, e2, d1, d2, w1, w2, p1, p2

CrashFaults == {"crash"}
QuietFaults == {"db", "crash"}
AllFaults == FaultKinds

Symmetry ==
    UNION {Permutations(S) : S \in {Events, Dispatchers, Workers, Inliners}}
=============================================================================
