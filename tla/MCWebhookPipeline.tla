------------------------- MODULE MCWebhookPipeline -------------------------
(* Instances of WebhookPipeline for TLC: two deliveries that may name the  *)
(* same identity, two worker processes.                                    *)
EXTENDS WebhookPipeline, TLC

CONSTANTS w1, w2, v1, v2, k1

TwoWebhooks == {w1, w2}
OneWebhook  == {w1}
TwoWorkers  == {v1, v2}
OneWorker   == {v1}
OneKey      == {k1}

Entity(key) == [fate |-> "entity", key |-> key]
Other(fate) == [fate |-> fate, key |-> NoKey]

SharedEntity == {Entity(k1)}
EveryPayload ==
  {Entity(k1), Entity(NoKey), Other("poison"), Other("unrouted"), Other("notjson")}

(* Deliveries are interchangeable, and so are processes.                   *)
Symmetry == Permutations(TwoWebhooks) \cup Permutations(TwoWorkers)
=============================================================================
