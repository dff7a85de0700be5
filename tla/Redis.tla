-------------------------------- MODULE Redis --------------------------------
(* The one Redis server that RedisStore and RateLimiter use (external): the  *)
(* client is "ready" and commands are answered, it is "failing" when it is   *)
(* ready and commands fail or hang, or it is "down".                         *)
VARIABLE redis

RedisInit == redis = "ready"
RedisTypeOK == redis \in {"ready", "failing", "down"}

Outage == redis = "ready" /\ redis' \in {"failing", "down"}
Recovery == redis # "ready" /\ redis' = "ready"
=============================================================================
