--------------------------- MODULE MCRedisGateway ---------------------------
(* Small instances of RedisGateway for TLC.                                *)
EXTENDS RedisGateway, TLC

CONSTANTS k1, r1, r2, r3, r4   \* model values

\* All requests under one key: the keys do not meet in Redis.
MCKeyOf == [r \in Request |-> k1]

MCSymmetry == Permutations(Request)
=============================================================================
