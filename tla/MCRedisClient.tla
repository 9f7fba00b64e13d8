---------------------------- MODULE MCRedisClient ----------------------------
(* Instance of RedisClient for TLC. *)
EXTENDS RedisClient
CONSTANTS m1, m2
MCTtl == [inbox |-> 2, attempts |-> 2, dedup |-> 2]
MCSymmetry == Permutations(Message)
=============================================================================
