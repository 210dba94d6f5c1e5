---------------------------- MODULE MCRedisCluster ----------------------------
(***************************************************************************)
(* RedisCluster for TLC: callers are interchangeable.                      *)
(***************************************************************************)
EXTENDS RedisCluster, TLC

CallerSymmetry == Permutations(Callers)

=============================================================================
