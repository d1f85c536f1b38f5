----------------------------- MODULE MCRedisAdmin ------------------------------
(***************************************************************************)
(* Small instances of RedisAdmin for TLC.                                  *)
(***************************************************************************)
EXTENDS RedisAdmin, TLC

CONSTANTS w1, w2, o1, o2, s1, t, main

Symmetry == Permutations({w1, w2}) \cup Permutations({o1, o2})
================================================================================
