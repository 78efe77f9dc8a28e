---------------------------- MODULE MCRedisLock ----------------------------
(***************************************************************************)
(* RedisLock for TLC: one instance with two goroutines, one with a single  *)
(* goroutine.                                                              *)
(***************************************************************************)
EXTENDS RedisLock, TLC

CONSTANTS i1, i2, g1, g2, g3

MCHome == (g1 :> i1) @@ (g2 :> i1) @@ (g3 :> i2)

Symmetry == {p @@ q : p \in Permutations(Tokens), q \in Permutations({g1, g2})}
=============================================================================
