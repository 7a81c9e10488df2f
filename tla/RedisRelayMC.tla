----------------------------- MODULE RedisRelayMC ------------------------------
(* Bounded instance of RedisRelay. *)
EXTENDS RedisRelay, TLC

Symmetric == Permutations(Instances) \cup Permutations(Events)
=============================================================================
