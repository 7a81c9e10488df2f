---------------------------- MODULE StoreRecoveryMC ----------------------------
(* Bounded instance of StoreRecovery. *)
EXTENDS StoreRecovery, TLC

Symmetric == Permutations(Keys) \cup Permutations(PairIds)
                 \cup Permutations(BindingIds) \cup Permutations(Tokens)
=============================================================================
