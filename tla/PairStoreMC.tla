------------------------------ MODULE PairStoreMC ------------------------------
(* Bounded instance of PairStore. *)
EXTENDS PairStore, TLC

Symmetric == Permutations(Keys) \cup Permutations(PairIds)
                 \cup Permutations(BindingIds) \cup Permutations(Mobiles)
                 \cup Permutations(Desktops)
                 \cup Permutations(Tokens)
=============================================================================
