------------------------------- MODULE MCParty -------------------------------
(* Small instances of Party: the constants are set in the .cfg.             *)
EXTENDS Party, TLC

Symmetry == Permutations(Handlers) \cup Permutations(Players)
=============================================================================
