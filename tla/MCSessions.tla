----------------------------- MODULE MCSessions -----------------------------
(* Small instances of Sessions: the constants are set in the .cfg.          *)
EXTENDS Sessions, TLC

\* Handlers, readers and consoles are interchangeable.
Symmetry == Permutations(Handlers) \cup Permutations(Readers)
                \cup Permutations(Macs)
=============================================================================
