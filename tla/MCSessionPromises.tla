-------------------------- MODULE MCSessionPromises -------------------------
(* Small instances of SessionPromises: the constants are set in the .cfg.  *)
EXTENDS SessionPromises, FiniteSets, TLC

Symmetry == Permutations(Handlers) \cup Permutations(Macs)

\* The players that a session or a request names.
Involved ==
    UNION {sessions[i].members : i \in {j \in Ids : Found(j)}} \cup
    UNION {handling[h].who : h \in {g \in Handlers : handling[g].pc = "save"}}

\* Bound: two players with no migration, one with one, or two migrations with
\* nobody in them.
FewTogether == Cardinality(Involved) + nextId - NClientIds <= 3
=============================================================================
