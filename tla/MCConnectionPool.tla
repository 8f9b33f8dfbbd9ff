-------------------------- MODULE MCConnectionPool --------------------------
(* ConnectionPool on small instances, for TLC. *)
EXTENDS PoolAsSet, TLC

\* Clients of one kind, adders and sessions are interchangeable.
Symmetry ==
    Permutations(Clients \ Probers) \cup Permutations(Probers)
        \cup Permutations(Adders) \cup Permutations(Sessions)

=============================================================================
