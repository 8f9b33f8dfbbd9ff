---------------------------- MODULE MCConnector -----------------------------
(* Connector on small instances, for TLC. *)
EXTENDS Connector, TLC

\* Callers are interchangeable, and so are endpoints.
Symmetry == Permutations(Callers) \cup Permutations(Endpoints)

=============================================================================
