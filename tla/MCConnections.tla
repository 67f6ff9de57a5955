--------------------------- MODULE MCConnections ----------------------------
(* Small instances of Connections; ids and callers are interchangeable.     *)
EXTENDS Connections, TLC
Symmetry == Permutations(Secrets) \union Permutations(Callers) \union Permutations(Fields)
=============================================================================
