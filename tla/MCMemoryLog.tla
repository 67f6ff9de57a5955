----------------------------- MODULE MCMemoryLog -----------------------------
(* Instances of MemoryLog; threads, ids and bounds are those of the cfgs.    *)
(* Writers, ids and payloads are interchangeable: only equality is asked.    *)
EXTENDS MemoryLog, TLC
Symmetry == Permutations(Writers) \union Permutations(Ids) \union Permutations(Payloads)
=============================================================================
