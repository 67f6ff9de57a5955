---- MODULE MCMcpServers ----
(* Instances of McpServers.  Policies: GraduationPolicy::testing asks two
   successes of each rung and no time; One asks one success. *)
EXTENDS McpServers, TLC
CONSTANTS c1, c2
Testing == [r \in Climbing |-> 2]
NoDwell == [r \in Climbing |-> 0]
One == [r \in Climbing |-> 1]
Symmetry == Permutations({c1, c2})
(* The histories no property of the concurrent run reads are left out. *)
View == <<registry, calls, streak, unsaved, held, budget>>
=============================
