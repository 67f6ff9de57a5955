---- MODULE MCOrchestrator ----
(* Instances of Orchestrator; the budgets are those of the cfgs. *)
EXTENDS Orchestrator
===============================
