---------------------------- MODULE MCAutomation ----------------------------
(* Instances of Automation: a seeded heartbeat "diag", an automation that   *)
(* needs approval and one that does not.                                    *)
EXTENDS Automation

KindOf ==
  [a \in Autos |-> CASE a = "diag" -> "interval" [] a = "sweep" -> "interval"
                      [] a = "alarm" -> "at" [] a = "hook" -> "event"
                      [] a = "button" -> "manual" [] a = "weekly" -> "cron"]
Approvals == [a \in Autos |-> a \in {"sweep", "hook"}]
=============================================================================
