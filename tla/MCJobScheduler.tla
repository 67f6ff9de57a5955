--------------------------- MODULE MCJobScheduler ---------------------------
(* Instances of JobScheduler: every pairing of type and trigger that       *)
(* job_from_spec makes.                                                    *)
EXTENDS JobScheduler

Pair(type, trigger) == [type |-> type, trigger |-> trigger]
AllKinds ==
  {Pair("OneShot", "at"), Pair("OneShot", "event"), Pair("Recurring", "interval"),
   Pair("EventDriven", "event"), Pair("Watcher", "watch")}
=============================================================================
