-------------------------------- MODULE Jobs --------------------------------
(***************************************************************************)
(* A job of ordo-jobs and what the scheduler's operations do to its map.   *)
(* A job map is a function from ids to jobs or None.  Time is reduced to   *)
(* whether a job's moment (the At time, or next_run) is still to come.     *)
(***************************************************************************)
EXTENDS Naturals

CONSTANT None   \* no job has this id

JobTypes == {"OneShot", "Recurring", "EventDriven", "Watcher"}
Triggers == {"at", "interval", "event", "watch", "condition"}

Job ==
  [type : JobTypes, trigger : Triggers,
   status : {"Enabled", "Disabled", "Running", "Completed", "Error"},
   wait : {"never", "later", "past"},   \* next_run unset, to come, reached
   ran : BOOLEAN]                       \* run_count > 0

\* Job::new.
NewJob(type, trigger, past) ==
  [type |-> type, trigger |-> trigger, status |-> "Enabled", ran |-> FALSE,
   wait |-> IF trigger # "at" THEN "never" ELSE IF past THEN "past" ELSE "later"]

DueWhileRunning(job) ==        \* (mutant) a job that runs is due as well
  /\ job.status \in {"Enabled", "Running"}
  /\ \/ job.trigger = "at" /\ job.wait = "past" /\ ~job.ran
     \/ job.trigger = "interval" /\ job.wait # "later"
IsDue(job) ==
  /\ job.status = "Enabled"
  /\ \/ job.trigger = "at" /\ job.wait = "past" /\ ~job.ran
     \/ job.trigger = "interval" /\ job.wait # "later"

Started(job) == [job EXCEPT !.status = "Running"]
Resumed(job) == [job EXCEPT !.status = "Enabled"]
Stopped(job) == [job EXCEPT !.status = "Disabled"]

\* completed_run and mark_completed: an interval counts from now.
KeepsMoment(job) ==   \* (mutant) next_run is not set again
  [job EXCEPT !.ran = TRUE,
              !.status = IF job.type = "OneShot" THEN "Completed" ELSE "Enabled"]
Completed(job) ==
  [job EXCEPT !.ran = TRUE,
              !.wait = IF job.trigger = "interval" THEN "later" ELSE @,
              !.status = IF job.type = "OneShot" THEN "Completed" ELSE "Enabled"]

\* recorded_error and mark_failed: next_run stays what it was.
Errored(job) ==
  [job EXCEPT !.status = IF job.type = "OneShot" THEN "Error" ELSE "Enabled"]

\* The clock reaches the job's moment.
Reached(job) == [job EXCEPT !.wait = IF @ = "later" THEN "past" ELSE @]

-----------------------------------------------------------------------------
(* Job maps.                                                               *)

Has(js, i) == js[i] # None
DueIn(js) == {i \in DOMAIN js : Has(js, i) /\ IsDue(js[i])}
WaitingFor(js, trigger) ==
  {i \in DOMAIN js : Has(js, i) /\ js[i].trigger = trigger /\ js[i].status = "Enabled"}

\* The jobs of S become Running: what tick and fire_event do.
StartAll(js, S) == [i \in DOMAIN js |-> IF i \in S THEN Started(js[i]) ELSE js[i]]
=============================================================================
