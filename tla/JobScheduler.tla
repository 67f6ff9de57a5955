---------------------------- MODULE JobScheduler ----------------------------
(***************************************************************************)
(* The scheduler of ordo-jobs as its users may call it: it emits           *)
(* JobTriggered for the jobs that are due and is told by someone else how  *)
(* a run went.  Every call is one step (the scheduler is used under one    *)
(* lock).                                                                  *)
(***************************************************************************)
EXTENDS Jobs

CONSTANTS
  JobIds,
  Offered,    \* the kinds of job that are registered: pairs [type, trigger]
  Toggled     \* TRUE: enable and disable are called as well

ASSUME JobSchedulerAssumption ==
  Offered \subseteq [type : JobTypes, trigger : Triggers] /\ Toggled \in BOOLEAN

MaxRuns == 2   \* runs of a job that are told apart

VARIABLES
  jobs,       \* the map
  runs,       \* runs of each job that were triggered and not reported yet
  fired,      \* the jobs of the events the last call returned
  resumed,    \* history: enabled while a run was under way
  elapsed     \* history: since the last trigger its interval passed or its run failed

vars == <<jobs, runs, fired, resumed, elapsed>>

Init ==
  /\ jobs = [i \in JobIds |-> None] /\ runs = [i \in JobIds |-> 0]
  /\ fired = {} /\ resumed = {} /\ elapsed = JobIds

Register(i) ==
  /\ ~Has(jobs, i) /\ runs[i] = 0
  /\ \E o \in Offered, past \in BOOLEAN :
       jobs' = [jobs EXCEPT ![i] = NewJob(o.type, o.trigger, past)]
  /\ fired' = {} /\ resumed' = resumed \ {i} /\ elapsed' = elapsed \union {i}
  /\ UNCHANGED runs

Remove(i) ==
  /\ Has(jobs, i)
  /\ jobs' = [jobs EXCEPT ![i] = None] /\ fired' = {}
  /\ UNCHANGED <<runs, resumed, elapsed>>

Enable(i) ==
  /\ Toggled /\ Has(jobs, i)
  /\ jobs' = [jobs EXCEPT ![i] = Resumed(@)] /\ fired' = {}
  /\ resumed' = IF runs[i] > 0 THEN resumed \union {i} ELSE resumed
  /\ UNCHANGED <<runs, elapsed>>

Disable(i) ==
  /\ Toggled /\ Has(jobs, i)
  /\ jobs' = [jobs EXCEPT ![i] = Stopped(@)] /\ fired' = {}
  /\ UNCHANGED <<runs, resumed, elapsed>>

\* JobTriggered for the jobs of S.
Trigger(S) ==
  /\ jobs' = StartAll(jobs, S) /\ fired' = S
  /\ runs' = [i \in JobIds |-> IF i \in S /\ runs[i] < MaxRuns THEN runs[i] + 1 ELSE runs[i]]
  /\ elapsed' = elapsed \ S /\ UNCHANGED resumed

Tick == Trigger(DueIn(jobs))
FireEvent == Trigger(WaitingFor(jobs, "event"))

\* PathChanged changes no job.
NotifyPath == fired' = WaitingFor(jobs, "watch") /\ UNCHANGED <<jobs, runs, resumed, elapsed>>

\* mark_completed, mark_failed.
Report(i, ok) ==
  /\ runs[i] > 0 /\ runs' = [runs EXCEPT ![i] = @ - 1]
  /\ jobs' = IF ~Has(jobs, i) THEN jobs
             ELSE [jobs EXCEPT ![i] = IF ok THEN Completed(@) ELSE Errored(@)]
  /\ fired' = {}
  /\ elapsed' = IF ok THEN elapsed ELSE elapsed \union {i}
  /\ UNCHANGED resumed

Elapse(i) ==
  /\ Has(jobs, i)
  /\ jobs' = [jobs EXCEPT ![i] = Reached(@)]
  /\ elapsed' = elapsed \union {i} /\ fired' = {}
  /\ UNCHANGED <<runs, resumed>>

Next ==
  \/ Tick \/ FireEvent \/ NotifyPath
  \/ \E i \in JobIds :
       \/ Register(i) \/ Remove(i) \/ Enable(i) \/ Disable(i) \/ Elapse(i)
       \/ \E ok \in BOOLEAN : Report(i, ok)

Spec == Init /\ [][Next]_vars

-----------------------------------------------------------------------------
(* Properties.                                                             *)

TypeOK ==
  /\ jobs \in [JobIds -> Job \union {None}] /\ runs \in [JobIds -> 0..MaxRuns]
  /\ fired \subseteq JobIds /\ resumed \subseteq JobIds /\ elapsed \subseteq JobIds

\* A job is not triggered while a run of it is under way (status Running is
\* what tick looks at), unless it was enabled meanwhile.
OneRunAtATime == \A i \in JobIds : runs[i] > 1 => i \in resumed

\* "Interval: Run every N duration" (jobs lib.rs:122): the duration passes
\* between one trigger and the next, unless the run between them failed (then
\* the next tick tries again) or was called a second time by enable.
IntervalKept ==
  [][\A i \in fired' :
       jobs[i].trigger = "interval" => i \in elapsed \union resumed]_vars
=============================================================================
