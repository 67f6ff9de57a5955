------------------------- MODULE JobSchedulerProofs -------------------------
(***************************************************************************)
(* Proofs about JobScheduler, for any set of jobs and any kinds of job.    *)
(***************************************************************************)
EXTENDS JobScheduler, TLAPS

\* A job with a run that was not reported is not Enabled, unless it was enabled
\* while it ran: this is what keeps tick and fire_event from starting it again.
BusyIsNotEnabled ==
  \A i \in JobIds : runs[i] > 0 /\ i \notin resumed /\ Has(jobs, i) =>
    jobs[i].status # "Enabled"

\* A job without a run whose moment has come was given the time for it.
TimeHasPassed ==
  \A i \in JobIds :
    Has(jobs, i) /\ jobs[i].trigger = "interval" /\ jobs[i].wait # "later"
    /\ runs[i] = 0 /\ i \notin resumed => i \in elapsed

IInv == TypeOK /\ OneRunAtATime /\ BusyIsNotEnabled /\ TimeHasPassed

-----------------------------------------------------------------------------
(* What the operators on jobs return.                                      *)

LEMMA NewJobType ==
  ASSUME NEW o \in Offered, NEW past \in BOOLEAN
  PROVE  NewJob(o.type, o.trigger, past) \in Job
BY JobSchedulerAssumption DEF NewJob, Job

LEMMA JobSteps ==
  ASSUME NEW job \in Job
  PROVE  /\ Started(job) \in Job
         /\ Resumed(job) \in Job
         /\ Stopped(job) \in Job /\ Stopped(job).status = "Disabled"
         /\ Stopped(job).trigger = job.trigger /\ Stopped(job).wait = job.wait
         /\ Started(job).status = "Running"
         /\ Resumed(job).trigger = job.trigger /\ Resumed(job).wait = job.wait
         /\ Completed(job) \in Job /\ Completed(job).trigger = job.trigger
         /\ job.trigger = "interval" => Completed(job).wait = "later"
         /\ Errored(job) \in Job
         /\ Reached(job) \in Job /\ Reached(job).status = job.status
BY DEF Job, Started, Resumed, Stopped, Completed, Errored, Reached

\* tick and fire_event start jobs that are there and Enabled.
LEMMA DueIsEnabled ==
  ASSUME TypeOK
  PROVE  /\ \A i \in DueIn(jobs) : i \in JobIds /\ Has(jobs, i) /\ IsDue(jobs[i])
         /\ \A t : \A i \in WaitingFor(jobs, t) :
              i \in JobIds /\ Has(jobs, i) /\ jobs[i].trigger = t /\ jobs[i].status = "Enabled"
BY DEF DueIn, WaitingFor, TypeOK

LEMMA TriggerStep ==
  ASSUME IInv, NEW S \in SUBSET JobIds, Trigger(S),
         \A i \in S : Has(jobs, i) /\ jobs[i].status = "Enabled"
  PROVE  IInv'
<1> USE DEF IInv, TypeOK, Has
<1>1. \A i \in S : jobs[i] \in Job
  OBVIOUS
<1>2. \A i \in S : jobs'[i] = Started(jobs[i])
  BY DEF Trigger, StartAll
<1>3. \A i \in JobIds \ S : jobs'[i] = jobs[i]
  BY DEF Trigger, StartAll
<1>4. TypeOK'
  <2>1. jobs' \in [JobIds -> Job \union {None}]
    BY <1>1, JobSteps DEF Trigger, StartAll
  <2>2. runs' \in [JobIds -> 0..MaxRuns]
    BY DEF Trigger, MaxRuns
  <2> QED BY <2>1, <2>2 DEF Trigger
<1>5. \A i \in S : jobs'[i].status = "Running"
  BY <1>1, <1>2, JobSteps
<1>6. \A i \in S : i \notin resumed => runs[i] = 0
  BY DEF BusyIsNotEnabled, MaxRuns
<1>7. \A i \in JobIds : runs'[i] = IF i \in S /\ runs[i] < MaxRuns THEN runs[i] + 1 ELSE runs[i]
  BY DEF Trigger
<1>8. resumed' = resumed /\ elapsed' = elapsed \ S
  BY DEF Trigger
<1>9. OneRunAtATime'
  BY <1>6, <1>7, <1>8 DEF OneRunAtATime, MaxRuns
<1>10. BusyIsNotEnabled'
  BY <1>3, <1>5, <1>7, <1>8 DEF BusyIsNotEnabled
<1>11. TimeHasPassed'
  BY <1>3, <1>7, <1>8 DEF TimeHasPassed, MaxRuns
<1> QED BY <1>4, <1>9, <1>10, <1>11

LEMMA IStep ==
  ASSUME IInv, [Next]_vars
  PROVE  IInv'
<1> USE DEF IInv
<1>1. CASE Tick
  BY <1>1, DueIsEnabled, TriggerStep DEF Tick, IsDue
<1>2. CASE FireEvent
  BY <1>2, DueIsEnabled, TriggerStep DEF FireEvent
<1>3. CASE NotifyPath
  BY <1>3, DueIsEnabled
  DEF NotifyPath, TypeOK, OneRunAtATime, BusyIsNotEnabled, TimeHasPassed, Has
<1>4. ASSUME NEW i \in JobIds, Register(i) PROVE IInv'
  <2>1. PICK o \in Offered, past \in BOOLEAN :
          jobs' = [jobs EXCEPT ![i] = NewJob(o.type, o.trigger, past)]
    BY <1>4 DEF Register
  <2> QED BY <1>4, <2>1, NewJobType
    DEF Register, TypeOK, OneRunAtATime, BusyIsNotEnabled, TimeHasPassed, Has, MaxRuns
<1>5. ASSUME NEW i \in JobIds, Remove(i) PROVE IInv'
  BY <1>5 DEF Remove, TypeOK, OneRunAtATime, BusyIsNotEnabled, TimeHasPassed, Has
<1>6. ASSUME NEW i \in JobIds, Enable(i) PROVE IInv'
  <2>1. jobs[i] \in Job /\ jobs' = [jobs EXCEPT ![i] = Resumed(jobs[i])]
    BY <1>6 DEF Enable, TypeOK, Has
  <2> QED BY <1>6, <2>1, JobSteps
    DEF Enable, TypeOK, OneRunAtATime, BusyIsNotEnabled, TimeHasPassed, Has, MaxRuns
<1>7. ASSUME NEW i \in JobIds, Disable(i) PROVE IInv'
  <2>1. jobs[i] \in Job /\ jobs' = [jobs EXCEPT ![i] = Stopped(jobs[i])]
    BY <1>7 DEF Disable, TypeOK, Has
  <2> QED BY <1>7, <2>1, JobSteps
    DEF Disable, TypeOK, OneRunAtATime, BusyIsNotEnabled, TimeHasPassed, Has, MaxRuns
<1>8. ASSUME NEW i \in JobIds, Elapse(i) PROVE IInv'
  <2>1. jobs[i] \in Job /\ jobs' = [jobs EXCEPT ![i] = Reached(jobs[i])]
    BY <1>8 DEF Elapse, TypeOK, Has
  <2> QED BY <1>8, <2>1, JobSteps
    DEF Elapse, TypeOK, OneRunAtATime, BusyIsNotEnabled, TimeHasPassed, Has, MaxRuns
<1>9. ASSUME NEW i \in JobIds, NEW ok \in BOOLEAN, Report(i, ok) PROVE IInv'
  <2>1. CASE ~Has(jobs, i)
    BY <1>9, <2>1
    DEF Report, TypeOK, OneRunAtATime, BusyIsNotEnabled, TimeHasPassed, Has, MaxRuns
  <2>2. CASE Has(jobs, i)
    <3>1. jobs[i] \in Job
      BY <2>2 DEF TypeOK, Has
    <3>2. jobs' = [jobs EXCEPT ![i] = IF ok THEN Completed(jobs[i]) ELSE Errored(jobs[i])]
      BY <1>9, <2>2 DEF Report
    <3> QED BY <1>9, <2>2, <3>1, <3>2, JobSteps
      DEF Report, TypeOK, OneRunAtATime, BusyIsNotEnabled, TimeHasPassed, Has, MaxRuns
  <2> QED BY <2>1, <2>2
<1>10. CASE UNCHANGED vars
  BY <1>10 DEF vars, TypeOK, OneRunAtATime, BusyIsNotEnabled, TimeHasPassed, Has
<1> QED BY ONLY [Next]_vars, <1>1, <1>2, <1>3, <1>4, <1>5, <1>6, <1>7, <1>8, <1>9, <1>10 DEF Next

\* Types, one run at a time and the time between runs, by one induction.
THEOREM Inductive == Spec => []IInv
<1>1. Init => IInv
  BY DEF Init, IInv, TypeOK, OneRunAtATime, BusyIsNotEnabled, TimeHasPassed, Has, MaxRuns
<1>2. IInv /\ [Next]_vars => IInv'
  BY IStep
<1> QED BY <1>1, <1>2, PTL DEF Spec

\* The map, the runs and the histories keep their shape, for any set of jobs.
THEOREM TypeCorrect == Spec => []TypeOK
BY Inductive, PTL DEF IInv

\* Whatever is removed, registered again, disabled and reported late, two runs of
\* a job are under way only if somebody enabled it during the first.
THEOREM OneRun == Spec => []OneRunAtATime
BY Inductive, PTL DEF IInv

\* A trigger of an interval job comes after its duration, a failed run, or an
\* enable during a run.
THEOREM IntervalsKept == Spec => IntervalKept
<1> DEFINE Kept == \A i \in fired' : jobs[i].trigger = "interval" => i \in elapsed \union resumed
<1>1. IInv /\ [Next]_vars => [Kept]_vars
  <2> SUFFICES ASSUME IInv, Next PROVE Kept
    OBVIOUS
  <2> USE DEF IInv
  <2>1. CASE Tick
    <3> SUFFICES ASSUME NEW i \in DueIn(jobs), jobs[i].trigger = "interval", i \notin resumed
                 PROVE  i \in elapsed
      BY <2>1 DEF Tick, Trigger
    <3>1. i \in JobIds /\ Has(jobs, i) /\ jobs[i].status = "Enabled" /\ jobs[i].wait # "later"
      BY DueIsEnabled DEF IsDue
    <3>2. runs[i] = 0
      BY <3>1 DEF BusyIsNotEnabled, TypeOK, MaxRuns
    <3> QED BY <3>1, <3>2 DEF TimeHasPassed
  <2>2. CASE FireEvent
    BY <2>2, DueIsEnabled DEF FireEvent, Trigger
  <2>3. CASE NotifyPath
    BY <2>3, DueIsEnabled DEF NotifyPath
  <2>4. CASE fired' = {}
    BY <2>4
  <2> QED BY <2>1, <2>2, <2>3, <2>4 DEF Next, Register, Remove, Enable, Disable, Elapse, Report
<1> QED BY <1>1, Inductive, PTL DEF Spec, IntervalKept
=============================================================================
