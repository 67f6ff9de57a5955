----------------------------- MODULE Automation -----------------------------
(***************************************************************************)
(* AutomationOrchestrator (ordo-automation) behind the control API's       *)
(* routes: specs, the jobs they are scheduled as, and automations.json.    *)
(* A route locks the orchestrator, changes it, unlocks, then locks again   *)
(* and writes the file.  Nothing in the repository reports how a job went: *)
(* JobScheduler's mark_completed and mark_failed are not called.           *)
(***************************************************************************)
EXTENDS Jobs, FiniteSets

CONSTANTS
  Autos, JobIds, Callers,
  Kind,           \* the trigger of each automation
  NeedsApproval,  \* spec.requires_approval(), per automation
  Seeds,          \* the default automations
  Ops,            \* the operations the callers use
  MaxBoots, MaxFails

AllOps == {"register", "approve", "enable", "disable", "delete", "fire"}
Kinds == {"at", "interval", "cron", "event", "manual"}
SpecOf == [enabled : BOOLEAN, approved : BOOLEAN]

ASSUME AutomationAssumption ==
  /\ Kind \in [Autos -> Kinds] /\ NeedsApproval \in [Autos -> BOOLEAN]
  /\ Seeds \subseteq Autos /\ \A a \in Seeds : ~NeedsApproval[a]
  /\ Ops \subseteq AllOps
  /\ MaxBoots \in Nat /\ MaxFails \in Nat
  /\ None \notin Autos \union JobIds \union SpecOf \union Job
  /\ IsFiniteSet(JobIds) /\ IsFiniteSet(Autos) /\ Cardinality(JobIds) > Cardinality(Autos)

VARIABLES
  specs,      \* per automation: a spec, or None
  jobOf,      \* jobs_by_automation
  autoOf,     \* automations_by_job
  jobs,       \* the scheduler's map
  file,       \* the specs the last write that ended put into automations.json, or None
  torn,       \* a write began since and did not end: the file is empty or cut off
  pc,         \* per caller: "idle", "persist" or "writing"
  past,       \* the automations whose At time has passed
  boots, fails,
  fired       \* the automations of the Triggered events the last call returned

sched == <<jobOf, autoOf, jobs>>
store == <<file, torn>>
vars == <<specs, sched, store, pc, past, boots, fails, fired>>

Defaults ==
  [a \in Autos |-> IF a \in Seeds THEN [enabled |-> TRUE, approved |-> FALSE] ELSE None]

-----------------------------------------------------------------------------
(* Scheduling.                                                             *)

JobFor(a) ==
  CASE Kind[a] = "at" -> NewJob("OneShot", "at", a \in past)
    [] Kind[a] = "manual" -> NewJob("OneShot", "event", FALSE)
    [] Kind[a] = "interval" -> NewJob("Recurring", "interval", FALSE)
    [] Kind[a] = "cron" -> NewJob("Recurring", "condition", FALSE)
    [] Kind[a] = "event" -> NewJob("EventDriven", "event", FALSE)

\* register: whether the spec has to wait for approve.
NoGate(a, spec) == FALSE                         \* (mutant) risk is not looked at
Waits(a, spec) == NeedsApproval[a] /\ ~spec.approved

\* The map without the job of automation a.
Without(f, a) == IF jobOf[a] = None THEN f ELSE [f EXCEPT ![jobOf[a]] = None]

FreshId == CHOOSE i \in JobIds : jobs[i] = None

KeepsOldJob(a, spec) ==       \* (mutant) the job that is replaced stays in the scheduler
  IF ~spec.enabled THEN UNCHANGED sched
  ELSE \E j \in {FreshId} :
         /\ jobOf' = [jobOf EXCEPT ![a] = j]
         /\ autoOf' = [autoOf EXCEPT ![j] = a]
         /\ jobs' = [jobs EXCEPT ![j] = JobFor(a)]

\* register_job_for_spec: nothing for a disabled spec, else a fresh job
\* replaces the one the automation has.
Schedule(a, spec) ==
  IF ~spec.enabled THEN UNCHANGED sched
  ELSE \E j \in {FreshId} :
         /\ jobOf' = [jobOf EXCEPT ![a] = j]
         /\ autoOf' = [Without(autoOf, a) EXCEPT ![j] = a]
         /\ jobs' = [Without(jobs, a) EXCEPT ![j] = JobFor(a)]

\* from_specs: every spec is registered again.  What that makes of the three
\* maps when the specs of on get a job: fresh ids, one each.
Ids(on) == CHOOSE f \in [on -> JobIds] : \A a, b \in on : a # b => f[a] # f[b]
JobOf(on) == [a \in Autos |-> IF a \in on THEN Ids(on)[a] ELSE None]
AutoOf(on) ==
  [j \in JobIds |-> IF \E a \in on : Ids(on)[a] = j THEN CHOOSE a \in on : Ids(on)[a] = j ELSE None]
JobsOf(on) ==
  [j \in JobIds |-> IF AutoOf(on)[j] = None THEN None ELSE JobFor(AutoOf(on)[j])]

Loaded(sp) ==
  LET on == {a \in Autos : sp[a] # None /\ sp[a].enabled /\ ~Waits(a, sp[a])}
  IN specs' = sp /\ jobOf' = JobOf(on) /\ autoOf' = AutoOf(on) /\ jobs' = JobsOf(on)

Init ==
  /\ past = {}
  /\ jobOf = JobOf(Seeds) /\ autoOf = AutoOf(Seeds) /\ jobs = JobsOf(Seeds)
  /\ specs = Defaults /\ file = None /\ torn = FALSE
  /\ pc = [c \in Callers |-> "idle"] /\ boots = 0 /\ fails = 0
  /\ fired = {}

-----------------------------------------------------------------------------
(* The routes.                                                             *)

Free == \A c \in Callers : pc[c] # "writing"   \* nobody holds the lock

Call(c) ==
  /\ pc[c] = "idle" /\ Free /\ pc' = [pc EXCEPT ![c] = "persist"]
  /\ fired' = {} /\ UNCHANGED <<store, boots, fails>>

\* The spec is the client's, with the approval it says it has.
Register(c, a) ==
  /\ "register" \in Ops /\ Call(c) /\ specs[a] = None
  /\ past' = past \ {a}
  /\ \E spec \in SpecOf :
       /\ specs' = [specs EXCEPT ![a] = spec]
       /\ IF Waits(a, spec) THEN UNCHANGED sched ELSE Schedule(a, spec)

Approve(c, a) ==
  /\ "approve" \in Ops /\ Call(c) /\ specs[a] # None
  /\ specs' = [specs EXCEPT ![a].approved = TRUE]
  /\ Schedule(a, specs[a])
  /\ UNCHANGED past

Enable(c, a) ==
  /\ "enable" \in Ops /\ Call(c) /\ specs[a] # None
  /\ specs' = [specs EXCEPT ![a].enabled = TRUE]
  /\ jobs' = IF jobOf[a] = None THEN jobs ELSE [jobs EXCEPT ![jobOf[a]] = Resumed(@)]
  /\ UNCHANGED <<jobOf, autoOf, past>>

StopJob(a) == jobs' = IF jobOf[a] = None THEN jobs ELSE [jobs EXCEPT ![jobOf[a]] = Stopped(@)]

Disable(c, a) ==
  /\ "disable" \in Ops /\ Call(c) /\ specs[a] # None
  /\ specs' = [specs EXCEPT ![a].enabled = FALSE]
  /\ StopJob(a)
  /\ UNCHANGED <<jobOf, autoOf, past>>

Delete(c, a) ==
  /\ "delete" \in Ops /\ Call(c) /\ specs[a] # None
  /\ specs' = [specs EXCEPT ![a] = None]
  /\ jobOf' = [jobOf EXCEPT ![a] = None]
  /\ autoOf' = Without(autoOf, a) /\ jobs' = Without(jobs, a)
  /\ UNCHANGED past

\* translate_job_event drops the events of jobs that belong to no automation.
Emit(js) ==
  /\ Free /\ jobs' = StartAll(jobs, js)
  /\ fired' = {a \in Autos : specs[a] # None /\ \E j \in js : autoOf[j] = a}
  /\ UNCHANGED <<specs, jobOf, autoOf, store, pc, past, boots, fails>>

Tick == Emit(DueIn(jobs))

FireEvent(k) ==
  /\ "fire" \in Ops
  /\ Emit({j \in WaitingFor(jobs, "event") : \E a \in Autos : autoOf[j] = a /\ Kind[a] = k})

-----------------------------------------------------------------------------
(* persist_automations: the specs are read and written under the lock, by  *)
(* fs::write, which empties the file first.                                *)

Persist(c) ==
  /\ pc[c] = "persist" /\ Free
  /\ pc' = [pc EXCEPT ![c] = "writing"] /\ torn' = TRUE /\ fired' = {}
  /\ UNCHANGED <<specs, sched, file, past, boots, fails>>

WritesOldSpecs == file' = IF file = None THEN Defaults ELSE file   \* (mutant)
WriteSpecs == file' = specs

Written(c) ==
  /\ pc[c] = "writing"
  /\ pc' = [pc EXCEPT ![c] = "idle"] /\ torn' = FALSE /\ fired' = {}
  /\ WriteSpecs
  /\ UNCHANGED <<specs, sched, past, boots, fails>>

\* The route answers with an error; what it changed in memory stays, and the
\* file is what it was, or cut off.
PersistFails(c) ==
  /\ fails < MaxFails /\ fails' = fails + 1
  /\ \/ pc[c] = "persist" /\ Free
     \/ pc[c] = "writing"
  /\ pc' = [pc EXCEPT ![c] = "idle"] /\ fired' = {}
  /\ UNCHANGED <<specs, sched, store, past, boots>>

\* A file that is empty or cut off does not parse: the defaults are seeded.
Reboot ==
  /\ boots < MaxBoots /\ boots' = boots + 1
  /\ Loaded(IF torn \/ file = None THEN Defaults ELSE file)
  /\ pc' = [c \in Callers |-> "idle"] /\ fired' = {}
  /\ UNCHANGED <<store, past, fails>>

\* An At time passes.
Elapse(a) ==
  /\ Kind[a] = "at" /\ specs[a] # None /\ a \notin past
  /\ past' = past \union {a} /\ fired' = {}
  /\ jobs' = IF jobOf[a] = None THEN jobs ELSE [jobs EXCEPT ![jobOf[a]] = Reached(@)]
  /\ UNCHANGED <<specs, jobOf, autoOf, store, pc, boots, fails>>

Route(c, a) ==
  Register(c, a) \/ Approve(c, a) \/ Enable(c, a) \/ Disable(c, a) \/ Delete(c, a)
Save(c) == Persist(c) \/ Written(c) \/ PersistFails(c)

Next ==
  \/ \E c \in Callers : Save(c) \/ \E a \in Autos : Route(c, a)
  \/ Tick \/ \E k \in {"event", "manual"} : FireEvent(k)
  \/ Reboot \/ \E a \in Autos : Elapse(a)

Spec == Init /\ [][Next]_vars

-----------------------------------------------------------------------------
(* Properties.                                                             *)

TypeOK ==
  /\ specs \in [Autos -> SpecOf \union {None}]
  /\ jobOf \in [Autos -> JobIds \union {None}]
  /\ autoOf \in [JobIds -> Autos \union {None}]
  /\ jobs \in [JobIds -> Job \union {None}]
  /\ file \in [Autos -> SpecOf \union {None}] \union {None} /\ torn \in BOOLEAN
  /\ pc \in [Callers -> {"idle", "persist", "writing"}]
  /\ past \subseteq Autos /\ fired \subseteq Autos
  /\ boots \in 0..MaxBoots /\ fails \in 0..MaxFails

\* The two maps of the orchestrator and the scheduler's map agree, whatever
\* is replaced, deleted and loaded: no job without its automation, none twice.
MapsAgree ==
  /\ \A a \in Autos : jobOf[a] # None =>
       specs[a] # None /\ autoOf[jobOf[a]] = a /\ jobs[jobOf[a]] # None
  /\ \A j \in JobIds : jobs[j] # None => autoOf[j] # None /\ jobOf[autoOf[j]] = j

\* What is triggered is enabled and, if it needs approval, approved: by approve,
\* or by the spec it was created with (the gate of register takes the client's
\* word).  Also after it was edited (deleted and created again), disabled or loaded.
OnlyAllowedRuns ==
  \A a \in fired : specs[a].enabled /\ (NeedsApproval[a] => specs[a].approved)

\* When no call is under way and every write ended, the file holds the specs the
\* orchestrator has.
SettledFile ==
  (file # None /\ ~torn /\ fails = 0 /\ \A c \in Callers : pc[c] = "idle") => file = specs

=============================================================================
