-------------------------- MODULE AutomationProofs --------------------------
(***************************************************************************)
(* Proofs about Automation, for any automations, callers and bounds.       *)
(***************************************************************************)
EXTENDS Automation, FiniteSetTheorems, TLAPS

\* A job exists only for an automation that may run, and is Enabled only while
\* the automation is.
JobsAllowed ==
  \A a \in Autos : jobOf[a] # None =>
    /\ NeedsApproval[a] => specs[a].approved
    /\ jobs[jobOf[a]].status = "Enabled" => specs[a].enabled

IInv == TypeOK /\ MapsAgree /\ JobsAllowed /\ OnlyAllowedRuns /\ SettledFile

-----------------------------------------------------------------------------
(* There are more job ids than automations, so ids are there to be chosen. *)

LEMMA IdsAreThere ==
  ASSUME NEW on \in SUBSET Autos
  PROVE  \E f \in [on -> JobIds] : \A a, b \in on : a # b => f[a] # f[b]
<1> DEFINE n == Cardinality(Autos)
           m == Cardinality(JobIds)
<1>1. n \in Nat /\ m \in Nat /\ n < m
  BY AutomationAssumption, FS_CardinalityType
<1>2. PICK h \in Bijection(1..n, Autos) : TRUE
  BY AutomationAssumption, FS_CardinalityType DEF ExistsBijection
<1>3. PICK g \in Bijection(1..m, JobIds) : TRUE
  BY AutomationAssumption, FS_CardinalityType DEF ExistsBijection
<1>4. /\ h \in [1..n -> Autos] /\ \A a \in Autos : \E i \in 1..n : h[i] = a
      /\ g \in [1..m -> JobIds] /\ \A i, j \in 1..m : g[i] = g[j] => i = j
  BY <1>2, <1>3 DEF Bijection, Injection, Surjection, IsInjective
<1> DEFINE at(a) == CHOOSE i \in 1..n : h[i] = a
<1>5. \A a \in on : at(a) \in 1..n /\ h[at(a)] = a
  BY <1>4
<1>6. \A a \in on : at(a) \in 1..m
  BY <1>1, <1>5
<1> DEFINE f == [a \in on |-> g[at(a)]]
<1> HIDE DEF at
<1>7. f \in [on -> JobIds]
  BY <1>4, <1>6
<1>8. \A a, b \in on : a # b => f[a] # f[b]
  BY <1>4, <1>5, <1>6
<1> HIDE DEF f
<1> QED BY <1>7, <1>8

LEMMA FreshIdIsFree ==
  ASSUME TypeOK, MapsAgree
  PROVE  FreshId \in JobIds /\ jobs[FreshId] = None
<1>1. SUFFICES \E i \in JobIds : jobs[i] = None
  BY DEF FreshId
<1> SUFFICES ASSUME \A i \in JobIds : jobs[i] # None PROVE FALSE
  OBVIOUS
<1>2. \A i \in JobIds : autoOf[i] \in Autos /\ jobOf[autoOf[i]] = i
  BY DEF TypeOK, MapsAgree
<1>3. autoOf \in [JobIds -> Autos]
  BY <1>2 DEF TypeOK
<1>4. Cardinality(Autos) < Cardinality(JobIds)
  BY AutomationAssumption, FS_CardinalityType
<1>5. \E x, y \in JobIds : x # y /\ autoOf[x] = autoOf[y]
  BY <1>3, <1>4, AutomationAssumption, FS_PigeonHole
<1> QED BY <1>2, <1>5

LEMMA JobForIsJob ==
  ASSUME NEW a \in Autos
  PROVE  JobFor(a) \in Job /\ JobFor(a) # None
<1>1. ASSUME NEW type \in JobTypes, NEW trigger \in Triggers, NEW p
      PROVE  NewJob(type, trigger, p) \in Job
  BY DEF NewJob, Job
<1>2. Kind[a] \in Kinds
  BY AutomationAssumption
<1>3. \/ JobFor(a) = NewJob("OneShot", "at", a \in past)
      \/ JobFor(a) = NewJob("OneShot", "event", FALSE)
      \/ JobFor(a) = NewJob("Recurring", "interval", FALSE)
      \/ JobFor(a) = NewJob("Recurring", "condition", FALSE)
      \/ JobFor(a) = NewJob("EventDriven", "event", FALSE)
  BY <1>2 DEF Kinds, JobFor
<1>4. JobFor(a) \in Job
  BY <1>1, <1>3 DEF JobTypes, Triggers
<1> QED BY <1>4, AutomationAssumption

LEMMA JobSteps ==
  ASSUME NEW job \in Job
  PROVE  /\ Started(job) \in Job /\ Started(job).status = "Running"
         /\ Resumed(job) \in Job
         /\ Stopped(job) \in Job /\ Stopped(job).status = "Disabled"
         /\ Reached(job) \in Job /\ Reached(job).status = job.status
BY DEF Job, Started, Resumed, Stopped, Reached

\* What from_specs makes: types, maps that agree, and a job for exactly the
\* automations of on.
LEMMA FreshMaps ==
  ASSUME NEW on \in SUBSET Autos
  PROVE  /\ JobOf(on) \in [Autos -> JobIds \union {None}]
         /\ AutoOf(on) \in [JobIds -> Autos \union {None}]
         /\ JobsOf(on) \in [JobIds -> Job \union {None}]
         /\ \A a \in Autos : JobOf(on)[a] # None =>
              /\ a \in on /\ AutoOf(on)[JobOf(on)[a]] = a /\ JobsOf(on)[JobOf(on)[a]] # None
         /\ \A j \in JobIds : JobsOf(on)[j] # None =>
              AutoOf(on)[j] # None /\ JobOf(on)[AutoOf(on)[j]] = j
<1> DEFINE f == Ids(on)
<1>1. f \in [on -> JobIds] /\ \A a, b \in on : a # b => f[a] # f[b]
  BY IdsAreThere DEF Ids
<1> HIDE DEF f
<1>2. JobOf(on) = [a \in Autos |-> IF a \in on THEN f[a] ELSE None]
  BY DEF JobOf, f
<1> DEFINE Owner(j) == CHOOSE a \in on : f[a] = j
<1>3. AutoOf(on) = [j \in JobIds |-> IF \E a \in on : f[a] = j THEN Owner(j) ELSE None]
  BY DEF AutoOf, f
<1>4. ASSUME NEW j \in JobIds, \E a \in on : f[a] = j
      PROVE  Owner(j) \in on /\ f[Owner(j)] = j
  BY <1>4
<1>5. \A a \in on : Owner(f[a]) = a
  BY <1>1, <1>4
<1> HIDE DEF Owner
<1>6. \A a \in on : a \in Autos /\ a # None /\ f[a] # None
  BY <1>1, AutomationAssumption
<1>7. JobOf(on) \in [Autos -> JobIds \union {None}]
  BY <1>1, <1>2
<1>8. AutoOf(on) \in [JobIds -> Autos \union {None}]
  BY <1>3, <1>4
<1>9. JobsOf(on) \in [JobIds -> Job \union {None}]
  BY <1>8, JobForIsJob DEF JobsOf
<1>10. \A j \in JobIds : JobsOf(on)[j] # None <=> AutoOf(on)[j] # None
  BY <1>8, JobForIsJob DEF JobsOf
<1>11. \A a \in on : AutoOf(on)[f[a]] = a
  BY <1>1, <1>3, <1>5
<1>12. ASSUME NEW a \in Autos, JobOf(on)[a] # None
       PROVE  a \in on /\ AutoOf(on)[JobOf(on)[a]] = a /\ JobsOf(on)[JobOf(on)[a]] # None
  <2>1. a \in on /\ JobOf(on)[a] = f[a] /\ f[a] \in JobIds
    BY <1>1, <1>2, <1>12
  <2> QED BY <2>1, <1>6, <1>10, <1>11
<1>13. ASSUME NEW j \in JobIds, JobsOf(on)[j] # None
       PROVE  AutoOf(on)[j] # None /\ JobOf(on)[AutoOf(on)[j]] = j
  <2>1. AutoOf(on)[j] # None
    BY <1>10, <1>13
  <2>2. \E a \in on : f[a] = j
    BY <1>3, <2>1
  <2>3. AutoOf(on)[j] \in on /\ f[AutoOf(on)[j]] = j
    BY <1>3, <1>4, <2>2
  <2> QED BY <1>2, <2>1, <2>3
<1> QED BY <1>7, <1>8, <1>9, <1>12, <1>13

-----------------------------------------------------------------------------
(* The parts of a step: what happens to the three maps.                    *)

Maps == MapsAgree /\ JobsAllowed
MapTypes ==
  /\ specs \in [Autos -> SpecOf \union {None}]
  /\ jobOf \in [Autos -> JobIds \union {None}]
  /\ autoOf \in [JobIds -> Autos \union {None}]
  /\ jobs \in [JobIds -> Job \union {None}]

\* A job replaced by a fresh one, for an automation that may run.
LEMMA ScheduleStep ==
  ASSUME TypeOK, Maps, NEW a \in Autos, NEW spec \in SpecOf, NEW new \in SpecOf,
         specs' = [specs EXCEPT ![a] = new], Schedule(a, spec),
         spec.enabled => new.enabled, NeedsApproval[a] => new.approved,
         ~spec.enabled /\ jobOf[a] # None => specs[a] # None /\ specs[a].enabled = new.enabled
  PROVE  MapTypes' /\ Maps'
<1>1. specs' \in [Autos -> SpecOf \union {None}]
  BY DEF TypeOK
<1>2. new # None
  BY AutomationAssumption
<1>3. CASE ~spec.enabled
  <2>1. UNCHANGED <<jobOf, autoOf, jobs>>
    BY <1>3 DEF Schedule, sched
  <2> QED BY <1>1, <1>2, <1>3, <2>1 DEF TypeOK, MapTypes, Maps, MapsAgree, JobsAllowed
<1>4. CASE spec.enabled
  <2> DEFINE j == FreshId
             old == jobOf[a]
  <2>1. /\ jobOf' = [jobOf EXCEPT ![a] = j]
        /\ autoOf' = [Without(autoOf, a) EXCEPT ![j] = a]
        /\ jobs' = [Without(jobs, a) EXCEPT ![j] = JobFor(a)]
    BY <1>4 DEF Schedule
  <2>2. j \in JobIds /\ jobs[j] = None
    BY FreshIdIsFree DEF Maps
  <2> HIDE DEF j
  <2>3. old # None => old \in JobIds /\ old # j
    BY <2>2 DEF TypeOK, Maps, MapsAgree
  <2>4. \A i \in JobIds : autoOf'[i] = IF i = j THEN a ELSE IF i = old THEN None ELSE autoOf[i]
    BY <2>1, <2>2, <2>3, AutomationAssumption DEF Without, TypeOK
  <2>5. \A i \in JobIds : jobs'[i] = IF i = j THEN JobFor(a) ELSE IF i = old THEN None ELSE jobs[i]
    BY <2>1, <2>2, <2>3, AutomationAssumption DEF Without, TypeOK
  <2>6. \A b \in Autos : jobOf'[b] = IF b = a THEN j ELSE jobOf[b]
    BY <2>1 DEF TypeOK
  <2>7. MapTypes'
    BY <1>1, <2>1, <2>2, <2>3, JobForIsJob DEF TypeOK, MapTypes, Without
  <2>8. a # None /\ j # None /\ JobFor(a) # None
    BY <2>2, JobForIsJob, AutomationAssumption
  <2>9. \A b \in Autos \ {a} : jobOf[b] # None => jobOf[b] \in JobIds /\ jobOf[b] # j /\ jobOf[b] # old
    BY <2>2 DEF TypeOK, Maps, MapsAgree
  <2>10. \A b \in Autos : specs'[b] = IF b = a THEN new ELSE specs[b]
    BY DEF TypeOK
  <2>11. MapsAgree'
    <3>1. \A b \in Autos : jobOf'[b] # None =>
            specs'[b] # None /\ autoOf'[jobOf'[b]] = b /\ jobs'[jobOf'[b]] # None
      BY <1>2, <2>2, <2>4, <2>5, <2>6, <2>8, <2>9, <2>10 DEF TypeOK, Maps, MapsAgree
    <3>2. ASSUME NEW i \in JobIds, jobs'[i] # None
          PROVE  autoOf'[i] # None /\ jobOf'[autoOf'[i]] = i
      <4>1. CASE i = j
        BY <2>4, <2>6, <2>8, <4>1
      <4>2. CASE i # j
        <5>1. i # old /\ jobs[i] # None
          BY <2>5, <3>2, <4>2
        <5>2. autoOf[i] \in Autos /\ autoOf[i] # None /\ jobOf[autoOf[i]] = i
          BY <5>1 DEF TypeOK, Maps, MapsAgree
        <5>3. autoOf[i] # a
          BY <5>1, <5>2
        <5> QED BY <2>4, <2>6, <4>2, <5>1, <5>2, <5>3
      <4> QED BY <4>1, <4>2
    <3> QED BY <3>1, <3>2 DEF MapsAgree
  <2>12. JobsAllowed'
    BY <1>4, <2>2, <2>5, <2>6, <2>9, <2>10 DEF TypeOK, Maps, JobsAllowed
  <2> QED BY <2>7, <2>11, <2>12 DEF Maps
<1> QED BY <1>3, <1>4

\* Jobs that stay with their automations, but change their status.
LEMMA StatusStep ==
  ASSUME TypeOK, Maps, UNCHANGED <<jobOf, autoOf>>,
         jobs' \in [JobIds -> Job \union {None}], specs' \in [Autos -> SpecOf \union {None}],
         \A j \in JobIds : jobs'[j] = None <=> jobs[j] = None,
         \A a \in Autos : specs'[a] = None <=> specs[a] = None,
         \A a \in Autos : jobOf[a] # None /\ specs[a] # None =>
           /\ specs'[a].approved = specs[a].approved
           /\ jobs'[jobOf[a]].status = "Enabled" =>
                specs'[a].enabled \/ (jobs[jobOf[a]].status = "Enabled" /\ specs'[a].enabled = specs[a].enabled)
  PROVE  MapTypes' /\ Maps'
<1>1. MapTypes'
  BY DEF TypeOK, MapTypes
<1>2. MapsAgree'
  BY DEF TypeOK, Maps, MapsAgree
<1>3. JobsAllowed'
  BY DEF TypeOK, Maps, MapsAgree, JobsAllowed
<1> QED BY <1>1, <1>2, <1>3 DEF Maps
-----------------------------------------------------------------------------
(* The induction.                                                          *)

Rest ==
  /\ file \in [Autos -> SpecOf \union {None}] \union {None} /\ torn \in BOOLEAN
  /\ pc \in [Callers -> {"idle", "persist", "writing"}]
  /\ past \subseteq Autos /\ fired \subseteq Autos
  /\ boots \in 0..MaxBoots /\ fails \in 0..MaxFails

\* A call of a route leaves the file alone, and somebody is about to save.
LEMMA CallStep ==
  ASSUME IInv, NEW c \in Callers, Call(c), MapTypes', Maps', past' \subseteq Autos
  PROVE  IInv'
<1> USE DEF IInv, Call
<1>1. Rest'
  BY DEF TypeOK, Rest, store
<1>2. TypeOK'
  BY <1>1 DEF TypeOK, Rest, MapTypes
<1>3. pc'[c] = "persist"
  BY DEF TypeOK
<1> QED BY <1>2, <1>3 DEF store, Maps, OnlyAllowedRuns, SettledFile

LEMMA RouteStep ==
  ASSUME IInv, NEW c \in Callers, NEW a \in Autos, Route(c, a)
  PROVE  IInv'
<1> USE DEF IInv
<1>1. TypeOK /\ Maps /\ SpecOf = [enabled : BOOLEAN, approved : BOOLEAN]
  BY DEF Maps, SpecOf
<1>2. CASE Register(c, a)
  <2>1. PICK spec \in SpecOf :
          /\ specs' = [specs EXCEPT ![a] = spec]
          /\ IF Waits(a, spec) THEN UNCHANGED sched ELSE Schedule(a, spec)
    BY <1>2 DEF Register, SpecOf
  <2>2. specs[a] = None /\ jobOf[a] = None /\ spec # None /\ Call(c) /\ past' \subseteq Autos
    BY <1>2, AutomationAssumption DEF Register, MapsAgree, TypeOK
  <2>3. CASE Waits(a, spec)
    <3>1. UNCHANGED <<jobOf, autoOf, jobs>>
      BY <2>1, <2>3 DEF sched
    <3>2. MapTypes' /\ Maps'
      BY <1>1, <2>1, <2>2, <3>1 DEF TypeOK, MapTypes, Maps, MapsAgree, JobsAllowed
    <3> QED BY <2>2, <3>2, CallStep
  <2>4. CASE ~Waits(a, spec)
    <3>1. NeedsApproval[a] => spec.approved
      BY <2>4 DEF Waits
    <3>2. MapTypes' /\ Maps'
      BY <1>1, <2>1, <2>2, <2>4, <3>1, ScheduleStep
    <3> QED BY <2>2, <3>2, CallStep
  <2> QED BY <2>3, <2>4
<1>3. CASE Approve(c, a)
  <2> DEFINE new == [specs[a] EXCEPT !.approved = TRUE]
  <2>1. /\ specs[a] \in SpecOf /\ new \in SpecOf /\ new.approved /\ new.enabled = specs[a].enabled
        /\ specs' = [specs EXCEPT ![a] = new] /\ Schedule(a, specs[a])
        /\ specs[a] # None /\ Call(c) /\ past' \subseteq Autos
    BY <1>3 DEF Approve, TypeOK, SpecOf
  <2> HIDE DEF new
  <2>2. MapTypes' /\ Maps'
    BY <1>1, <2>1, ScheduleStep
  <2> QED BY <2>1, <2>2, CallStep
<1>4. CASE Enable(c, a)
  <2>1. /\ specs[a] \in SpecOf /\ specs[a] # None /\ Call(c) /\ past' \subseteq Autos
        /\ UNCHANGED <<jobOf, autoOf>>
        /\ specs' = [specs EXCEPT ![a] = [specs[a] EXCEPT !.enabled = TRUE]]
    BY <1>4 DEF Enable, TypeOK
  <2>2. jobOf[a] # None => jobOf[a] \in JobIds /\ jobs[jobOf[a]] \in Job
    BY DEF TypeOK, MapsAgree
  <2>3. /\ jobs' \in [JobIds -> Job \union {None}]
        /\ \A j \in JobIds : jobs'[j] = None <=> jobs[j] = None
        /\ \A j \in JobIds : j # jobOf[a] => jobs'[j] = jobs[j]
    BY <1>4, <2>2, JobSteps, AutomationAssumption DEF Enable, TypeOK
  <2>4. /\ specs' \in [Autos -> SpecOf \union {None}] /\ specs'[a].enabled
        /\ specs'[a].approved = specs[a].approved /\ specs'[a] # None
        /\ \A b \in Autos \ {a} : specs'[b] = specs[b]
    BY <2>1, AutomationAssumption, ZenonT(30) DEF TypeOK, SpecOf
  <2>5. \A b \in Autos \ {a} : jobOf[b] # None => jobs'[jobOf[b]] = jobs[jobOf[b]]
    BY <2>2, <2>3 DEF TypeOK, MapsAgree
  <2>6. MapTypes' /\ Maps'
    BY <1>1, <2>1, <2>3, <2>4, <2>5, StatusStep
  <2> QED BY <2>1, <2>6, CallStep
<1>5. CASE Disable(c, a)
  <2>1. /\ specs[a] \in SpecOf /\ specs[a] # None /\ Call(c) /\ past' \subseteq Autos
        /\ UNCHANGED <<jobOf, autoOf>>
        /\ specs' = [specs EXCEPT ![a] = [specs[a] EXCEPT !.enabled = FALSE]]
    BY <1>5 DEF Disable, TypeOK
  <2>2. jobOf[a] # None => jobOf[a] \in JobIds /\ jobs[jobOf[a]] \in Job
    BY DEF TypeOK, MapsAgree
  <2>3. /\ jobs' \in [JobIds -> Job \union {None}]
        /\ \A j \in JobIds : jobs'[j] = None <=> jobs[j] = None
        /\ \A j \in JobIds : j # jobOf[a] => jobs'[j] = jobs[j]
        /\ jobOf[a] # None => jobs'[jobOf[a]].status = "Disabled"
    BY <1>5, <2>2, JobSteps, AutomationAssumption DEF Disable, StopJob, TypeOK
  <2>4. /\ specs' \in [Autos -> SpecOf \union {None}]
        /\ specs'[a].approved = specs[a].approved /\ specs'[a] # None
        /\ \A b \in Autos \ {a} : specs'[b] = specs[b]
    BY <2>1, AutomationAssumption, ZenonT(30) DEF TypeOK, SpecOf
  <2>5. \A b \in Autos \ {a} : jobOf[b] # None => jobs'[jobOf[b]] = jobs[jobOf[b]]
    BY <2>2, <2>3 DEF TypeOK, MapsAgree
  <2>6. MapTypes' /\ Maps'
    BY <1>1, <2>1, <2>3, <2>4, <2>5, StatusStep
  <2> QED BY <2>1, <2>6, CallStep
<1>6. CASE Delete(c, a)
  <2>1. /\ specs' = [specs EXCEPT ![a] = None] /\ jobOf' = [jobOf EXCEPT ![a] = None]
        /\ autoOf' = Without(autoOf, a) /\ jobs' = Without(jobs, a)
        /\ Call(c) /\ past' \subseteq Autos
    BY <1>6 DEF Delete, TypeOK
  <2>2. /\ \A i \in JobIds : autoOf'[i] = IF i = jobOf[a] THEN None ELSE autoOf[i]
        /\ \A i \in JobIds : jobs'[i] = IF i = jobOf[a] THEN None ELSE jobs[i]
        /\ MapTypes'
    BY <2>1, AutomationAssumption DEF Without, TypeOK, MapTypes
  <2>3. Maps'
    BY <2>1, <2>2, AutomationAssumption DEF TypeOK, Maps, MapsAgree, JobsAllowed
  <2> QED BY <2>1, <2>2, <2>3, CallStep
<1> QED BY <1>2, <1>3, <1>4, <1>5, <1>6 DEF Route

\* tick and fire_event: what is fired has a job that was Enabled.
LEMMA EmitStep ==
  ASSUME IInv, NEW js \in SUBSET JobIds, Emit(js),
         \A j \in js : jobs[j] # None /\ jobs[j].status = "Enabled"
  PROVE  IInv'
<1> USE DEF IInv, Emit
<1>1. \A j \in js : jobs[j] \in Job
  BY DEF TypeOK
<1>2. \A j \in JobIds : jobs'[j] = IF j \in js THEN Started(jobs[j]) ELSE jobs[j]
  BY DEF StartAll, TypeOK
<1>3. jobs' \in [JobIds -> Job \union {None}] /\ \A j \in JobIds : jobs'[j] = None <=> jobs[j] = None
  BY <1>1, <1>2, JobSteps, AutomationAssumption DEF StartAll, TypeOK
<1>4. \A j \in JobIds : jobs'[j].status = "Enabled" => jobs[j].status = "Enabled"
  BY <1>1, <1>2, JobSteps
<1>5. \A a \in Autos : jobOf[a] # None => jobOf[a] \in JobIds
  BY DEF TypeOK
<1>6. TypeOK /\ Maps
  BY DEF Maps
<1>7. MapTypes' /\ Maps'
  BY <1>3, <1>4, <1>5, <1>6, StatusStep DEF TypeOK
<1>8. TypeOK'
  BY <1>7 DEF TypeOK, MapTypes, store
<1>9. OnlyAllowedRuns'
  <2> SUFFICES ASSUME NEW a \in fired'
               PROVE  specs[a].enabled /\ (NeedsApproval[a] => specs[a].approved)
    BY DEF OnlyAllowedRuns
  <2>1. PICK j \in js : a \in Autos /\ autoOf[j] = a
    OBVIOUS
  <2>2. jobOf[a] = j /\ j # None
    BY <2>1, AutomationAssumption DEF MapsAgree, TypeOK
  <2> QED BY <2>1, <2>2 DEF JobsAllowed
<1> QED BY <1>7, <1>8, <1>9 DEF Maps, store, SettledFile

LEMMA IStep ==
  ASSUME IInv, [Next]_vars
  PROVE  IInv'
<1> USE DEF IInv
<1>1. ASSUME NEW c \in Callers, NEW a \in Autos, Route(c, a) PROVE IInv'
  BY <1>1, RouteStep
<1>2. ASSUME NEW c \in Callers, Persist(c) PROVE IInv'
  <2>1. pc'[c] = "writing"
    BY <1>2 DEF Persist, TypeOK
  <2> QED BY <1>2, <2>1
    DEF Persist, sched, TypeOK, MapsAgree, JobsAllowed, OnlyAllowedRuns, SettledFile
<1>3. ASSUME NEW c \in Callers, Written(c) PROVE IInv'
  BY <1>3
  DEF Written, WriteSpecs, sched, TypeOK, MapsAgree, JobsAllowed, OnlyAllowedRuns, SettledFile
<1>4. ASSUME NEW c \in Callers, PersistFails(c) PROVE IInv'
  <2>1. fails' # 0 /\ fails' \in 0..MaxFails
    BY <1>4, AutomationAssumption DEF PersistFails, TypeOK
  <2> QED BY <1>4, <2>1
    DEF PersistFails, sched, store, TypeOK, MapsAgree, JobsAllowed, OnlyAllowedRuns, SettledFile
<1>5. CASE Tick
  <2>1. \A j \in DueIn(jobs) : j \in JobIds /\ jobs[j] # None /\ jobs[j].status = "Enabled"
    BY DEF DueIn, Has, IsDue, TypeOK
  <2> QED BY <1>5, <2>1, EmitStep DEF Tick
<1>6. ASSUME NEW k \in {"event", "manual"}, FireEvent(k) PROVE IInv'
  <2> DEFINE js == {j \in WaitingFor(jobs, "event") : \E a \in Autos : autoOf[j] = a /\ Kind[a] = k}
  <2>1. \A j \in js : j \in JobIds /\ jobs[j] # None /\ jobs[j].status = "Enabled"
    BY DEF WaitingFor, Has, TypeOK
  <2>2. Emit(js)
    BY <1>6 DEF FireEvent
  <2> HIDE DEF js
  <2> QED BY <2>1, <2>2, EmitStep
<1>7. CASE Reboot
  <2> DEFINE sp == IF torn \/ file = None THEN Defaults ELSE file
             on == {a \in Autos : sp[a] # None /\ sp[a].enabled /\ ~Waits(a, sp[a])}
  <2>1. sp \in [Autos -> SpecOf \union {None}]
    BY DEF Defaults, SpecOf, TypeOK
  <2>2. specs' = sp /\ jobOf' = JobOf(on) /\ autoOf' = AutoOf(on) /\ jobs' = JobsOf(on)
    BY <1>7 DEF Reboot, Loaded
  <2>3. on \in SUBSET Autos /\ \A a \in on :
          sp[a] # None /\ sp[a].enabled /\ (NeedsApproval[a] => sp[a].approved)
    BY DEF Waits
  <2>4. ~torn /\ file # None => sp = file
    OBVIOUS
  <2> HIDE DEF sp, on
  <2>5. MapTypes' /\ Maps'
    BY <2>1, <2>2, <2>3, FreshMaps DEF MapTypes, Maps, MapsAgree, JobsAllowed
  <2>6. Rest' /\ UNCHANGED store /\ fired' = {}
    BY <1>7, AutomationAssumption DEF Reboot, store, TypeOK, Rest
  <2>7. TypeOK'
    BY <2>5, <2>6 DEF TypeOK, Rest, MapTypes
  <2> QED BY <2>2, <2>4, <2>5, <2>6, <2>7 DEF store, Maps, OnlyAllowedRuns, SettledFile
<1>8. ASSUME NEW a \in Autos, Elapse(a) PROVE IInv'
  <2>1. jobOf[a] # None => jobOf[a] \in JobIds /\ jobs[jobOf[a]] \in Job
    BY DEF TypeOK, MapsAgree
  <2>2. /\ jobs' \in [JobIds -> Job \union {None}]
        /\ \A j \in JobIds : jobs'[j] = None <=> jobs[j] = None
        /\ \A j \in JobIds : jobs'[j].status = jobs[j].status
    BY <1>8, <2>1, JobSteps, AutomationAssumption DEF Elapse, TypeOK
  <2>3. UNCHANGED <<specs, jobOf, autoOf, store, pc, boots, fails>> /\ fired' = {} /\ past' \subseteq Autos
    BY <1>8 DEF Elapse, TypeOK
  <2>4. \A b \in Autos : jobOf[b] # None => jobOf[b] \in JobIds
    BY DEF TypeOK
  <2>5. TypeOK /\ Maps
    BY DEF Maps
  <2>6. MapTypes' /\ Maps'
    BY <2>2, <2>3, <2>4, <2>5, StatusStep DEF TypeOK
  <2> QED BY <2>3, <2>6 DEF TypeOK, MapTypes, Maps, store, OnlyAllowedRuns, SettledFile
<1>9. CASE UNCHANGED vars
  BY <1>9 DEF vars, sched, store, TypeOK, MapsAgree, JobsAllowed, OnlyAllowedRuns, SettledFile
<1> QED
  BY ONLY [Next]_vars, <1>1, <1>2, <1>3, <1>4, <1>5, <1>6, <1>7, <1>8, <1>9 DEF Next, Save

LEMMA InitIInv == Init => IInv
<1> SUFFICES ASSUME Init PROVE IInv
  OBVIOUS
<1>1. Seeds \in SUBSET Autos
  BY AutomationAssumption
<1> DEFINE spec == [enabled |-> TRUE, approved |-> FALSE]
<1>2. spec \in SpecOf /\ spec # None /\ spec.enabled
  <2>1. spec \in SpecOf /\ spec.enabled
    BY DEF SpecOf
  <2> QED BY <2>1, AutomationAssumption
<1>3. Defaults = [a \in Autos |-> IF a \in Seeds THEN spec ELSE None]
  BY DEF Defaults
<1> HIDE DEF spec
<1>4. /\ Defaults \in [Autos -> SpecOf \union {None}]
      /\ \A a \in Seeds : Defaults[a] # None /\ Defaults[a].enabled /\ ~NeedsApproval[a]
  BY <1>1, <1>2, <1>3, AutomationAssumption
<1>5. /\ specs = Defaults /\ jobOf = JobOf(Seeds) /\ autoOf = AutoOf(Seeds) /\ jobs = JobsOf(Seeds)
      /\ file = None /\ fired = {}
  BY DEF Init
<1>6. TypeOK
  <2>1. /\ torn \in BOOLEAN /\ pc \in [Callers -> {"idle", "persist", "writing"}]
        /\ past \subseteq Autos /\ boots \in 0..MaxBoots /\ fails \in 0..MaxFails
    <3>1. torn \in BOOLEAN /\ past \subseteq Autos /\ pc \in [Callers -> {"idle", "persist", "writing"}]
      BY DEF Init
    <3>2. boots = 0 /\ fails = 0
      BY DEF Init
    <3> QED BY <3>1, <3>2, AutomationAssumption
  <2>2. /\ jobOf \in [Autos -> JobIds \union {None}] /\ autoOf \in [JobIds -> Autos \union {None}]
        /\ jobs \in [JobIds -> Job \union {None}]
    BY <1>1, <1>5, FreshMaps
  <2> QED BY <1>4, <1>5, <2>1, <2>2 DEF TypeOK
<1>7. MapsAgree /\ JobsAllowed
  BY <1>1, <1>4, <1>5, FreshMaps DEF MapsAgree, JobsAllowed
<1> QED BY <1>5, <1>6, <1>7 DEF IInv, OnlyAllowedRuns, SettledFile

\* The inductive invariant behind the results.
THEOREM Inductive == Spec => []IInv
BY InitIInv, IStep, PTL DEF Spec

\* The maps, the file and the calls keep their shape, for any automations.
THEOREM TypeCorrect == Spec => []TypeOK
BY Inductive, PTL DEF IInv

\* The three maps agree: no job without its automation and none twice, whatever
\* is replaced, deleted and loaded.
THEOREM MapsCorrect == Spec => []MapsAgree
BY Inductive, PTL DEF IInv

\* What is triggered is enabled and, if it needs approval, approved: by approve or
\* by the spec it was created with.
THEOREM RunsAllowed == Spec => []OnlyAllowedRuns
BY Inductive, PTL DEF IInv

\* The saves of racing routes leave the file with what the orchestrator has.
THEOREM FileCorrect == Spec => []SettledFile
BY Inductive, PTL DEF IInv
=============================================================================
