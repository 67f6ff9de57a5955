-------------------------- MODULE OrchestratorProofs --------------------------
(***************************************************************************)
(* Proofs about Orchestrator, for plans of any number of subtasks and for  *)
(* any budget: cyclic ones and ones whose subtasks share an id as well.    *)
(* At the end: that the loop makes no more than a bounded number of steps  *)
(* and never hangs.                                                        *)
(***************************************************************************)
EXTENDS Orchestrator, FiniteSetTheorems, WellFoundedInduction, TLAPS

\* Every id without a result is the id of a subtask.
PendingAreIds == \A i \in pending : \E t \in Tasks : id[t] = i

\* Holds for every plan.
ShapeInv == TypeOK /\ PendingAreIds /\ DependenciesFirst

Live == phase # "halted"
Cap == IF MaxAttempts = 0 THEN 1 ELSE MaxAttempts
Has(t) == \E r \in results : r.task = t

\* A dispatched subtask with an id of its own is in one place: it waits, runs,
\* has panicked (pending without being in the queue), or has one result.
Placed ==
  \A t \in Tasks : OwnId(t) =>
    /\ \A r, q \in results : r.task = t /\ q.task = t => r = q
    /\ t \in queue => id[t] \in pending /\ t \notin running
    /\ t \in running => id[t] \in pending
    /\ Has(t) => id[t] \notin pending

\* Dispatched and not judged yet.
Out(t) == (id[t] \in pending /\ t \notin queue) \/ Has(t)
Counted ==
  Live => \A t \in Tasks :
    OwnId(t) => dispatched[t] = attempts[id[t]] + IF Out(t) THEN 1 ELSE 0

CountInv == Placed /\ Counted

\* Between rounds nothing is left of one.
Tidy ==
  /\ phase # "dispatch" => queue = {} /\ running = {} /\ pending = {}
  /\ phase \notin {"dispatch", "verify"} => results = {}

\* The round will count an attempt of this id.
Owed(i) == i \in pending \/ \E r \in results : id[r.task] = i

\* A subtask that waits or runs is owed an attempt, no dispatch is counted by
\* none, and what waits has one left.
Accounted ==
  Live =>
    /\ \A t \in queue \union running : Owed(id[t])
    /\ \A t \in Tasks : dispatched[t] <= attempts[id[t]] + IF Owed(id[t]) THEN 1 ELSE 0
    /\ \A t \in queue :
         id[t] \notin accepted \union failed /\ dispatched[t] <= attempts[id[t]]
AttemptLeft == Live => \A i \in Ids \ (accepted \union failed) : attempts[i] < Cap

\* Until a halt, the driver's map holds the ids of what really passed.
AcceptedPassed == Live => accepted = {id[t] : t \in passed}
DoneIsDone == phase = "done" => IsComplete

\* Holds for every plan, too.
CapInv ==
  /\ Tidy /\ Accounted /\ AttemptLeft /\ DispatchesCapped /\ AcceptedPassed /\ DoneIsDone

-----------------------------------------------------------------------------
(* Shape of the state and order of the dispatches, for any plan.           *)

LEMMA InitShape == Init => ShapeInv
BY OrchestratorAssumption
 DEF Init, ShapeInv, TypeOK, PendingAreIds, DependenciesFirst, Phases, Results, Wired, Tasks, Ids

\* Made-up errors name subtasks of the plan.
LEMMA SyntheticType ==
  ASSUME PendingAreIds
  PROVE  Synthetic \subseteq Results /\ \A r \in Synthetic : id[r.task] \in pending
<1>1. ASSUME NEW i \in pending
      PROVE  (CHOOSE t \in Tasks : id[t] = i) \in Tasks /\ id[CHOOSE t \in Tasks : id[t] = i] = i
  <2>1. \E t \in Tasks : id[t] = i
    BY DEF PendingAreIds
  <2> QED BY <2>1
<1> QED BY <1>1 DEF Synthetic, Results

\* Types of the plan and of the driver's locals.
LEMMA TypeStep ==
  ASSUME ShapeInv, [Next]_vars
  PROVE  TypeOK'
<1> USE OrchestratorAssumption DEF ShapeInv, TypeOK, Phases, Results, plan, round, history
<1>1. ASSUME Complete PROVE TypeOK'
  BY <1>1 DEF Complete, IsComplete
<1>2. ASSUME Halt PROVE TypeOK'
  BY <1>2 DEF Halt
<1>3. ASSUME StartRound PROVE TypeOK'
  BY <1>3 DEF StartRound, ReadyTasks, Ready, OutOfRounds
<1>4. ASSUME Spawn PROVE TypeOK'
  BY <1>4 DEF Spawn
<1>5. ASSUME Collect PROVE TypeOK'
  BY <1>5, SyntheticType DEF Collect, Synthetic, AllEnded
<1>6. ASSUME EndRound PROVE TypeOK'
  BY <1>6 DEF EndRound
<1>7. ASSUME TimeOut PROVE TypeOK'
  <2>1. clean' \in BOOLEAN
    BY <1>7 DEF TimeOut
  <2>2. rounds' \in 0..MaxRounds
    BY <1>7 DEF TimeOut
  <2>3. results' \subseteq Results
    BY <1>7 DEF TimeOut
  <2> QED BY <1>7, <2>1, <2>2, <2>3 DEF TimeOut
<1>8. ASSUME NEW t \in Tasks, NEW out \in {"ok", "error"}, Answer(t, out) PROVE TypeOK'
  BY <1>8 DEF Answer
<1>9. ASSUME NEW t \in Tasks, Panic(t) PROVE TypeOK'
  BY <1>9 DEF Panic
<1>10. ASSUME NEW r \in Results, Accept(r) PROVE TypeOK'
  BY <1>10 DEF Accept, Judging, Attempted
<1>11. ASSUME NEW r \in Results, Again(r) PROVE TypeOK'
  <2>1. clean' \in BOOLEAN
    BY <1>11 DEF Again
  <2>2. id[r.task] \in Ids /\ results' \subseteq Results
    BY <1>11 DEF Again, Judging
  <2>3. failed' \subseteq Ids
    BY <1>11, <2>2 DEF Again
  <2>4. attempts' \in [Ids -> Nat]
    BY <1>11, <2>2 DEF Again, Judging, Attempted
  <2> QED BY <1>11, <2>1, <2>2, <2>3, <2>4 DEF Again, Judging
<1>12. ASSUME NEW r \in Results, Fail(r) PROVE TypeOK'
  <2>1. clean' \in BOOLEAN
    BY <1>12 DEF Fail
  <2>2. id[r.task] \in Ids /\ results' \subseteq Results
    BY <1>12 DEF Fail, Judging
  <2>3. failed' \subseteq Ids
    BY <1>12, <2>2 DEF Fail
  <2>4. attempts' \in [Ids -> Nat]
    BY <1>12, <2>2 DEF Fail, Judging, Attempted
  <2> QED BY <1>12, <2>1, <2>2, <2>3, <2>4 DEF Fail, Judging
<1>13. ASSUME UNCHANGED vars PROVE TypeOK'
  BY <1>13 DEF vars
<1> QED
  BY ONLY [Next]_vars, <1>1, <1>2, <1>3, <1>4, <1>5, <1>6, <1>7, <1>8, <1>9, <1>10, <1>11, <1>12, <1>13
  DEF Next, Drive, Agent, Judge

\* A round's ids are those of its subtasks.
LEMMA PendingStep ==
  ASSUME ShapeInv, [Next]_vars
  PROVE  PendingAreIds'
<1> USE DEF ShapeInv, PendingAreIds, plan, round, history
<1>1. ASSUME Complete PROVE PendingAreIds'
  BY <1>1 DEF Complete, IsComplete
<1>2. ASSUME Halt PROVE PendingAreIds'
  BY <1>2 DEF Halt
<1>3. ASSUME StartRound PROVE PendingAreIds'
  BY <1>3 DEF StartRound, ReadyTasks, Ready, OutOfRounds
<1>4. ASSUME Spawn PROVE PendingAreIds'
  BY <1>4 DEF Spawn
<1>5. ASSUME Collect PROVE PendingAreIds'
  BY <1>5 DEF Collect, Synthetic, AllEnded
<1>6. ASSUME EndRound PROVE PendingAreIds'
  BY <1>6 DEF EndRound
<1>7. ASSUME TimeOut PROVE PendingAreIds'
  BY <1>7 DEF TimeOut
<1>8. ASSUME NEW t \in Tasks, NEW out \in {"ok", "error"}, Answer(t, out) PROVE PendingAreIds'
  BY <1>8 DEF Answer
<1>9. ASSUME NEW t \in Tasks, Panic(t) PROVE PendingAreIds'
  BY <1>9 DEF Panic
<1>10. ASSUME NEW r \in Results, Accept(r) PROVE PendingAreIds'
  BY <1>10 DEF Accept, Judging, Attempted
<1>11. ASSUME NEW r \in Results, Again(r) PROVE PendingAreIds'
  BY <1>11 DEF Again, Judging, Attempted, Exhausted
<1>12. ASSUME NEW r \in Results, Fail(r) PROVE PendingAreIds'
  BY <1>12 DEF Fail, Judging, Attempted
<1>13. ASSUME UNCHANGED vars PROVE PendingAreIds'
  BY <1>13 DEF vars
<1> QED
  BY ONLY [Next]_vars, <1>1, <1>2, <1>3, <1>4, <1>5, <1>6, <1>7, <1>8, <1>9, <1>10, <1>11, <1>12, <1>13
  DEF Next, Drive, Agent, Judge

\* What is accepted stays accepted, and only what is ready is queued.
LEMMA DependenciesStep ==
  ASSUME ShapeInv, [Next]_vars
  PROVE  DependenciesFirst'
<1> USE DEF ShapeInv, DependenciesFirst, plan, round, history
<1>1. ASSUME Complete PROVE DependenciesFirst'
  BY <1>1 DEF Complete, IsComplete
<1>2. ASSUME Halt PROVE DependenciesFirst'
  BY <1>2 DEF Halt
<1>3. ASSUME StartRound PROVE DependenciesFirst'
  BY <1>3 DEF StartRound, ReadyTasks, Ready, OutOfRounds
<1>4. ASSUME Spawn PROVE DependenciesFirst'
  BY <1>4 DEF Spawn
<1>5. ASSUME Collect PROVE DependenciesFirst'
  BY <1>5 DEF Collect, Synthetic, AllEnded
<1>6. ASSUME EndRound PROVE DependenciesFirst'
  BY <1>6 DEF EndRound
<1>7. ASSUME TimeOut PROVE DependenciesFirst'
  BY <1>7 DEF TimeOut
<1>8. ASSUME NEW t \in Tasks, NEW out \in {"ok", "error"}, Answer(t, out) PROVE DependenciesFirst'
  BY <1>8 DEF Answer
<1>9. ASSUME NEW t \in Tasks, Panic(t) PROVE DependenciesFirst'
  BY <1>9 DEF Panic
<1>10. ASSUME NEW r \in Results, Accept(r) PROVE DependenciesFirst'
  BY <1>10 DEF Accept, Judging, Attempted
<1>11. ASSUME NEW r \in Results, Again(r) PROVE DependenciesFirst'
  BY <1>11 DEF Again, Judging, Attempted, Exhausted
<1>12. ASSUME NEW r \in Results, Fail(r) PROVE DependenciesFirst'
  BY <1>12 DEF Fail, Judging, Attempted
<1>13. ASSUME UNCHANGED vars PROVE DependenciesFirst'
  BY <1>13 DEF vars
<1> QED
  BY ONLY [Next]_vars, <1>1, <1>2, <1>3, <1>4, <1>5, <1>6, <1>7, <1>8, <1>9, <1>10, <1>11, <1>12, <1>13
  DEF Next, Drive, Agent, Judge

LEMMA Shape == Spec => []ShapeInv
<1>1. ShapeInv /\ [Next]_vars => ShapeInv'
  BY TypeStep, PendingStep, DependenciesStep DEF ShapeInv
<1> QED BY InitShape, <1>1, PTL DEF Spec

\* The driver's locals keep their types, whatever the plan.
THEOREM TypeCorrect == Spec => []TypeOK
BY Shape, PTL DEF ShapeInv

\* DependenciesFirst for every plan, also with shared ids and cycles: no subagent
\* ever works on a subtask whose dependencies are not all accepted.
THEOREM DependenciesCorrect == Spec => []DependenciesFirst
BY Shape, PTL DEF ShapeInv

-----------------------------------------------------------------------------
(* Attempts and verdicts, for any plan.                                    *)

LEMMA InitCap == Init => CapInv
BY OrchestratorAssumption
 DEF Init, CapInv, Tidy, Accounted, Owed, AttemptLeft, DispatchesCapped, AcceptedPassed, DoneIsDone,
     Live, Cap, Tasks, Ids

LEMMA TidyStep ==
  ASSUME ShapeInv, CapInv, [Next]_vars
  PROVE  Tidy'
<1> USE OrchestratorAssumption
    DEF ShapeInv, TypeOK, CapInv, Tidy, Owed, Live, plan, round, history, Tasks, Ids, Results
<1>1. ASSUME Complete PROVE Tidy'
  BY <1>1 DEF Complete, IsComplete
<1>2. ASSUME Halt PROVE Tidy'
  BY <1>2 DEF Halt
<1>3. ASSUME StartRound PROVE Tidy'
  BY <1>3 DEF StartRound, ReadyTasks, Ready, OutOfRounds
<1>4. ASSUME Spawn PROVE Tidy'
  BY <1>4 DEF Spawn
<1>5. ASSUME Collect PROVE Tidy'
  BY <1>5 DEF Collect, AllEnded
<1>6. ASSUME EndRound PROVE Tidy'
  BY <1>6 DEF EndRound
<1>7. ASSUME TimeOut PROVE Tidy'
  BY <1>7 DEF TimeOut
<1>8. ASSUME NEW t \in Tasks, NEW out \in {"ok", "error"}, Answer(t, out) PROVE Tidy'
  BY <1>8 DEF Answer
<1>9. ASSUME NEW t \in Tasks, Panic(t) PROVE Tidy'
  BY <1>9 DEF Panic
<1>10. ASSUME NEW r \in Results, Accept(r) PROVE Tidy'
  BY <1>10 DEF Accept, Judging, Attempted
<1>11. ASSUME NEW r \in Results, Again(r) PROVE Tidy'
  BY <1>11 DEF Again, Judging, Attempted, Exhausted
<1>12. ASSUME NEW r \in Results, Fail(r) PROVE Tidy'
  BY <1>12 DEF Fail, Judging, Attempted
<1>13. ASSUME UNCHANGED vars PROVE Tidy'
  BY <1>13 DEF vars
<1> QED
  BY ONLY [Next]_vars, <1>1, <1>2, <1>3, <1>4, <1>5, <1>6, <1>7, <1>8, <1>9, <1>10, <1>11, <1>12, <1>13
  DEF Next, Drive, Agent, Judge

\* A round ends owing nothing that it has not counted.
LEMMA AccountedStep ==
  ASSUME ShapeInv, CapInv, [Next]_vars
  PROVE  Accounted'
<1> USE OrchestratorAssumption
    DEF ShapeInv, TypeOK, CapInv, Tidy, Accounted, Owed, Live, plan, round, history, Tasks, Ids, Results
<1>1. ASSUME Complete PROVE Accounted'
  BY <1>1 DEF Complete, IsComplete
<1>2. ASSUME Halt PROVE Accounted'
  BY <1>2 DEF Halt
<1>3. ASSUME StartRound PROVE Accounted'
  <2>1. \A i \in Ids : ~Owed(i)
    BY <1>3 DEF StartRound
  <2>2. \A t \in ReadyTasks : Owed(id[t])'
    BY <1>3 DEF StartRound
  <2>3. \A t \in ReadyTasks : id[t] \notin accepted \union failed /\ t \in Tasks
    BY DEF ReadyTasks, Ready
  <2>4. \A t \in Tasks : dispatched[t] <= attempts[id[t]]
    <3>1. \A t \in Tasks : dispatched[t] <= attempts[id[t]] + IF Owed(id[t]) THEN 1 ELSE 0
      BY <1>3 DEF StartRound
    <3>2. \A t \in Tasks : id[t] \in Ids /\ attempts[id[t]] \in Nat
      OBVIOUS
    <3> HIDE DEF Owed
    <3> QED BY ONLY <2>1, <3>1, <3>2
  <2>5. /\ UNCHANGED <<id, accepted, failed, attempts, dispatched>>
        /\ queue' = ReadyTasks /\ running' = {}
    BY <1>3 DEF StartRound
  <2>6. \A t \in Tasks : id[t] \in Ids /\ attempts[id[t]] \in Nat /\ dispatched[t] \in Nat
    OBVIOUS
  <2> HIDE DEF Owed, ShapeInv, TypeOK
  <2> QED BY ONLY <2>2, <2>3, <2>4, <2>5, <2>6 DEF Accounted
<1>4. ASSUME Spawn PROVE Accounted'
  <2>1. PICK t \in queue : /\ queue' = queue \ {t} /\ running' = running \union {t}
                          /\ dispatched' = [dispatched EXCEPT ![t] = @ + 1]
    BY <1>4 DEF Spawn
  <2>2. UNCHANGED <<id, accepted, failed, attempts, results, pending, phase>> /\ phase = "dispatch"
    BY <1>4 DEF Spawn
  <2>3. \A i \in Ids : Owed(i)' <=> Owed(i)
    BY <2>2
  <2>4. \A u \in Tasks : id[u] \in Ids /\ attempts[id[u]] \in Nat /\ dispatched[u] \in Nat
    OBVIOUS
  <2> HIDE DEF Owed
  <2>5. Owed(id[t]) /\ dispatched[t] <= attempts[id[t]] /\ t \in Tasks
    BY <2>2
  <2>6. \A u \in Tasks : u # t => dispatched'[u] = dispatched[u]
    BY <2>1
  <2>7. dispatched'[t] = dispatched[t] + 1
    BY <2>1, <2>5
  <2>8. \A u \in Tasks :
          /\ dispatched[u] <= attempts[id[u]] + IF Owed(id[u]) THEN 1 ELSE 0
          /\ u \in queue \union running => Owed(id[u])
          /\ u \in queue => id[u] \notin accepted \union failed /\ dispatched[u] <= attempts[id[u]]
    BY <2>2
  <2>9. queue' \union running' \subseteq Tasks
    BY <2>1
  <2> HIDE DEF ShapeInv, TypeOK, CapInv
  <2>10. \A u \in Tasks : dispatched'[u] <= attempts[id[u]] + IF Owed(id[u])' THEN 1 ELSE 0
    <3> SUFFICES ASSUME NEW u \in Tasks
                 PROVE  dispatched'[u] <= attempts[id[u]] + IF Owed(id[u])' THEN 1 ELSE 0
      OBVIOUS
    <3>1. CASE u = t
      BY ONLY <2>2, <2>3, <2>4, <2>5, <2>7, <3>1
    <3>2. CASE u # t
      <4>1. Owed(id[u])' <=> Owed(id[u])
        BY ONLY <2>2, <2>3, <2>4, u \in Tasks
      <4>2. dispatched'[u] = dispatched[u]
        BY ONLY <2>6, <3>2, u \in Tasks
      <4> QED BY ONLY <2>4, <2>8, <4>1, <4>2, u \in Tasks
    <3> QED BY ONLY <3>1, <3>2
  <2>11. \A u \in queue' : dispatched'[u] <= attempts[id[u]] /\ id[u] \notin accepted \union failed
    BY ONLY <2>1, <2>6, <2>8, <2>9
  <2>12. \A u \in queue' \union running' : Owed(id[u])'
    <3>1. t \in queue
      OBVIOUS
    <3>2. \A u \in queue' \union running' : u \in queue \union running
      BY ONLY <2>1, <3>1
    <3> QED BY ONLY <2>2, <2>3, <2>4, <2>8, <2>9, <3>2
  <2> QED BY ONLY <2>2, <2>10, <2>11, <2>12 DEF Accounted
<1>5. ASSUME Collect PROVE Accounted'
  <2>1. \A r \in Synthetic : id[r.task] \in pending
    BY SyntheticType
  <2>2. ASSUME NEW i \in pending PROVE \E r \in Synthetic : id[r.task] = i
    <3>1. \E t \in Tasks : id[t] = i
      BY DEF PendingAreIds
    <3>2. id[CHOOSE t \in Tasks : id[t] = i] = i
      BY ONLY <3>1
    <3>3. [task |-> CHOOSE t \in Tasks : id[t] = i, out |-> "error"] \in Synthetic
      BY DEF Synthetic
    <3> QED BY <3>2, <3>3
  <2>3. ASSUME NEW i \in Ids PROVE Owed(i)' <=> Owed(i)
    <3>1. UNCHANGED id /\ results' = results \union Synthetic /\ pending' = {}
      BY <1>5 DEF Collect
    <3> QED BY ONLY <2>1, <2>2, <3>1 DEF Owed
  <2> HIDE DEF Owed
  <2> QED BY <1>5, <2>3 DEF Collect, AllEnded
<1>6. ASSUME EndRound PROVE Accounted'
  BY <1>6 DEF EndRound
<1>7. ASSUME TimeOut PROVE Accounted'
  BY <1>7 DEF TimeOut
<1>8. ASSUME NEW t \in Tasks, NEW out \in {"ok", "error"}, Answer(t, out) PROVE Accounted'
  <2> DEFINE new == [task |-> t, out |-> out]
  <2>1. new.task = t /\ results' = results \union {new} /\ pending' = pending \ {id[t]}
    BY <1>8 DEF Answer
  <2> HIDE DEF new
  <2>2. UNCHANGED <<id, accepted, failed, attempts, queue, dispatched, phase>>
    BY <1>8 DEF Answer
  <2>3. t \in running /\ running' = running \ {t} /\ phase = "dispatch"
    BY <1>8 DEF Answer
  <2>4. \A i \in Ids : Owed(i)' <=> Owed(i)
    BY <2>1, <2>2, <2>3
  <2> HIDE DEF Owed
  <2> QED BY <2>2, <2>3, <2>4
<1>9. ASSUME NEW t \in Tasks, Panic(t) PROVE Accounted'
  BY <1>9 DEF Panic
<1>10. ASSUME NEW r \in Results, Accept(r) PROVE Accounted'
  <2>1. attempts' = [attempts EXCEPT ![id[r.task]] = @ + 1] /\ results' = results \ {r} /\ r \in results
    BY <1>10 DEF Accept, Judging, Attempted
  <2>2. UNCHANGED <<id, queue, running, pending, dispatched, phase>> /\ phase = "verify"
    BY <1>10 DEF Accept, Judging
  <2>3. queue = {} /\ running = {} /\ id[r.task] \in Ids
    BY <2>2
  <2>4. ASSUME NEW t \in Tasks
        PROVE  dispatched[t] <= attempts'[id[t]] + IF Owed(id[t])' THEN 1 ELSE 0
    <3>1. /\ id[t] \in Ids /\ attempts[id[t]] \in Nat /\ dispatched[t] \in Nat
          /\ dispatched[t] <= attempts[id[t]] + IF Owed(id[t]) THEN 1 ELSE 0
      BY <2>2
    <3>2. CASE id[t] = id[r.task]
      <4>1. attempts'[id[t]] = attempts[id[t]] + 1
        BY <2>1, <3>1, <3>2
      <4> HIDE DEF Owed
      <4> QED BY ONLY <3>1, <4>1
    <3>3. CASE id[t] # id[r.task]
      <4>1. Owed(id[t])' <=> Owed(id[t])
        BY <2>1, <2>2, <3>3
      <4>2. attempts'[id[t]] = attempts[id[t]]
        BY <2>1, <2>3, <3>1, <3>3
      <4> HIDE DEF Owed
      <4> QED BY <3>1, <4>1, <4>2
    <3> QED BY <3>2, <3>3
  <2> HIDE DEF Owed
  <2> QED BY <2>2, <2>3, <2>4
<1>11. ASSUME NEW r \in Results, Again(r) PROVE Accounted'
  <2>1. attempts' = [attempts EXCEPT ![id[r.task]] = @ + 1] /\ results' = results \ {r} /\ r \in results
    BY <1>11 DEF Again, Judging, Attempted
  <2>2. UNCHANGED <<id, queue, running, pending, dispatched, phase>> /\ phase = "verify"
    BY <1>11 DEF Again, Judging
  <2>3. queue = {} /\ running = {} /\ id[r.task] \in Ids
    BY <2>2
  <2>4. ASSUME NEW t \in Tasks
        PROVE  dispatched[t] <= attempts'[id[t]] + IF Owed(id[t])' THEN 1 ELSE 0
    <3>1. /\ id[t] \in Ids /\ attempts[id[t]] \in Nat /\ dispatched[t] \in Nat
          /\ dispatched[t] <= attempts[id[t]] + IF Owed(id[t]) THEN 1 ELSE 0
      BY <2>2
    <3>2. CASE id[t] = id[r.task]
      <4>1. attempts'[id[t]] = attempts[id[t]] + 1
        BY <2>1, <3>1, <3>2
      <4> HIDE DEF Owed
      <4> QED BY ONLY <3>1, <4>1
    <3>3. CASE id[t] # id[r.task]
      <4>1. Owed(id[t])' <=> Owed(id[t])
        BY <2>1, <2>2, <3>3
      <4>2. attempts'[id[t]] = attempts[id[t]]
        BY <2>1, <2>3, <3>1, <3>3
      <4> HIDE DEF Owed
      <4> QED BY <3>1, <4>1, <4>2
    <3> QED BY <3>2, <3>3
  <2> HIDE DEF Owed
  <2> QED BY <2>2, <2>3, <2>4
<1>12. ASSUME NEW r \in Results, Fail(r) PROVE Accounted'
  <2>1. attempts' = [attempts EXCEPT ![id[r.task]] = @ + 1] /\ results' = results \ {r} /\ r \in results
    BY <1>12 DEF Fail, Judging, Attempted
  <2>2. UNCHANGED <<id, queue, running, pending, dispatched, phase>> /\ phase = "verify"
    BY <1>12 DEF Fail, Judging
  <2>3. queue = {} /\ running = {} /\ id[r.task] \in Ids
    BY <2>2
  <2>4. ASSUME NEW t \in Tasks
        PROVE  dispatched[t] <= attempts'[id[t]] + IF Owed(id[t])' THEN 1 ELSE 0
    <3>1. /\ id[t] \in Ids /\ attempts[id[t]] \in Nat /\ dispatched[t] \in Nat
          /\ dispatched[t] <= attempts[id[t]] + IF Owed(id[t]) THEN 1 ELSE 0
      BY <2>2
    <3>2. CASE id[t] = id[r.task]
      <4>1. attempts'[id[t]] = attempts[id[t]] + 1
        BY <2>1, <3>1, <3>2
      <4> HIDE DEF Owed
      <4> QED BY ONLY <3>1, <4>1
    <3>3. CASE id[t] # id[r.task]
      <4>1. Owed(id[t])' <=> Owed(id[t])
        BY <2>1, <2>2, <3>3
      <4>2. attempts'[id[t]] = attempts[id[t]]
        BY <2>1, <2>3, <3>1, <3>3
      <4> HIDE DEF Owed
      <4> QED BY <3>1, <4>1, <4>2
    <3> QED BY <3>2, <3>3
  <2> HIDE DEF Owed
  <2> QED BY <2>2, <2>3, <2>4
<1>13. ASSUME UNCHANGED vars PROVE Accounted'
  BY <1>13 DEF vars
<1> QED
  BY ONLY [Next]_vars, <1>1, <1>2, <1>3, <1>4, <1>5, <1>6, <1>7, <1>8, <1>9, <1>10, <1>11, <1>12, <1>13
  DEF Next, Drive, Agent, Judge

\* An id that judging leaves open has an attempt left.
LEMMA LeftStep ==
  ASSUME ShapeInv, CapInv, [Next]_vars
  PROVE  AttemptLeft'
<1> USE OrchestratorAssumption
    DEF ShapeInv, TypeOK, CapInv, Tidy, AttemptLeft, Cap, Live, plan, round, history, Tasks, Ids, Results
<1>1. ASSUME Complete PROVE AttemptLeft'
  BY <1>1 DEF Complete, IsComplete
<1>2. ASSUME Halt PROVE AttemptLeft'
  BY <1>2 DEF Halt
<1>3. ASSUME StartRound PROVE AttemptLeft'
  BY <1>3 DEF StartRound, ReadyTasks, Ready, OutOfRounds
<1>4. ASSUME Spawn PROVE AttemptLeft'
  BY <1>4 DEF Spawn
<1>5. ASSUME Collect PROVE AttemptLeft'
  BY <1>5 DEF Collect, AllEnded
<1>6. ASSUME EndRound PROVE AttemptLeft'
  BY <1>6 DEF EndRound
<1>7. ASSUME TimeOut PROVE AttemptLeft'
  BY <1>7 DEF TimeOut
<1>8. ASSUME NEW t \in Tasks, NEW out \in {"ok", "error"}, Answer(t, out) PROVE AttemptLeft'
  BY <1>8 DEF Answer
<1>9. ASSUME NEW t \in Tasks, Panic(t) PROVE AttemptLeft'
  BY <1>9 DEF Panic
<1>10. ASSUME NEW r \in Results, Accept(r) PROVE AttemptLeft'
  BY <1>10 DEF Accept, Judging, Attempted
<1>11. ASSUME NEW r \in Results, Again(r) PROVE AttemptLeft'
  <2>1. /\ attempts' = [attempts EXCEPT ![id[r.task]] = @ + 1]
        /\ UNCHANGED <<phase, accepted>> /\ id[r.task] \in Ids
    BY <1>11 DEF Again, Judging, Attempted
  <2>2. failed' = IF attempts[id[r.task]] + 1 >= MaxAttempts THEN failed \union {id[r.task]} ELSE failed
    BY <1>11 DEF Again, Exhausted
  <2>3. CASE attempts[id[r.task]] + 1 >= MaxAttempts
    BY <2>1, <2>2, <2>3
  <2>4. CASE ~(attempts[id[r.task]] + 1 >= MaxAttempts)
    <3>1. attempts[id[r.task]] \in Nat /\ attempts \in [Ids -> Nat]
      BY <2>1
    <3>2. attempts'[id[r.task]] < Cap
      <4>1. attempts'[id[r.task]] = attempts[id[r.task]] + 1
        BY <2>1, <3>1
      <4>2. attempts[id[r.task]] + 1 < MaxAttempts
        BY ONLY <2>4, <3>1, OrchestratorAssumption
      <4>3. Cap = MaxAttempts
        BY ONLY <3>1, <4>2, OrchestratorAssumption DEF Cap
      <4> QED BY ONLY <4>1, <4>2, <4>3
    <3>3. \A i \in Ids : i # id[r.task] => attempts'[i] = attempts[i]
      BY <2>1, <3>1
    <3> HIDE DEF Cap
    <3> QED BY <2>1, <2>2, <2>4, <3>2, <3>3
  <2> QED BY <2>3, <2>4
<1>12. ASSUME NEW r \in Results, Fail(r) PROVE AttemptLeft'
  BY <1>12 DEF Fail, Judging, Attempted
<1>13. ASSUME UNCHANGED vars PROVE AttemptLeft'
  BY <1>13 DEF vars
<1> QED
  BY ONLY [Next]_vars, <1>1, <1>2, <1>3, <1>4, <1>5, <1>6, <1>7, <1>8, <1>9, <1>10, <1>11, <1>12, <1>13
  DEF Next, Drive, Agent, Judge

\* Accepted ids are those of the subtasks whose own results passed.
LEMMA VerdictStep ==
  ASSUME ShapeInv, CapInv, [Next]_vars
  PROVE  (AcceptedPassed /\ DoneIsDone)'
<1> USE OrchestratorAssumption
    DEF ShapeInv, TypeOK, CapInv, Tidy, AcceptedPassed, DoneIsDone, IsComplete, Live, plan, round, history, Tasks, Ids, Results
<1>1. ASSUME Complete PROVE (AcceptedPassed /\ DoneIsDone)'
  BY <1>1 DEF Complete, IsComplete
<1>2. ASSUME Halt PROVE (AcceptedPassed /\ DoneIsDone)'
  BY <1>2 DEF Halt
<1>3. ASSUME StartRound PROVE (AcceptedPassed /\ DoneIsDone)'
  BY <1>3 DEF StartRound, ReadyTasks, Ready, OutOfRounds
<1>4. ASSUME Spawn PROVE (AcceptedPassed /\ DoneIsDone)'
  <2>1. UNCHANGED <<id, phase, accepted, passed>> /\ phase = "dispatch"
    BY <1>4 DEF Spawn
  <2> QED BY <2>1
<1>5. ASSUME Collect PROVE (AcceptedPassed /\ DoneIsDone)'
  BY <1>5 DEF Collect, AllEnded
<1>6. ASSUME EndRound PROVE (AcceptedPassed /\ DoneIsDone)'
  BY <1>6 DEF EndRound
<1>7. ASSUME TimeOut PROVE (AcceptedPassed /\ DoneIsDone)'
  BY <1>7 DEF TimeOut
<1>8. ASSUME NEW t \in Tasks, NEW out \in {"ok", "error"}, Answer(t, out) PROVE (AcceptedPassed /\ DoneIsDone)'
  BY <1>8 DEF Answer
<1>9. ASSUME NEW t \in Tasks, Panic(t) PROVE (AcceptedPassed /\ DoneIsDone)'
  BY <1>9 DEF Panic
<1>10. ASSUME NEW r \in Results, Accept(r) PROVE (AcceptedPassed /\ DoneIsDone)'
  BY <1>10 DEF Accept, Judging, Attempted
<1>11. ASSUME NEW r \in Results, Again(r) PROVE (AcceptedPassed /\ DoneIsDone)'
  BY <1>11 DEF Again, Judging, Attempted, Exhausted
<1>12. ASSUME NEW r \in Results, Fail(r) PROVE (AcceptedPassed /\ DoneIsDone)'
  BY <1>12 DEF Fail, Judging, Attempted
<1>13. ASSUME UNCHANGED vars PROVE (AcceptedPassed /\ DoneIsDone)'
  BY <1>13 DEF vars
<1> QED
  BY ONLY [Next]_vars, <1>1, <1>2, <1>3, <1>4, <1>5, <1>6, <1>7, <1>8, <1>9, <1>10, <1>11, <1>12, <1>13
  DEF Next, Drive, Agent, Judge

\* Only Spawn dispatches, and only what has an attempt left.
LEMMA CappedStep ==
  ASSUME ShapeInv, CapInv, [Next]_vars
  PROVE  DispatchesCapped'
<1>1. CASE Spawn
  <2>1. PICK t \in queue : dispatched' = [dispatched EXCEPT ![t] = @ + 1]
    BY <1>1 DEF Spawn
  <2>2. t \in Tasks /\ id[t] \in Ids /\ attempts[id[t]] \in Nat /\ dispatched[t] \in Nat
    BY DEF ShapeInv, TypeOK
  <2>3. dispatched[t] <= attempts[id[t]] /\ attempts[id[t]] < Cap
    BY <1>1, <2>2 DEF CapInv, Accounted, AttemptLeft, Live, Spawn
  <2>4. Cap \in Nat
    BY OrchestratorAssumption DEF Cap
  <2> QED BY <2>1, <2>2, <2>3, <2>4 DEF CapInv, DispatchesCapped, Cap, ShapeInv, TypeOK
<1>2. CASE ~Spawn
  <2>1. UNCHANGED dispatched
    BY <1>2 DEF Next, Drive, Agent, Judge, Complete, Halt, StartRound, Collect, EndRound, TimeOut,
            Answer, Panic, Accept, Again, Fail, Judging, history, vars
  <2> QED BY <2>1 DEF CapInv, DispatchesCapped
<1> QED BY <1>1, <1>2

LEMMA Capped == Spec => []CapInv
<1>1. ShapeInv /\ CapInv /\ [Next]_vars => CapInv'
  BY TidyStep, AccountedStep, LeftStep, VerdictStep, CappedStep DEF CapInv
<1> QED BY InitCap, Shape, <1>1, PTL DEF Spec

\* "Maximum dispatches of a single subtask": errors, panics and Revise verdicts
\* together never exceed the cap, whatever the order of completion and also for
\* subtasks that share an id.
THEOREM AttemptsCapped == Spec => []DispatchesCapped
BY Capped, PTL DEF CapInv

\* What "succeeded" says of any plan: of the subtasks with one id, one had its own
\* result accepted.
THEOREM SuccessPerId ==
  Spec => [](phase = "done" => \A t \in Tasks : \E u \in passed : id[u] = id[t])
<1>1. CapInv => (phase = "done" => \A t \in Tasks : \E u \in passed : id[u] = id[t])
  BY DEF CapInv, AcceptedPassed, DoneIsDone, IsComplete, Live
<1> QED BY Capped, <1>1, PTL

-----------------------------------------------------------------------------
(* Dispatches and attempts of the subtasks with an id of their own.        *)

LEMMA InitCount == Init => CountInv
BY OrchestratorAssumption DEF Init, CountInv, Placed, Counted, Out, Has, Live, Tasks, Ids

LEMMA OwnSynthetic ==
  ASSUME PendingAreIds, NEW t \in Tasks, OwnId(t)
  PROVE  /\ \A r, q \in Synthetic : r.task = t /\ q.task = t => r = q
         /\ (\E r \in Synthetic : r.task = t) <=> id[t] \in pending
<1>1. ASSUME NEW i \in pending
      PROVE  (CHOOSE u \in Tasks : id[u] = i) \in Tasks /\ id[CHOOSE u \in Tasks : id[u] = i] = i
  <2>1. \E u \in Tasks : id[u] = i
    BY DEF PendingAreIds
  <2> QED BY <2>1
<1>2. ASSUME id[t] \in pending
      PROVE  \E r \in Synthetic : r.task = t
  <2>1. (CHOOSE u \in Tasks : id[u] = id[t]) = t
    BY <1>1, <1>2 DEF OwnId
  <2>2. [task |-> t, out |-> "error"] \in Synthetic
    BY <1>2, <2>1 DEF Synthetic
  <2> QED BY <2>2
<1>3. ASSUME NEW r \in Synthetic, r.task = t
      PROVE  id[t] \in pending /\ r = [task |-> t, out |-> "error"]
  BY <1>1, <1>3 DEF Synthetic
<1> QED BY <1>2, <1>3

\* One place for each of them.
LEMMA PlacedStep ==
  ASSUME ShapeInv, CapInv, CountInv, [Next]_vars
  PROVE  Placed'
<1> USE DEF CountInv, Placed, Has, OwnId, CapInv, Tidy, ShapeInv, TypeOK, plan, round, history, Tasks, Ids, Results
<1>1. ASSUME Complete PROVE Placed'
  BY <1>1 DEF Complete, IsComplete
<1>2. ASSUME Halt PROVE Placed'
  BY <1>2 DEF Halt
<1>3. ASSUME StartRound PROVE Placed'
  BY <1>3 DEF StartRound, ReadyTasks, Ready, OutOfRounds
<1>4. ASSUME Spawn PROVE Placed'
  BY <1>4 DEF Spawn
<1>5. ASSUME Collect PROVE Placed'
  BY <1>5, OwnSynthetic DEF Collect, AllEnded
<1>6. ASSUME EndRound PROVE Placed'
  BY <1>6 DEF EndRound
<1>7. ASSUME TimeOut PROVE Placed'
  BY <1>7 DEF TimeOut
<1>8. ASSUME NEW t \in Tasks, NEW out \in {"ok", "error"}, Answer(t, out) PROVE Placed'
  BY <1>8 DEF Answer
<1>9. ASSUME NEW t \in Tasks, Panic(t) PROVE Placed'
  BY <1>9 DEF Panic
<1>10. ASSUME NEW r \in Results, Accept(r) PROVE Placed'
  BY <1>10 DEF Accept, Judging, Attempted
<1>11. ASSUME NEW r \in Results, Again(r) PROVE Placed'
  BY <1>11 DEF Again, Judging, Attempted
<1>12. ASSUME NEW r \in Results, Fail(r) PROVE Placed'
  BY <1>12 DEF Fail, Judging, Attempted
<1>13. ASSUME UNCHANGED vars PROVE Placed'
  BY <1>13 DEF vars
<1> QED
  BY ONLY [Next]_vars, <1>1, <1>2, <1>3, <1>4, <1>5, <1>6, <1>7, <1>8, <1>9, <1>10, <1>11, <1>12, <1>13
  DEF Next, Drive, Agent, Judge

\* A judgement counts one attempt and takes one result away.
LEMMA JudgedStep ==
  ASSUME ShapeInv, CapInv, CountInv, NEW r \in Results,
         UNCHANGED <<id, phase, dispatched, queue, pending>>, phase = "verify",
         r \in results, results' = results \ {r},
         attempts' = [attempts EXCEPT ![id[r.task]] = @ + 1]
  PROVE  Counted'
<1> SUFFICES ASSUME NEW t \in Tasks, OwnId(t)
             PROVE  dispatched'[t] = attempts'[id'[t]] + IF Out(t)' THEN 1 ELSE 0
  BY DEF Counted, OwnId
<1>1. pending = {} /\ r.task \in Tasks /\ attempts \in [Ids -> Nat] /\ id[t] \in Ids /\ id[r.task] \in Ids
  BY DEF CapInv, Tidy, Results, ShapeInv, TypeOK
<1>2. dispatched[t] = attempts[id[t]] + IF Has(t) THEN 1 ELSE 0
  BY <1>1 DEF CountInv, Counted, Live, Out
<1>3. Out(t)' <=> Has(t)'
  BY <1>1 DEF Out
<1>4. CASE r.task = t
  <2>1. Has(t) /\ ~Has(t)'
    BY <1>4 DEF Has, CountInv, Placed
  <2> QED BY <1>1, <1>2, <1>3, <1>4, <2>1
<1>5. CASE r.task # t
  <2>1. id[r.task] # id[t]
    BY <1>1, <1>5 DEF OwnId
  <2>2. Has(t)' <=> Has(t)
    BY <1>5 DEF Has
  <2> QED BY <1>1, <1>2, <1>3, <2>1, <2>2
<1> QED BY <1>4, <1>5

\* Spawning counts up what judging will count as an attempt.
LEMMA CountedStep ==
  ASSUME ShapeInv, CapInv, CountInv, [Next]_vars
  PROVE  Counted'
<1> USE DEF CountInv, Placed, Counted, Out, Live, Has, OwnId, CapInv, Tidy, ShapeInv, TypeOK, plan, round, history, Tasks, Ids, Results
<1>1. ASSUME Complete PROVE Counted'
  BY <1>1 DEF Complete, IsComplete
<1>2. ASSUME Halt PROVE Counted'
  BY <1>2 DEF Halt
<1>3. ASSUME StartRound PROVE Counted'
  <2>1. queue = {} /\ pending = {} /\ results = {} /\ Live
    BY <1>3 DEF StartRound
  <2>2. /\ UNCHANGED <<id, dispatched, attempts, results>>
        /\ queue' \subseteq Tasks /\ pending' = {id[t] : t \in queue'}
    BY <1>3 DEF StartRound, ReadyTasks
  <2>3. \A u \in Tasks : ~Out(u) /\ (OwnId(u)' => ~Out(u)' /\ OwnId(u))
    BY <2>1, <2>2
  <2> HIDE DEF Out, OwnId, ShapeInv, CapInv
  <2> QED BY <2>1, <2>2, <2>3
<1>4. ASSUME Spawn PROVE Counted'
  <2>1. PICK t \in queue : /\ queue' = queue \ {t}
                          /\ dispatched' = [dispatched EXCEPT ![t] = @ + 1]
    BY <1>4 DEF Spawn
  <2>2. UNCHANGED <<id, phase, attempts, results, pending>> /\ queue \subseteq Tasks
    BY <1>4 DEF Spawn
  <2>3. dispatched \in [Tasks -> Nat] /\ attempts \in [Ids -> Nat] /\ t \in Tasks
    BY <2>2
  <2>4. \A u \in Tasks : OwnId(u)' => OwnId(u)
    BY <2>2
  <2>5. \A u \in Tasks \ {t} : OwnId(u) => (Out(u)' <=> Out(u))
    BY <2>1, <2>2
  <2>6. OwnId(t) => Out(t)' /\ ~Out(t)
    BY <2>1, <2>2
  <2>7. \A u \in Tasks \ {t} : dispatched'[u] = dispatched[u]
    BY <2>1, <2>3
  <2>8. dispatched'[t] = dispatched[t] + 1 /\ \A u \in Tasks : id[u] \in Ids
    BY <2>1, <2>3
  <2> HIDE DEF Out, OwnId, ShapeInv, CapInv
  <2> QED BY <2>2, <2>3, <2>4, <2>5, <2>6, <2>7, <2>8
<1>5. ASSUME Collect PROVE Counted'
  BY <1>5, OwnSynthetic DEF Collect, AllEnded
<1>6. ASSUME EndRound PROVE Counted'
  BY <1>6 DEF EndRound
<1>7. ASSUME TimeOut PROVE Counted'
  BY <1>7 DEF TimeOut
<1>8. ASSUME NEW t \in Tasks, NEW out \in {"ok", "error"}, Answer(t, out) PROVE Counted'
  <2>1. \A u \in Tasks : Has(u)' <=> Has(u) \/ u = t
    <3> DEFINE new == [task |-> t, out |-> out]
    <3>1. new.task = t
      OBVIOUS
    <3>2. results' = results \union {new}
      BY <1>8 DEF Answer
    <3> HIDE DEF new
    <3> QED BY <3>1, <3>2
  <2>2. UNCHANGED <<id, phase, attempts, dispatched, queue>> /\ pending' = pending \ {id[t]} /\ t \in running
    BY <1>8 DEF Answer
  <2>3. \A u \in Tasks : OwnId(u) => (Out(u)' <=> Out(u))
    BY <2>1, <2>2
  <2>4. \A u \in Tasks : OwnId(u)' <=> OwnId(u)
    BY <2>2
  <2> HIDE DEF Out, OwnId, ShapeInv, CapInv
  <2> QED BY <2>2, <2>3, <2>4
<1>9. ASSUME NEW t \in Tasks, Panic(t) PROVE Counted'
  BY <1>9 DEF Panic
<1>10. ASSUME NEW r \in Results, Accept(r) PROVE Counted'
  <2>1. /\ UNCHANGED <<id, phase, dispatched, queue, pending>> /\ phase = "verify"
        /\ r \in results /\ results' = results \ {r}
        /\ attempts' = [attempts EXCEPT ![id[r.task]] = @ + 1]
    BY <1>10 DEF Accept, Judging, Attempted
  <2> QED BY <2>1, JudgedStep
<1>11. ASSUME NEW r \in Results, Again(r) PROVE Counted'
  <2>1. /\ UNCHANGED <<id, phase, dispatched, queue, pending>> /\ phase = "verify"
        /\ r \in results /\ results' = results \ {r}
        /\ attempts' = [attempts EXCEPT ![id[r.task]] = @ + 1]
    BY <1>11 DEF Again, Judging, Attempted
  <2> QED BY <2>1, JudgedStep
<1>12. ASSUME NEW r \in Results, Fail(r) PROVE Counted'
  <2>1. /\ UNCHANGED <<id, phase, dispatched, queue, pending>> /\ phase = "verify"
        /\ r \in results /\ results' = results \ {r}
        /\ attempts' = [attempts EXCEPT ![id[r.task]] = @ + 1]
    BY <1>12 DEF Fail, Judging, Attempted
  <2> QED BY <2>1, JudgedStep
<1>13. ASSUME UNCHANGED vars PROVE Counted'
  BY <1>13 DEF vars
<1> QED
  BY ONLY [Next]_vars, <1>1, <1>2, <1>3, <1>4, <1>5, <1>6, <1>7, <1>8, <1>9, <1>10, <1>11, <1>12, <1>13
  DEF Next, Drive, Agent, Judge

LEMMA Counting == Spec => []CountInv
<1>1. ShapeInv /\ CapInv /\ CountInv /\ [Next]_vars => CountInv'
  BY PlacedStep, CountedStep DEF CountInv
<1> QED BY InitCount, Shape, Capped, <1>1, PTL DEF Spec

\* Between rounds every dispatch was counted, also those that panicked, whatever
\* the plan; and nothing else was counted of a subtask with an id of its own.
THEOREM DispatchesCounted == Spec => []EveryDispatchCounts
<1>1. ShapeInv /\ CapInv /\ CountInv => EveryDispatchCounts
  <2> SUFFICES ASSUME ShapeInv, CapInv, CountInv, phase = "round", NEW t \in Tasks
               PROVE  /\ dispatched[t] <= attempts[id[t]]
                      /\ OwnId(t) => dispatched[t] = attempts[id[t]]
    BY DEF EveryDispatchCounts
  <2>1. pending = {} /\ results = {}
    BY DEF CapInv, Tidy
  <2>2. attempts[id[t]] \in Nat /\ dispatched[t] \in Nat
    BY DEF ShapeInv, TypeOK
  <2>3. dispatched[t] <= attempts[id[t]]
    BY <2>1, <2>2 DEF CapInv, Accounted, Owed, Live
  <2>4. OwnId(t) => dispatched[t] = attempts[id[t]]
    BY <2>1, <2>2 DEF CountInv, Counted, Out, Has, Live
  <2> QED BY <2>3, <2>4
<1> QED BY Counting, Capped, Shape, <1>1, PTL

-----------------------------------------------------------------------------
(* Good runs complete, for any plan.                                       *)

\* Dependencies name subtasks of the plan.
DepsKnown == \A t \in Tasks : deps[t] \subseteq {id[u] : u \in Tasks}

\* Until an error or a rejection nothing has failed, and what stops such a run
\* short is a budget or that nothing is ready.
CleanInv ==
  clean => /\ failed = {}
           /\ phase = "halted" => ~IsComplete /\ (OutOfRounds \/ ReadyTasks = {})

GoodInv == DepsKnown /\ CleanInv

LEMMA InitGood == Init => GoodInv
BY DEF Init, GoodInv, DepsKnown, CleanInv, Wired

\* Only an error, a rejection or the deadline ends a good run in another way.
LEMMA CleanStep ==
  ASSUME TypeOK, CleanInv, [Next]_vars
  PROVE  CleanInv'
<1> USE DEF CleanInv, plan, round, history, vars, IsComplete, OutOfRounds, ReadyTasks, Ready
<1>1. ASSUME Complete PROVE CleanInv'
  BY <1>1 DEF Complete
<1>2. ASSUME Halt PROVE CleanInv'
  BY <1>2 DEF Halt
<1>3. ASSUME StartRound PROVE CleanInv'
  BY <1>3 DEF StartRound
<1>4. ASSUME Spawn PROVE CleanInv'
  BY <1>4 DEF Spawn
<1>5. ASSUME Collect PROVE CleanInv'
  BY <1>5 DEF Collect
<1>6. ASSUME EndRound PROVE CleanInv'
  BY <1>6 DEF EndRound
<1>7. ASSUME TimeOut PROVE CleanInv'
  BY <1>7 DEF TimeOut
<1>8. ASSUME NEW t \in Tasks, NEW out \in {"ok", "error"}, Answer(t, out) PROVE CleanInv'
  BY <1>8 DEF Answer
<1>9. ASSUME NEW t \in Tasks, Panic(t) PROVE CleanInv'
  BY <1>9 DEF Panic
<1>10. ASSUME NEW r \in Results, Accept(r) PROVE CleanInv'
  BY <1>10 DEF Accept, Judging
<1>11. ASSUME NEW r \in Results, Again(r) PROVE CleanInv'
  BY <1>11 DEF Again
<1>12. ASSUME NEW r \in Results, Fail(r) PROVE CleanInv'
  BY <1>12 DEF Fail
<1>13. ASSUME UNCHANGED vars PROVE CleanInv'
  BY <1>13
<1> QED
  BY ONLY [Next]_vars, <1>1, <1>2, <1>3, <1>4, <1>5, <1>6, <1>7, <1>8, <1>9, <1>10, <1>11, <1>12, <1>13
  DEF Next, Drive, Agent, Judge

\* The plan is made once.
LEMMA PlanStep == [Next]_vars => UNCHANGED plan
BY DEF Next, Drive, Agent, Judge, Complete, Halt, StartRound, Spawn, Collect, EndRound, TimeOut,
       Answer, Panic, Accept, Again, Fail, Judging, vars

LEMMA Good == Spec => []GoodInv
<1>1. ShapeInv /\ GoodInv /\ [Next]_vars => GoodInv'
  BY CleanStep, PlanStep DEF ShapeInv, GoodInv, DepsKnown, plan
<1> QED BY InitGood, Shape, <1>1, PTL DEF Spec

\* A set of ranks that is not empty has a least one.
LEMMA LeastRank ==
  ASSUME NEW R \in SUBSET Nat, R # {}
  PROVE  \E n \in R : \A m \in R : ~(m < n)
<1> DEFINE Less == OpToRel(<, Nat)
<1>1. IsWellFoundedOn(Less, Nat) BY NatLessThanWellFounded
<1>2. \E n \in R : \A m \in R : ~(<<m, n>> \in Less)
  <2> HIDE DEF Less
  <2> QED BY <1>1, WFMin
<1>3. \A m, n \in Nat : m < n => <<m, n>> \in Less BY DEF OpToRel
<1> HIDE DEF Less
<1> QED BY <1>2, <1>3

\* If nothing failed, nothing is ready and something is left to do, the plan has
\* a cycle: of the subtasks left, one of least rank would wait for another.
LEMMA StuckIsCyclic ==
  ASSUME TypeOK, DepsKnown, failed = {}, ReadyTasks = {}, ~IsComplete
  PROVE  ~Acyclic
<1> SUFFICES ASSUME NEW rank \in [Names -> Names],
                    \A t \in Tasks : \A i \in deps[t] : rank[i] < rank[id[t]]
             PROVE  FALSE
  BY DEF Acyclic
<1> DEFINE Left == {t \in Tasks : id[t] \notin accepted}
           Ranks == {rank[id[t]] : t \in Left}
<1>1. \A t \in Tasks : id[t] \in Names /\ rank[id[t]] \in Nat
  <2>1. Names \subseteq Nat /\ Ids \subseteq Names
    BY OrchestratorAssumption DEF Ids, Names, Unknown
  <2>2. \A t \in Tasks : id[t] \in Ids
    BY DEF TypeOK
  <2> QED BY <2>1, <2>2
<1>2. Ranks \in SUBSET Nat /\ Ranks # {}
  BY <1>1 DEF IsComplete
<1>3. PICK n \in Ranks : \A m \in Ranks : ~(m < n)
  BY <1>2, LeastRank
<1>4. PICK t \in Left : rank[id[t]] = n
  BY <1>3
<1>5. PICK i \in deps[t] : i \notin accepted
  BY <1>4 DEF ReadyTasks, Ready
<1>6. PICK u \in Tasks : id[u] = i
  BY <1>4, <1>5 DEF DepsKnown
<1>7. rank[i] \in Ranks /\ rank[i] < n
  BY <1>4, <1>5, <1>6
<1> QED BY <1>3, <1>7

\* GoodRunsComplete for every plan, also with shared ids: if no subagent fails
\* and no result is rejected, only a cycle or the budget of rounds stops a run.
THEOREM GoodCorrect == Spec => []GoodRunsComplete
<1>1. TypeOK /\ GoodInv => GoodRunsComplete
  <2>1. MaxRounds \in Nat /\ (TypeOK => rounds \in Nat) BY OrchestratorAssumption DEF TypeOK
  <2> QED BY <2>1, StuckIsCyclic DEF GoodInv, CleanInv, GoodRunsComplete, OutOfRounds
<1> QED BY <1>1, Good, Shape, PTL DEF ShapeInv

-----------------------------------------------------------------------------
(* What Terminates needs besides fairness: a variant, and no dead end.     *)

Ended == phase \in {"done", "halted"}

\* The most steps that are left of the round, with TimeOut or Complete to come.
InRound ==
  CASE phase = "dispatch" -> 2 * Cardinality(queue) + Cardinality(running) + 2 * N + 2
    [] phase = "verify" -> Cardinality(results) + 1
    [] OTHER -> 0
RoundSteps == 5 * N + 3
Variant == IF Ended THEN 0 ELSE 1 + (MaxRounds - rounds) * RoundSteps + InRound

\* A step of the driver, of a subagent or of the critic can be taken.
CanGoOn ==
  \/ phase \in {"round", "verify"}
  \/ /\ phase = "dispatch"
     /\ \/ AllEnded \/ running # {}
        \/ Permit /\ \E t \in queue : \A u \in queue : t <= u

\* There are at most two results per subtask.
LEMMA ResultsFinite == IsFiniteSet(Results) /\ Cardinality(Results) <= 2 * N
<1> DEFINE f == [r \in Results |-> IF r.out = "ok" THEN 2 * r.task ELSE 2 * r.task - 1]
<1>1. N \in Nat /\ 2 * N \in Nat BY OrchestratorAssumption
<1>2. f \in [Results -> 1..(2 * N)] BY <1>1 DEF Results, Tasks
<1>3. ASSUME NEW r \in Results, NEW q \in Results, f[r] = f[q] PROVE r = q
  <2>1. r.task \in Nat /\ q.task \in Nat BY <1>1 DEF Results, Tasks
  <2>2. r.out = q.out /\ r.task = q.task BY <1>3, <2>1 DEF Results
  <2> QED BY <2>2 DEF Results
<1>4. f \in Injection(Results, 1..(2 * N))
  <2> HIDE DEF f
  <2> QED BY <1>2, <1>3 DEF Injection, IsInjective
<1>5. IsFiniteSet(1..(2 * N)) /\ Cardinality(1..(2 * N)) = 2 * N
  BY <1>1, FS_Interval
<1> HIDE DEF f
<1>6. IsFiniteSet(Results) /\ Cardinality(Results) <= Cardinality(1..(2 * N))
  BY <1>4, <1>5, FS_Injection
<1> QED BY <1>5, <1>6

\* Sizes of what a round works on.
LEMMA TaskSizes ==
  ASSUME NEW S \in SUBSET Tasks PROVE IsFiniteSet(S) /\ Cardinality(S) \in 0..N
<1>1. N \in Nat BY OrchestratorAssumption
<1>2. IsFiniteSet(Tasks) /\ Cardinality(Tasks) = N BY <1>1, FS_Interval DEF Tasks
<1> QED BY <1>1, <1>2, FS_Subset, FS_CardinalityType

LEMMA ResultSizes ==
  ASSUME NEW S \in SUBSET Results PROVE IsFiniteSet(S) /\ Cardinality(S) \in 0..(2 * N)
<1>1. N \in Nat BY OrchestratorAssumption
<1>2. IsFiniteSet(S) /\ Cardinality(S) <= Cardinality(Results) BY ResultsFinite, FS_Subset
<1>3. Cardinality(S) \in Nat /\ Cardinality(Results) \in Nat
  BY <1>2, ResultsFinite, FS_CardinalityType
<1> QED BY <1>1, <1>2, <1>3, ResultsFinite

LEMMA Sizes ==
  ASSUME TypeOK
  PROVE  /\ IsFiniteSet(queue) /\ Cardinality(queue) \in 0..N
         /\ IsFiniteSet(running) /\ Cardinality(running) \in 0..N
         /\ IsFiniteSet(results) /\ Cardinality(results) \in 0..(2 * N)
BY TaskSizes, ResultSizes DEF TypeOK

\* The rounds that are left, and one fewer.
LEMMA RoundsLeft ==
  ASSUME NEW r \in 0..MaxRounds
  PROVE  /\ (MaxRounds - r) * RoundSteps \in Nat
         /\ r < MaxRounds =>
              (MaxRounds - (r + 1)) * RoundSteps = (MaxRounds - r) * RoundSteps - RoundSteps
<1>1. RoundSteps \in Nat /\ MaxRounds \in Nat BY OrchestratorAssumption DEF RoundSteps
<1>2. ASSUME NEW a \in Nat, NEW w \in Nat PROVE a * w \in Nat OBVIOUS
<1>3. ASSUME NEW a \in Int, NEW w \in Int PROVE (a - 1) * w = a * w - w OBVIOUS
<1>4. MaxRounds - r \in Nat /\ MaxRounds - (r + 1) = (MaxRounds - r) - 1 BY <1>1
<1> QED BY <1>1, <1>2, <1>3, <1>4

LEMMA VariantType == TypeOK => Variant \in Nat
<1> SUFFICES ASSUME TypeOK PROVE Variant \in Nat OBVIOUS
<1>1. InRound \in Nat BY Sizes, OrchestratorAssumption DEF InRound
<1>2. (MaxRounds - rounds) * RoundSteps \in Nat BY RoundsLeft DEF TypeOK
<1> QED BY <1>1, <1>2 DEF Variant

\* A step within a round takes from the round what it does.
LEMMA WithinRound ==
  ASSUME TypeOK, ~Ended, UNCHANGED rounds, InRound' \in Nat, InRound' < InRound
  PROVE  Variant' < Variant
<1>1. (MaxRounds - rounds) * RoundSteps \in Nat BY RoundsLeft DEF TypeOK
<1>2. InRound \in Nat BY Sizes, OrchestratorAssumption DEF InRound
<1>3. Variant = 1 + (MaxRounds - rounds) * RoundSteps + InRound BY DEF Variant
<1>4. Variant' = 0 \/ Variant' = 1 + (MaxRounds - rounds) * RoundSteps + InRound' BY DEF Variant
<1> HIDE DEF InRound
<1> QED BY <1>1, <1>2, <1>3, <1>4

LEMMA EndFalls == ASSUME TypeOK, ~Ended, Ended' PROVE Variant' < Variant
<1>1. Variant' = 0 BY DEF Variant
<1>2. InRound \in Nat BY Sizes, OrchestratorAssumption DEF InRound
<1>3. (MaxRounds - rounds) * RoundSteps \in Nat BY RoundsLeft DEF TypeOK
<1>4. Variant = 1 + (MaxRounds - rounds) * RoundSteps + InRound BY DEF Variant
<1> QED BY <1>1, <1>2, <1>3, <1>4

\* Every step takes something from the variant.
LEMMA VariantStep ==
  ASSUME TypeOK, TypeOK', Tidy, Next PROVE Variant' < Variant
<1>1. N \in Nat /\ 2 * N \in Nat BY OrchestratorAssumption
<1>2. PICK q \in Nat, n \in Nat, r \in Nat :
        /\ q = Cardinality(queue) /\ n = Cardinality(running) /\ r = Cardinality(results)
        /\ r <= 2 * N
  BY <1>1, Sizes
<1>3. PICK q1 \in Nat, n1 \in Nat, r1 \in Nat :
        /\ q1 = Cardinality(queue') /\ n1 = Cardinality(running') /\ r1 = Cardinality(results')
        /\ q1 <= N /\ n1 <= N /\ r1 <= 2 * N
  <2>1. queue' \in SUBSET Tasks /\ running' \in SUBSET Tasks /\ results' \in SUBSET Results
    BY DEF TypeOK
  <2> QED BY <1>1, <2>1, TaskSizes, ResultSizes
<1>4. IsFiniteSet(queue) /\ IsFiniteSet(running) /\ IsFiniteSet(results) BY Sizes
<1>5. /\ phase = "dispatch" => InRound = 2 * q + n + 2 * N + 2
      /\ phase = "verify" => InRound = r + 1
      /\ phase = "round" => InRound = 0
  BY <1>2 DEF InRound
<1>6. /\ phase' = "dispatch" => InRound' = 2 * q1 + n1 + 2 * N + 2
      /\ phase' = "verify" => InRound' = r1 + 1
      /\ phase' = "round" => InRound' = 0
  BY <1>3 DEF InRound
<1>7. CASE Complete \/ Halt \/ TimeOut
  BY <1>7, EndFalls DEF Complete, Halt, TimeOut, Ended
<1>8. CASE StartRound
  <2>1. phase = "round" /\ phase' = "dispatch" /\ rounds' = rounds + 1 /\ rounds < MaxRounds
    BY <1>8, OrchestratorAssumption DEF StartRound, OutOfRounds, TypeOK
  <2>2. PICK m, l : /\ m = (MaxRounds - rounds) * RoundSteps
                    /\ l = (MaxRounds - (rounds + 1)) * RoundSteps
    OBVIOUS
  <2>3. m \in Nat /\ l = m - RoundSteps
    BY <2>1, <2>2, RoundsLeft DEF TypeOK
  <2>4. Variant = 1 + m + InRound BY <2>1, <2>2 DEF Variant, Ended
  <2>5. Variant' = 1 + l + InRound' BY <2>1, <2>2 DEF Variant, Ended
  <2>6. RoundSteps = 5 * N + 3 BY DEF RoundSteps
  <2>7. InRound = 0 /\ InRound' = 2 * q1 + n1 + 2 * N + 2 BY <2>1, <1>5, <1>6
  <2>8. 2 * q1 + n1 + 2 * N + 2 < 5 * N + 3 BY <1>1, <1>3
  <2>9. PICK x \in Nat : x = 2 * q1 + n1 + 2 * N + 2 BY <1>1, <1>3
  <2>10. PICK y \in Nat : y = 5 * N + 3 BY <1>1
  <2> QED BY ONLY <2>3, <2>4, <2>5, <2>6, <2>7, <2>8, <2>9, <2>10
<1>9. CASE Spawn
  <2>1. PICK t \in queue : queue' = queue \ {t} /\ running' = running \union {t}
    BY <1>9 DEF Spawn
  <2>2. phase = "dispatch" /\ UNCHANGED <<phase, rounds>> BY <1>9 DEF Spawn
  <2>3. q1 = q - 1 BY <1>2, <1>3, <1>4, <2>1, FS_RemoveElement
  <2>4. n1 = n \/ n1 = n + 1 BY <1>2, <1>3, <1>4, <2>1, FS_AddElement
  <2>5. InRound = 2 * q + n + 2 * N + 2 /\ InRound' = 2 * q1 + n1 + 2 * N + 2
    BY <1>5, <1>6, <2>2
  <2>6. InRound' < InRound /\ InRound' \in Nat BY ONLY <1>1, <1>2, <1>3, <2>3, <2>4, <2>5
  <2> QED BY <2>2, <2>6, WithinRound DEF Ended
<1>10. CASE Collect
  <2>1. phase = "dispatch" /\ phase' = "verify" /\ UNCHANGED rounds BY <1>10 DEF Collect
  <2>2. InRound = 2 * q + n + 2 * N + 2 /\ InRound' = r1 + 1 BY <1>5, <1>6, <2>1
  <2>3. InRound' < InRound /\ InRound' \in Nat BY ONLY <1>1, <1>2, <1>3, <2>2
  <2> QED BY <2>1, <2>3, WithinRound DEF Ended
<1>11. CASE EndRound
  <2>1. phase = "verify" /\ phase' = "round" /\ UNCHANGED rounds BY <1>11 DEF EndRound
  <2>2. InRound = r + 1 /\ InRound' = 0 BY <1>5, <1>6, <2>1
  <2>3. InRound' < InRound /\ InRound' \in Nat BY ONLY <1>2, <2>2
  <2> QED BY <2>1, <2>3, WithinRound DEF Ended
<1>12. ASSUME NEW t \in Tasks, Agent(t) PROVE Variant' < Variant
  <2>1. t \in running /\ running' = running \ {t} /\ UNCHANGED <<queue, phase, rounds>>
    BY <1>12 DEF Agent, Panic, Answer
  <2>2. phase = "dispatch" BY <2>1 DEF Tidy
  <2>3. n1 = n - 1 /\ q1 = q BY <1>2, <1>3, <1>4, <2>1, FS_RemoveElement
  <2>4. InRound = 2 * q + n + 2 * N + 2 /\ InRound' = 2 * q1 + n1 + 2 * N + 2
    BY <1>5, <1>6, <2>1, <2>2
  <2>5. InRound' < InRound /\ InRound' \in Nat BY ONLY <1>1, <1>2, <1>3, <2>3, <2>4
  <2> QED BY <2>1, <2>2, <2>5, WithinRound DEF Ended
<1>13. ASSUME NEW x \in Results, Judge(x) PROVE Variant' < Variant
  <2>1. phase = "verify" /\ x \in results /\ results' = results \ {x} /\ UNCHANGED <<phase, rounds>>
    BY <1>13 DEF Judge, Accept, Again, Fail, Judging
  <2>2. r1 = r - 1 BY <1>2, <1>3, <1>4, <2>1, FS_RemoveElement
  <2>3. InRound = r + 1 /\ InRound' = r1 + 1 BY <1>5, <1>6, <2>1
  <2>4. InRound' < InRound /\ InRound' \in Nat BY ONLY <1>2, <1>3, <2>2, <2>3
  <2> QED BY <2>1, <2>4, WithinRound DEF Ended
<1> QED BY ONLY Next, <1>7, <1>8, <1>9, <1>10, <1>11, <1>12, <1>13 DEF Next, Drive

\* The loop makes finitely many steps, whatever the plan, the verdicts, the
\* panics and the order of completion: a natural number falls with each of them.
THEOREM StepsBounded == Spec => [](Variant \in Nat) /\ [][Variant' < Variant]_vars
<1>1. CapInv /\ TypeOK /\ TypeOK' /\ [Next]_vars => [Variant' < Variant]_vars
  BY VariantStep DEF CapInv
<1> QED BY <1>1, Capped, TypeCorrect, VariantType, PTL DEF Spec

\* It starts at one step for every subtask's two moves, run and result of every
\* round of the budget.
LEMMA FirstVariant == Init => Variant = 1 + MaxRounds * RoundSteps
BY OrchestratorAssumption DEF Init, Variant, InRound, Ended, RoundSteps

\* The loop never hangs: until it has ended, the driver goes on, or waits for a
\* subagent or a verdict that is under way; no permit is lost to a panic.
THEOREM NoDeadEnd == Spec => [](Ended \/ CanGoOn)
<1>1. TypeOK => Ended \/ CanGoOn
  <2> SUFFICES ASSUME TypeOK, phase = "dispatch", ~AllEnded, running = {}
               PROVE  Permit /\ \E t \in queue : \A u \in queue : t <= u
    BY DEF CanGoOn, Ended, TypeOK, Phases
  <2>1. Permit BY OrchestratorAssumption, FS_EmptySet DEF Permit
  <2>2. queue \in SUBSET Nat /\ queue # {} BY DEF AllEnded, TypeOK, Tasks
  <2>3. PICK t \in queue : \A u \in queue : ~(u < t) BY <2>2, LeastRank
  <2> QED BY <2>1, <2>2, <2>3
<1> QED BY <1>1, TypeCorrect, PTL
===============================================================================
