---------------------------- MODULE Orchestrator ----------------------------
(***************************************************************************)
(* The multi-agent driver (ordo-orchestrator): a goal is split into a DAG  *)
(* of subtasks; in rounds, the subtasks whose dependencies were accepted   *)
(* are dispatched to concurrent subagents under a semaphore, then each     *)
(* result is judged: accepted, tried again in a later round, or failed.    *)
(* A subtask is a position in the plan; its id is what the driver's maps   *)
(* are keyed by, and the planning model chooses it.                        *)
(***************************************************************************)
EXTENDS Naturals, FiniteSets

CONSTANTS
  N,             \* number of subtasks of the plan
  MaxConcurrent, MaxRounds, MaxAttempts,  \* OrchestratorBudget
  Bounded        \* TRUE: run_bounded, whose deadline may pass; FALSE: run

ASSUME OrchestratorAssumption ==
  /\ N \in Nat \ {0} /\ Bounded \in BOOLEAN
  /\ MaxConcurrent \in Nat /\ MaxRounds \in Nat /\ MaxAttempts \in Nat

Tasks == 1..N
Ids == 1..N

VARIABLES
  id, deps,   \* the plan: each subtask's id, and the ids it depends on
  phase,      \* "round": top of the loop; "dispatch"; "verify"; "done"; "halted"
  rounds,
  accepted,   \* ids: the maps completed and accepted
  failed,     \* ids
  attempts,   \* per id
  queue,      \* subtasks of this round that wait for a permit
  running,    \* subtasks whose subagent holds a permit
  results,    \* results of this round not yet judged
  pending,    \* ids of this round without a result
  passed,     \* history: subtasks whose own result was accepted
  dispatched, \* history: how often each subtask was dispatched
  clean       \* history: no error, no rejection so far

plan == <<id, deps>>
round == <<queue, running, results, pending>>
history == <<passed, dispatched, clean>>
vars == <<plan, phase, rounds, accepted, failed, attempts, round, history>>

Unknown == N + 1            \* a name the plan's "deps" use for no subtask
Names == Ids \union {Unknown}

\* parse_plan drops the unknown dependencies, and those of a subtask on its own
\* id; an id is mapped once, and nothing looks for cycles.
KeepUnknown(ids, wanted, t) == wanted[t] \ {ids[t]}   \* (mutant) unknown ids gate
Wired(ids, wanted, t) ==
  (wanted[t] \intersect {ids[u] : u \in Tasks}) \ {ids[t]}

Init ==
  /\ \E ids \in [Tasks -> Ids], wanted \in [Tasks -> SUBSET Names] :
       /\ id = ids /\ deps = [t \in Tasks |-> Wired(ids, wanted, t)]
  /\ phase = "round" /\ rounds = 0
  /\ accepted = {} /\ failed = {} /\ attempts = [i \in Ids |-> 0]
  /\ queue = {} /\ running = {} /\ results = {} /\ pending = {}
  /\ passed = {} /\ dispatched = [t \in Tasks |-> 0] /\ clean = TRUE

IsComplete == \A t \in Tasks : id[t] \in accepted

\* PlannedGoal::ready and the driver's filter.
ReadyAnyway(t) == id[t] \notin accepted \union failed   \* (mutant) dependencies do not gate
Ready(t) == id[t] \notin accepted \union failed /\ deps[t] \subseteq accepted
ReadyTasks == {t \in Tasks : Ready(t)}

OutOfRounds == rounds >= MaxRounds

-----------------------------------------------------------------------------
(* Top of the loop.                                                        *)

Complete ==
  /\ phase = "round" /\ IsComplete
  /\ phase' = "done"
  /\ UNCHANGED <<plan, rounds, accepted, failed, attempts, round, history>>

Halt ==
  /\ phase = "round" /\ ~IsComplete
  /\ OutOfRounds \/ ReadyTasks = {}
  /\ phase' = "halted"
  /\ UNCHANGED <<plan, rounds, accepted, failed, attempts, round, history>>

StartRound ==
  /\ phase = "round" /\ ~IsComplete
  /\ ~OutOfRounds /\ ReadyTasks # {}
  /\ phase' = "dispatch" /\ rounds' = rounds + 1
  /\ queue' = ReadyTasks
  /\ pending' = {id[t] : t \in ReadyTasks}
  /\ UNCHANGED <<plan, accepted, failed, attempts, running, results, history>>

-----------------------------------------------------------------------------
(* dispatch_subtasks: a permit is acquired before the spawn and released   *)
(* when the subagent ends; results come in the order of completion.        *)

Permit == Cardinality(running) < IF MaxConcurrent = 0 THEN 1 ELSE MaxConcurrent

Spawn ==
  /\ phase = "dispatch" /\ Permit
  /\ \E t \in queue :
       /\ \A u \in queue : t <= u
       /\ queue' = queue \ {t} /\ running' = running \union {t}
       /\ dispatched' = [dispatched EXCEPT ![t] = @ + 1]
  /\ UNCHANGED <<plan, phase, rounds, accepted, failed, attempts, results, pending, passed, clean>>

Answer(t, out) ==
  /\ t \in running /\ running' = running \ {t}
  /\ results' = results \union {[task |-> t, out |-> out]}
  /\ pending' = pending \ {id[t]}
  /\ clean' = (clean /\ out = "ok")
  /\ UNCHANGED <<plan, phase, rounds, accepted, failed, attempts, queue, passed, dispatched>>

\* The join error is logged; the permit went with the task.
Panic(t) ==
  /\ t \in running /\ running' = running \ {t}
  /\ clean' = FALSE
  /\ UNCHANGED <<plan, phase, rounds, accepted, failed, attempts, queue, results, pending,
                 passed, dispatched>>

\* The ids without a result are given an error.
NothingSynthetic == {}        \* (mutant) panicked subtasks are dropped
Synthetic ==
  {[task |-> CHOOSE t \in Tasks : id[t] = i, out |-> "error"] : i \in pending}

AllAnswered == queue = {} /\ running = {} /\ pending = {}   \* (mutant) a result of each is awaited
AllEnded == queue = {} /\ running = {}

Collect ==
  /\ phase = "dispatch" /\ AllEnded
  /\ results' = results \union Synthetic
  /\ pending' = {} /\ phase' = "verify"
  /\ UNCHANGED <<plan, rounds, accepted, failed, attempts, queue, running, history>>

-----------------------------------------------------------------------------
(* The loop over the results.  A result is judged by the deterministic     *)
(* checks and the critic; the order of completion is any order.            *)

Attempted(i) == attempts' = [attempts EXCEPT ![i] = @ + 1]
NeverExhausted(i) == FALSE    \* (mutant) the cap on attempts is not applied
Exhausted(i) == attempts[i] + 1 >= MaxAttempts

Judging(r) ==
  /\ phase = "verify" /\ r \in results /\ results' = results \ {r}
  /\ Attempted(id[r.task])
  /\ UNCHANGED <<plan, phase, rounds, queue, running, pending, dispatched>>

Accept(r) ==
  /\ Judging(r) /\ r.out = "ok"
  /\ accepted' = accepted \union {id[r.task]}
  /\ passed' = passed \union {r.task}
  /\ UNCHANGED <<failed, clean>>

\* A dispatch error or a Revise verdict: again, unless exhausted.
Again(r) ==
  /\ Judging(r) /\ clean' = FALSE
  /\ failed' = IF Exhausted(id[r.task]) THEN failed \union {id[r.task]} ELSE failed
  /\ UNCHANGED <<accepted, passed>>

Fail(r) ==
  /\ Judging(r) /\ r.out = "ok" /\ clean' = FALSE
  /\ failed' = failed \union {id[r.task]}
  /\ UNCHANGED <<accepted, passed>>

EndRound ==
  /\ phase = "verify" /\ results = {}
  /\ phase' = "round"
  /\ UNCHANGED <<plan, rounds, accepted, failed, attempts, round, history>>

-----------------------------------------------------------------------------
(* run_bounded: the deadline drops the run and its subagents, and reports  *)
(* no progress.                                                            *)

TimeOut ==
  /\ Bounded /\ phase \notin {"done", "halted"}
  /\ phase' = "halted" /\ rounds' = 0
  /\ accepted' = {} /\ failed' = {}
  /\ queue' = {} /\ running' = {} /\ results' = {} /\ pending' = {}
  /\ clean' = FALSE
  /\ UNCHANGED <<plan, attempts, passed, dispatched>>

Agent(t) == Panic(t) \/ \E out \in {"ok", "error"} : Answer(t, out)
Judge(r) == Accept(r) \/ Again(r) \/ Fail(r)
Drive == Complete \/ Halt \/ StartRound \/ Spawn \/ Collect \/ EndRound

Results == [task : Tasks, out : {"ok", "error"}]

Next ==
  \/ Drive \/ TimeOut
  \/ \E t \in Tasks : Agent(t)
  \/ \E r \in Results : Judge(r)

Spec == Init /\ [][Next]_vars

\* The driver goes on, every subagent ends, every critic answers.
FairSpec ==
  /\ Spec /\ WF_vars(Drive)
  /\ WF_vars(\E t \in Tasks : Agent(t))
  /\ WF_vars(\E r \in Results : Judge(r))

-----------------------------------------------------------------------------
(* Properties.                                                             *)

Phases == {"round", "dispatch", "verify", "done", "halted"}

\* The shape of the plan and of the driver's locals.
TypeOK ==
  /\ id \in [Tasks -> Ids] /\ deps \in [Tasks -> SUBSET Ids]
  /\ phase \in Phases /\ rounds \in 0..MaxRounds
  /\ accepted \subseteq Ids /\ failed \subseteq Ids
  /\ attempts \in [Ids -> Nat]
  /\ queue \subseteq Tasks /\ running \subseteq Tasks
  /\ results \subseteq Results /\ pending \subseteq Ids
  /\ passed \subseteq Tasks /\ dispatched \in [Tasks -> Nat] /\ clean \in BOOLEAN

\* "Ids of sibling subtasks that must complete before this one is ready"
\* (plan.rs:30): a subagent only runs while all it depends on is accepted.
DependenciesFirst ==
  \A t \in running \union queue : deps[t] \subseteq accepted

OwnId(t) == \A u \in Tasks : id[u] = id[t] => u = t

\* A dispatch is never lost: between rounds every dispatch of a subtask, also
\* one that panicked, was counted as an attempt of its id (dispatch.rs:98), and
\* only those were if no other subtask has its id.
EveryDispatchCounts ==
  phase = "round" =>
    \A t \in Tasks : /\ dispatched[t] <= attempts[id[t]]
                     /\ OwnId(t) => dispatched[t] = attempts[id[t]]

\* "Maximum dispatches of a single subtask (initial attempt + any
\* re-dispatches on Revise / transient error)" (lib.rs:44).
DispatchesCapped ==
  \A t \in Tasks : dispatched[t] <= IF MaxAttempts = 0 THEN 1 ELSE MaxAttempts

Acyclic ==
  \E rank \in [Names -> Names] : \A t \in Tasks : \A i \in deps[t] : rank[i] < rank[id[t]]

\* A goal whose subagents all succeed and whose plan has no cycle is only
\* halted by a budget.
GoodRunsComplete ==
  phase = "halted" /\ clean /\ rounds < MaxRounds => ~Acyclic

\* "Always terminates" (driver.rs:104): the loop ends, whatever the plan, the
\* verdicts and the panics, if subagents and critic do.
Terminates == <>(phase \in {"done", "halted"})
=============================================================================
