------------------------------ MODULE MemoryLog ------------------------------
(***************************************************************************)
(* The append-only event log (ordo-memory-log).  The rows sit behind one   *)
(* mutex, the health counters behind another; append takes them one after  *)
(* the other, several times, and other threads run in between.  Assistant  *)
(* turns append events; the health task appends a canary, takes a snapshot *)
(* of the health and publishes it, for ever.                               *)
(*                                                                         *)
(* A payload stands for its hash.  Left out, but not the locks they take:  *)
(* pins, tiers, soft deletion, and the rows of canaries and violations.    *)
(***************************************************************************)
EXTENDS Naturals

CONSTANTS
  Writers, Prober,   \* the threads: assistant turns, and the health task
  Ids, Payloads,
  None,
  Window,            \* DEDUPE_WINDOW_MS, in ticks of the clock
  MaxTime,
  MaxMishaps         \* how many storage errors and restarts there are, together

Procs == Writers \union {Prober}

Event ==
  [id : Ids, payload : Payloads, at : 0..MaxTime, parent : Ids \union {None}]

ASSUME MemoryLogAssumption ==
  /\ Prober \notin Writers
  /\ None \notin Ids \union Payloads \union Procs \union Event
  /\ Window \in Nat /\ MaxTime \in Nat /\ MaxMishaps \in Nat

VARIABLES
  log,        \* table memory_events
  store,      \* who holds the mutex of the rows between two steps
  counters,   \* who holds the mutex of the health counters between two steps
  failed,     \* appends_failed_last_hour
  shown,      \* that number in the last snapshot of the health task
  pc, event, result,   \* per thread: where it is, what it appends, what it will answer
  announced,  \* how often each event was broadcast
  seen,       \* history, per thread: the rows there were when its call began
  now, faults, crashes

locks == <<store, counters>>
health == <<failed, shown>>
calls == <<pc, event, result, seen>>
bounds == <<now, faults, crashes>>
vars == <<log, locks, health, calls, announced, bounds>>

Canary == [id |-> None, payload |-> None, at |-> 0, parent |-> None]
NoResult == [id |-> None, fresh |-> FALSE]

Init ==
  /\ log = [i \in Ids |-> None] /\ announced = [i \in Ids |-> 0]
  /\ store = None /\ counters = None /\ failed = 0 /\ shown = 0
  /\ pc = [p \in Procs |-> "idle"] /\ event = [p \in Procs |-> None]
  /\ result = [p \in Procs |-> NoResult] /\ seen = [p \in Procs |-> {}]
  /\ now = 0 /\ faults = 0 /\ crashes = 0

Stored(i) == log[i] # None
Rows == {i \in Ids : Stored(i)}

\* The call goes on, ...
Goto(p, where) == pc' = [pc EXCEPT ![p] = where] /\ UNCHANGED <<event, seen>>

\* ... or append returns; the health task then calls health(), whatever the
\* answer was.
Return(p) ==
  /\ pc' = [pc EXCEPT ![p] = IF p = Prober THEN "snapshot" ELSE "idle"]
  /\ event' = [event EXCEPT ![p] = None] /\ seen' = [seen EXCEPT ![p] = {}]
  /\ result' = [result EXCEPT ![p] = NoResult]

\* What p takes and lets go of within one step.
LocksStore == store = None /\ UNCHANGED locks

\* A storage error; the disk is the only thing that fails.
Fault == faults + crashes < MaxMishaps /\ faults' = faults + 1 /\ UNCHANGED <<now, crashes>>

-----------------------------------------------------------------------------
(* append, up to its first lock.                                           *)

\* The parent is looked up first, if there is one.
Begin(p, e) ==
  /\ pc[p] = "idle"
  /\ pc' = [pc EXCEPT ![p] = IF e.parent # None THEN "parent" ELSE "dedupe"]
  /\ event' = [event EXCEPT ![p] = e] /\ seen' = [seen EXCEPT ![p] = Rows]
  /\ UNCHANGED <<log, locks, health, result, announced, bounds>>

\* An id is new when nothing in the process or the log has it.
InFlight == {event[q] : q \in Procs} \intersect Event
Append(p) ==
  /\ p \in Writers
  /\ \E e \in Event : /\ ~Stored(e.id) /\ \A f \in InFlight : f.id # e.id
                      /\ e.at = now /\ e.parent # e.id /\ Begin(p, e)

\* An event whose answer was lost, or whose sender waited too long.
Resend(p) == p \in Writers /\ \E e \in InFlight \union {log[i] : i \in Rows} : Begin(p, e)

\* The id is no ULID, or the hash is not the payload's.
AppendUnsound(p) ==
  /\ p \in Writers /\ pc[p] = "idle" /\ Goto(p, "violation")
  /\ UNCHANGED <<log, locks, health, result, announced, bounds>>

CanaryProbe(p) == p = Prober /\ Begin(p, Canary)

-----------------------------------------------------------------------------
(* append, lock by lock.                                                   *)

ParentExists(p) == Stored(event[p].parent)

CheckParent(p) ==
  /\ pc[p] = "parent" /\ LocksStore
  /\ Goto(p, IF ParentExists(p) THEN "dedupe" ELSE "violation")
  /\ UNCHANGED <<log, health, result, announced, bounds>>

\* The parent cannot be looked up, or the row of the id: the error is returned
\* without being counted.
LookupFails(p) ==
  /\ pc[p] \in {"parent", "get"} /\ LocksStore /\ Fault /\ Return(p)
  /\ UNCHANGED <<log, health, announced>>

\* Evidence is inserted directly, past append, and whether that fails is not
\* looked at.
EmitViolation(p) ==
  /\ pc[p] = "violation" /\ LocksStore /\ Return(p)
  /\ UNCHANGED <<log, health, announced, bounds>>

\* recent_by_hash: the latest row with that payload, whatever else it holds.
AnyRecent(e) == {i \in Rows : log[i].at + Window >= e.at}  \* (mutant) of any payload
SameTick(e) ==            \* (mutant) the window is open at its start
  {i \in Rows : log[i].payload = e.payload /\ log[i].at + Window > e.at}
Recent(e) == {i \in Rows : log[i].payload = e.payload /\ log[i].at + Window >= e.at}
Latest(S) == {i \in S : \A j \in S : log[j].at <= log[i].at}
Duplicate(i) == [id |-> i, fresh |-> FALSE]

Dedupe(p) ==
  /\ pc[p] = "dedupe" /\ LocksStore
  /\ \/ /\ Recent(event[p]) = {} /\ Goto(p, "insert") /\ UNCHANGED result
     \/ /\ Goto(p, "count")
        /\ \E i \in Latest(Recent(event[p])) : result' = [result EXCEPT ![p] = Duplicate(i)]
  /\ UNCHANGED <<log, health, announced, bounds>>

\* The guard of the rows lives as long as the match on what it returned: the
\* failure is counted with the rows locked.
KeepsStore(p) == store = None /\ store' = p /\ UNCHANGED counters

DedupeFails(p) ==
  /\ pc[p] = "dedupe" /\ KeepsStore(p) /\ Fault /\ Goto(p, "count_failure")
  /\ UNCHANGED <<log, health, result, announced>>

\* INSERT OR IGNORE.
Insert(p) ==
  LET e == event[p] IN
  /\ pc[p] = "insert" /\ LocksStore
  /\ \/ e = Canary /\ Goto(p, "count") /\ UNCHANGED <<log, result>>
     \/ /\ e # Canary /\ ~Stored(e.id) /\ Goto(p, "count")
        /\ log' = [log EXCEPT ![e.id] = e]
        /\ result' = [result EXCEPT ![p] = [id |-> e.id, fresh |-> TRUE]]
     \/ e # Canary /\ Stored(e.id) /\ Goto(p, "get") /\ UNCHANGED <<log, result>>
  /\ UNCHANGED <<health, announced, bounds>>

InsertFails(p) ==
  /\ pc[p] = "insert" /\ LocksStore /\ Fault /\ Goto(p, "count_failure")
  /\ UNCHANGED <<log, health, result, announced>>

\* The id is there already: the event was sent twice at a time.  The success is
\* counted inside the if let, with the rows locked.
GetById(p) ==
  /\ pc[p] = "get" /\ KeepsStore(p) /\ Goto(p, "count")
  /\ result' = [result EXCEPT ![p] = Duplicate(event[p].id)]
  /\ UNCHANGED <<log, health, announced, bounds>>

Leaks(p) == UNCHANGED locks              \* (mutant) the guard is never dropped
Unlocks(p) == store' = (IF store = p THEN None ELSE store) /\ UNCHANGED counters

\* A duplicate is not announced: the subscriber already saw it.
AnnouncesAll(p) == event[p] # Canary     \* (mutant) a duplicate is announced again
Announces(p) == result[p].fresh

RecordSuccess(p) ==
  /\ pc[p] = "count" /\ counters = None /\ Unlocks(p)
  /\ \/ Announces(p) /\ Goto(p, "announce") /\ UNCHANGED result
     \/ ~Announces(p) /\ Return(p)
  /\ UNCHANGED <<log, health, announced, bounds>>

RecordFailure(p) ==
  /\ pc[p] = "count_failure" /\ counters = None /\ Unlocks(p) /\ Return(p)
  /\ failed' = failed + 1
  /\ UNCHANGED <<log, shown, announced, bounds>>

Broadcast(p) ==
  /\ pc[p] = "announce" /\ Return(p)
  /\ announced' = [announced EXCEPT ![result[p].id] = @ + 1]
  /\ UNCHANGED <<log, locks, health, bounds>>

AppendStep(p) ==
  \/ CheckParent(p) \/ EmitViolation(p) \/ Dedupe(p) \/ Insert(p) \/ GetById(p)
  \/ RecordSuccess(p) \/ RecordFailure(p) \/ Broadcast(p)
AppendFails(p) == LookupFails(p) \/ DedupeFails(p) \/ InsertFails(p)

-----------------------------------------------------------------------------
(* health: the rows are counted with the counters locked.                  *)

LockCounters(p) ==
  /\ pc[p] = "snapshot" /\ counters = None
  /\ counters' = p /\ Goto(p, "total")
  /\ UNCHANGED <<log, store, health, result, announced, bounds>>

Snapshot(p) ==
  /\ pc[p] = "total" /\ store = None
  /\ counters' = None /\ shown' = failed /\ pc' = [pc EXCEPT ![p] = "idle"]
  /\ UNCHANGED <<log, store, failed, event, seen, result, announced, bounds>>

-----------------------------------------------------------------------------
\* The rows survive; every thread and both locks start anew.
Restart ==
  /\ faults + crashes < MaxMishaps /\ crashes' = crashes + 1
  /\ store' = None /\ counters' = None /\ failed' = 0 /\ shown' = 0
  /\ pc' = [p \in Procs |-> "idle"] /\ event' = [p \in Procs |-> None]
  /\ result' = [p \in Procs |-> NoResult] /\ seen' = [p \in Procs |-> {}]
  /\ UNCHANGED <<log, announced, now, faults>>

Tick ==
  /\ now < MaxTime /\ now' = now + 1
  /\ UNCHANGED <<log, locks, health, calls, announced, faults, crashes>>

Proceed(p) == AppendStep(p) \/ LockCounters(p) \/ Snapshot(p)

Next ==
  \/ \E p \in Procs :
       \/ Append(p) \/ Resend(p) \/ AppendUnsound(p) \/ CanaryProbe(p)
       \/ AppendFails(p) \/ Proceed(p)
  \/ Restart \/ Tick

Spec == Init /\ [][Next]_vars

\* A thread runs on, a lock that is free again and again is had some time
\* (parking_lot's are fair in the long run), and the health task ticks for ever.
Fairness == SF_vars(CanaryProbe(Prober)) /\ \A p \in Procs : SF_vars(Proceed(p))

FairSpec == Spec /\ Fairness

-----------------------------------------------------------------------------
(* Properties.                                                             *)

Places ==
  {"idle", "parent", "dedupe", "insert", "get", "count", "count_failure",
   "violation", "announce", "snapshot", "total"}

\* Types; who keeps a lock between two steps, and that nobody else does.
TypeOK ==
  /\ log \in [Ids -> Event \union {None}]
  /\ store \in Procs \union {None} /\ counters \in Procs \union {None}
  /\ failed \in Nat /\ shown \in Nat
  /\ pc \in [Procs -> Places]
  /\ event \in [Procs -> Event \union {Canary, None}]
  /\ result \in [Procs -> [id : Ids \union {None}, fresh : BOOLEAN]]
  /\ announced \in [Ids -> Nat] /\ seen \in [Procs -> SUBSET Ids]
  /\ now \in 0..MaxTime /\ faults \in 0..MaxMishaps /\ crashes \in 0..MaxMishaps
  /\ \A p \in Procs :
       /\ store = p => pc[p] \in {"count", "count_failure"}
       /\ counters = p <=> pc[p] = "total"

\* An append that is about to answer Ok answers with a row, and the row has the
\* payload that was sent: nobody is told his event is durable when it is not.
AcknowledgedIsStored ==
  \A p \in Writers : result[p].id # None =>
    Stored(result[p].id) /\ log[result[p].id].payload = event[p].payload

\* A subscriber of memory.log.appended hears of an event at most once, however
\* often it was sent and whatever crashed ("not on dedupe hit").
AnnouncedOnce == \A i \in Ids : announced[i] <= 1

\* An event is not stored a second time when a row with its payload was there,
\* within the window, when the call began ("idempotent on payload_hash within
\* the dedupe window").  Two calls at a time may both insert.
IdempotentInWindow ==
  [][\A p \in Writers : result'[p].fresh /\ ~result[p].fresh =>
       \A i \in seen[p] :
         log[i].payload = event[p].payload => log[i].at + Window < event[p].at]_vars

\* A step of the call of p can be taken: the guards of Proceed.
CanProceed(p) ==
  \/ pc[p] \in {"parent", "violation", "insert", "get", "total"} /\ store = None
  \/ /\ pc[p] = "dedupe" /\ store = None
     /\ Recent(event[p]) = {} \/ Latest(Recent(event[p])) # {}
  \/ pc[p] \in {"count", "count_failure", "snapshot"} /\ counters = None
  \/ pc[p] = "announce"

\* Nobody waits for a lock for ever, but for one reason: an append that keeps
\* the rows locked until it has counted meets the health task, which keeps the
\* counters locked until it has seen the rows.
LocksCrossed == pc[Prober] = "total" /\ store \in Writers
NotStuck == LocksCrossed \/ \A p \in Procs : pc[p] = "idle" \/ \E q \in Procs : CanProceed(q)
OnlyHealthBlocks ==
  NotStuck /\ \A p \in Procs : CanProceed(p) <=> ENABLED Proceed(p)

\* "A write-path failure is visible via memory.log.health within a poll interval"
\* (service.rs): a failed append is in a later snapshot, unless there is a crash.
FailureVisible ==
  \A p \in Procs : pc[p] = "count_failure" ~> shown > 0 \/ crashes > 0
=============================================================================
