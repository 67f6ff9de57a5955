---------------------------- MODULE MemoryLogProofs ----------------------------
(***************************************************************************)
(* Proofs about the event log, for any number of threads, ids, payloads    *)
(* and ticks, and any number of storage errors and restarts.               *)
(***************************************************************************)
EXTENDS MemoryLog, WellFoundedInduction, TLAPS

\* What a thread appends, by where it is.
EventsFit ==
  \A p \in Procs :
    /\ pc[p] \in {"parent", "get", "announce"} => event[p] \in Event
    /\ pc[p] \in {"dedupe", "insert"} => event[p] \in Event \union {Canary}

\* An id names one event, in the log and in the threads.
OneEventPerId ==
  /\ \A i \in Ids : Stored(i) => log[i].id = i
  /\ \A p \in Procs : event[p] \in Event =>
       /\ Stored(event[p].id) => log[event[p].id] = event[p]
       /\ \A q \in Procs :
            event[q] \in Event /\ event[q].id = event[p].id => event[q] = event[p]

\* An answer names a row with the payload that was sent; GetById finds one.
AnswersNameRows ==
  \A p \in Procs :
    /\ result[p].id # None =>
         /\ pc[p] \in {"count", "announce"}
         /\ event[p] \in Event
         /\ Stored(result[p].id) /\ log[result[p].id].payload = event[p].payload
    /\ result[p].fresh => result[p].id # None
    /\ pc[p] = "announce" => result[p].fresh
    /\ pc[p] = "get" => Stored(event[p].id)

\* What one thread is to announce, nobody announced and nobody else will.
FreshIsUnannounced ==
  /\ \A i \in Ids : announced[i] <= 1 /\ (~Stored(i) => announced[i] = 0)
  /\ \A p \in Procs : result[p].fresh =>
       /\ announced[result[p].id] = 0
       /\ \A q \in Procs : result[q].fresh /\ result[q].id = result[p].id => q = p

\* Dedupe found no row that was there when the call began.
NoneRecent ==
  \A p \in Procs :
    /\ \A i \in seen[p] : Stored(i)
    /\ pc[p] = "insert" =>
         \A i \in seen[p] :
           log[i].payload = event[p].payload => log[i].at + Window < event[p].at

IInv == TypeOK /\ EventsFit /\ OneEventPerId /\ AnswersNameRows /\ FreshIsUnannounced
          /\ NoneRecent

\* A call that begins.
LEMMA BeginTypes ==
  ASSUME TypeOK, NEW p \in Procs, NEW e \in Event \union {Canary}, Begin(p, e)
  PROVE  TypeOK'
<1>1. event' \in [Procs -> Event \union {Canary, None}] BY DEF TypeOK, Begin
<1>2. seen' \in [Procs -> SUBSET Ids] BY DEF TypeOK, Begin, Rows
<1>3. pc' \in [Procs -> Places] BY DEF TypeOK, Begin, Places
<1>4. \A q \in Procs : \/ pc'[q] = pc[q]
                       \/ pc[q] = "idle" /\ pc'[q] \in {"parent", "dedupe"}
  <2>1. pc'[p] \in {"parent", "dedupe"} BY DEF TypeOK, Begin
  <2>2. \A q \in Procs : q # p => pc'[q] = pc[q] BY DEF TypeOK, Begin
  <2>3. pc[p] = "idle" BY DEF Begin
  <2> QED BY ONLY <2>1, <2>2, <2>3
<1>5. UNCHANGED <<log, store, counters, failed, shown, result, announced, now, faults, crashes>>
  BY DEF Begin, locks, health, bounds
<1> QED BY <1>1, <1>2, <1>3, <1>4, <1>5 DEF TypeOK

LEMMA SentIsEvent == TypeOK => \A i \in Rows : log[i] \in Event
BY DEF TypeOK, Rows, Stored

\* The types.
LEMMA TypeStep ==
  ASSUME TypeOK, EventsFit, [Next]_vars PROVE TypeOK'
<1> USE MemoryLogAssumption DEF TypeOK, EventsFit, Places, Canary, NoResult, vars, locks, health, calls, bounds
<1>1. ASSUME NEW p \in Procs, Append(p) PROVE TypeOK'
  BY <1>1, BeginTypes DEF Append
<1>2. ASSUME NEW p \in Procs, Resend(p) PROVE TypeOK'
  BY <1>2, BeginTypes, SentIsEvent DEF Resend, InFlight
<1>3. ASSUME NEW p \in Procs, AppendUnsound(p) PROVE TypeOK'
  BY <1>3 DEF AppendUnsound, Goto
<1>4. ASSUME NEW p \in Procs, CanaryProbe(p) PROVE TypeOK'
  BY <1>4, BeginTypes DEF CanaryProbe
<1>5. ASSUME NEW p \in Procs, LookupFails(p) PROVE TypeOK'
  BY <1>5 DEF LookupFails, LocksStore, Fault, Return
<1>6. ASSUME NEW p \in Procs, DedupeFails(p) PROVE TypeOK'
  BY <1>6 DEF DedupeFails, KeepsStore, Fault, Goto
<1>7. ASSUME NEW p \in Procs, InsertFails(p) PROVE TypeOK'
  BY <1>7 DEF InsertFails, LocksStore, Fault, Goto
<1>8. ASSUME NEW p \in Procs, CheckParent(p) PROVE TypeOK'
  BY <1>8 DEF CheckParent, LocksStore, Goto
<1>9. ASSUME NEW p \in Procs, EmitViolation(p) PROVE TypeOK'
  BY <1>9 DEF EmitViolation, LocksStore, Return
<1>10. ASSUME NEW p \in Procs, Dedupe(p) PROVE TypeOK'
  <2>1. result' \in [Procs -> [id : Ids \union {None}, fresh : BOOLEAN]]
    <3>1. \A i \in Latest(Recent(event[p])) : i \in Ids BY DEF Latest, Recent, Rows
    <3>2. \A i \in Ids : Duplicate(i) \in [id : Ids \union {None}, fresh : BOOLEAN]
      BY DEF Duplicate
    <3>3. CASE UNCHANGED result BY <3>3
    <3>4. CASE \E i \in Ids : result' = [result EXCEPT ![p] = Duplicate(i)] BY <3>2, <3>4
    <3> QED BY <1>10, <3>1, <3>3, <3>4 DEF Dedupe
  <2>2. /\ pc' \in [Procs -> Places]
        /\ \A q \in Procs : q # p => pc'[q] = pc[q]
        /\ pc[p] = "dedupe" /\ pc'[p] \in {"insert", "count"}
    BY <1>10 DEF Dedupe, Goto
  <2>3. UNCHANGED <<log, locks, health, event, announced, seen, bounds>>
    BY <1>10 DEF Dedupe, Goto, LocksStore
  <2> QED BY ONLY TypeOK, <2>1, <2>2, <2>3 DEF TypeOK, locks, health, bounds
<1>11. ASSUME NEW p \in Procs, Insert(p) PROVE TypeOK'
  <2>1. result' \in [Procs -> [id : Ids \union {None}, fresh : BOOLEAN]]
    <3>1. CASE UNCHANGED result BY <3>1
    <3>2. CASE result' = [result EXCEPT ![p] = [id |-> event[p].id, fresh |-> TRUE]]
                 /\ event[p] # Canary /\ pc[p] = "insert"
      <4>1. event[p].id \in Ids BY <3>2 DEF Event
      <4> QED BY <3>2, <4>1
    <3> QED BY <1>11, <3>1, <3>2 DEF Insert
  <2>2. /\ pc' \in [Procs -> Places]
        /\ \A q \in Procs : q # p => pc'[q] = pc[q]
        /\ pc[p] = "insert" /\ pc'[p] \in {"get", "count"}
    BY <1>11 DEF Insert, Goto
  <2>3. log' \in [Ids -> Event \union {None}]
    BY <1>11 DEF Insert, Event
  <2>4. UNCHANGED <<locks, health, event, announced, seen, bounds>>
    BY <1>11 DEF Insert, Goto, LocksStore
  <2> QED BY ONLY TypeOK, <2>1, <2>2, <2>3, <2>4 DEF TypeOK, locks, health, bounds
<1>12. ASSUME NEW p \in Procs, GetById(p) PROVE TypeOK'
  <2>1. result' \in [Procs -> [id : Ids \union {None}, fresh : BOOLEAN]]
    BY <1>12 DEF GetById, Event, Duplicate
  <2>2. /\ pc' \in [Procs -> Places]
        /\ \A q \in Procs : q # p => pc'[q] = pc[q]
        /\ pc[p] = "get" /\ pc'[p] = "count"
    BY <1>12 DEF GetById, Goto
  <2>3. UNCHANGED <<log, counters, health, event, announced, seen, bounds>>
    BY <1>12 DEF GetById, Goto, KeepsStore
  <2>4. store' = p BY <1>12 DEF GetById, KeepsStore
  <2> QED BY ONLY TypeOK, p \in Procs, <2>1, <2>2, <2>3, <2>4 DEF TypeOK, health, bounds
<1>13. ASSUME NEW p \in Procs, RecordSuccess(p) PROVE TypeOK'
  <2>1. CASE Announces(p) BY <1>13, <2>1 DEF RecordSuccess, Unlocks, Goto
  <2>2. CASE ~Announces(p)
    <3>1. result' \in [Procs -> [id : Ids \union {None}, fresh : BOOLEAN]]
      <4>1. NoResult \in [id : Ids \union {None}, fresh : BOOLEAN] BY DEF NoResult
      <4>2. result' = [result EXCEPT ![p] = NoResult]
        BY <1>13, <2>2 DEF RecordSuccess, Return
      <4> QED BY <4>1, <4>2
    <3> QED BY <1>13, <2>2, <3>1, ZenonT(30) DEF RecordSuccess, Unlocks, Return
  <2> QED BY <2>1, <2>2
<1>14. ASSUME NEW p \in Procs, RecordFailure(p) PROVE TypeOK'
  BY <1>14 DEF RecordFailure, Unlocks, Return
<1>15. ASSUME NEW p \in Procs, Broadcast(p) PROVE TypeOK'
  <2>1. result' \in [Procs -> [id : Ids \union {None}, fresh : BOOLEAN]]
    BY <1>15 DEF Broadcast, Return, NoResult
  <2>2. announced' \in [Ids -> Nat]
    <3>1. announced' = [announced EXCEPT ![result[p].id] = announced[result[p].id] + 1]
      BY <1>15 DEF Broadcast
    <3>2. CASE result[p].id \in Ids BY <3>1, <3>2
    <3>3. CASE result[p].id \notin Ids BY <3>1, <3>3
    <3> QED BY <3>2, <3>3
  <2> QED BY <1>15, <2>1, <2>2 DEF Broadcast, Return
<1>16. ASSUME NEW p \in Procs, LockCounters(p) PROVE TypeOK'
  BY <1>16 DEF LockCounters, Goto
<1>17. ASSUME NEW p \in Procs, Snapshot(p) PROVE TypeOK'
  BY <1>17 DEF Snapshot
<1>18. CASE Restart BY <1>18 DEF Restart, NoResult
<1>19. CASE Tick BY <1>19 DEF Tick
<1>20. CASE UNCHANGED vars BY <1>20
<1> QED
  BY ONLY [Next]_vars, <1>1, <1>2, <1>3, <1>4, <1>5, <1>6, <1>7, <1>8, <1>9, <1>10, <1>11, <1>12, <1>13, <1>14, <1>15, <1>16, <1>17, <1>18, <1>19, <1>20
  DEF Next, Proceed, AppendStep, AppendFails

\* What is appended.
LEMMA EventsStep ==
  ASSUME TypeOK, EventsFit, AnswersNameRows, [Next]_vars PROVE EventsFit'
<1> USE MemoryLogAssumption DEF TypeOK, EventsFit, InFlight, Rows, Stored, vars, locks, health, calls, bounds
<1>1. ASSUME NEW p \in Procs, Append(p) PROVE EventsFit'
  BY <1>1 DEF Append, Begin
<1>2. ASSUME NEW p \in Procs, Resend(p) PROVE EventsFit'
  BY <1>2 DEF Resend, Begin
<1>3. ASSUME NEW p \in Procs, AppendUnsound(p) PROVE EventsFit'
  BY <1>3 DEF AppendUnsound, Goto
<1>4. ASSUME NEW p \in Procs, CanaryProbe(p) PROVE EventsFit'
  <2>1. Canary.parent = None BY DEF Canary
  <2>2. pc' = [pc EXCEPT ![p] = "dedupe"] /\ event' = [event EXCEPT ![p] = Canary]
    BY <1>4, <2>1 DEF CanaryProbe, Begin
  <2> QED BY <2>2
<1>5. ASSUME NEW p \in Procs, LookupFails(p) PROVE EventsFit'
  BY <1>5 DEF LookupFails, LocksStore, Fault, Return
<1>6. ASSUME NEW p \in Procs, DedupeFails(p) PROVE EventsFit'
  BY <1>6 DEF DedupeFails, KeepsStore, Fault, Goto
<1>7. ASSUME NEW p \in Procs, InsertFails(p) PROVE EventsFit'
  BY <1>7 DEF InsertFails, LocksStore, Fault, Goto
<1>8. ASSUME NEW p \in Procs, CheckParent(p) PROVE EventsFit'
  BY <1>8 DEF CheckParent, LocksStore, Goto
<1>9. ASSUME NEW p \in Procs, EmitViolation(p) PROVE EventsFit'
  BY <1>9 DEF EmitViolation, LocksStore, Return
<1>10. ASSUME NEW p \in Procs, Dedupe(p) PROVE EventsFit'
  BY <1>10 DEF Dedupe, LocksStore, Goto, Latest, Recent, Rows, Duplicate
<1>11. ASSUME NEW p \in Procs, Insert(p) PROVE EventsFit'
  BY <1>11 DEF Insert, LocksStore, Goto
<1>12. ASSUME NEW p \in Procs, GetById(p) PROVE EventsFit'
  BY <1>12 DEF GetById, KeepsStore, Goto, Duplicate
<1>13. ASSUME NEW p \in Procs, RecordSuccess(p) PROVE EventsFit'
  <2>1. CASE Announces(p)
    BY <1>13, <2>1 DEF RecordSuccess, Goto, Announces, AnswersNameRows
  <2>2. CASE ~Announces(p) BY <1>13, <2>2 DEF RecordSuccess, Return
  <2> QED BY <2>1, <2>2
<1>14. ASSUME NEW p \in Procs, RecordFailure(p) PROVE EventsFit'
  BY <1>14 DEF RecordFailure, Unlocks, Return
<1>15. ASSUME NEW p \in Procs, Broadcast(p) PROVE EventsFit'
  BY <1>15 DEF Broadcast, Return
<1>16. ASSUME NEW p \in Procs, LockCounters(p) PROVE EventsFit'
  BY <1>16 DEF LockCounters, Goto
<1>17. ASSUME NEW p \in Procs, Snapshot(p) PROVE EventsFit'
  BY <1>17 DEF Snapshot
<1>18. CASE Restart BY <1>18 DEF Restart, NoResult
<1>19. CASE Tick BY <1>19 DEF Tick
<1>20. CASE UNCHANGED vars BY <1>20
<1> QED
  BY ONLY [Next]_vars, <1>1, <1>2, <1>3, <1>4, <1>5, <1>6, <1>7, <1>8, <1>9, <1>10, <1>11, <1>12, <1>13, <1>14, <1>15, <1>16, <1>17, <1>18, <1>19, <1>20
  DEF Next, Proceed, AppendStep, AppendFails

\* One event per id.
LEMMA IdsStep ==
  ASSUME TypeOK, EventsFit, OneEventPerId, [Next]_vars PROVE OneEventPerId'
<1> USE MemoryLogAssumption DEF TypeOK, EventsFit, OneEventPerId, InFlight, Rows, Stored, Canary, Event, vars, locks, health, calls, bounds
<1>1. ASSUME NEW p \in Procs, Append(p) PROVE OneEventPerId'
  BY <1>1 DEF Append, Begin
<1>2. ASSUME NEW p \in Procs, Resend(p) PROVE OneEventPerId'
  BY <1>2 DEF Resend, Begin
<1>3. ASSUME NEW p \in Procs, AppendUnsound(p) PROVE OneEventPerId'
  BY <1>3 DEF AppendUnsound, Goto
<1>4. ASSUME NEW p \in Procs, CanaryProbe(p) PROVE OneEventPerId'
  BY <1>4 DEF CanaryProbe, Begin
<1>5. ASSUME NEW p \in Procs, LookupFails(p) PROVE OneEventPerId'
  BY <1>5 DEF LookupFails, LocksStore, Fault, Return
<1>6. ASSUME NEW p \in Procs, DedupeFails(p) PROVE OneEventPerId'
  BY <1>6 DEF DedupeFails, KeepsStore, Fault, Goto
<1>7. ASSUME NEW p \in Procs, InsertFails(p) PROVE OneEventPerId'
  BY <1>7 DEF InsertFails, LocksStore, Fault, Goto
<1>8. ASSUME NEW p \in Procs, CheckParent(p) PROVE OneEventPerId'
  BY <1>8 DEF CheckParent, LocksStore, Goto
<1>9. ASSUME NEW p \in Procs, EmitViolation(p) PROVE OneEventPerId'
  BY <1>9 DEF EmitViolation, LocksStore, Return
<1>10. ASSUME NEW p \in Procs, Dedupe(p) PROVE OneEventPerId'
  BY <1>10 DEF Dedupe, LocksStore, Goto, Latest, Recent, Rows, Duplicate
<1>11. ASSUME NEW p \in Procs, Insert(p) PROVE OneEventPerId'
  BY <1>11 DEF Insert, LocksStore, Goto
<1>12. ASSUME NEW p \in Procs, GetById(p) PROVE OneEventPerId'
  BY <1>12 DEF GetById, KeepsStore, Goto, Duplicate
<1>13. ASSUME NEW p \in Procs, RecordSuccess(p) PROVE OneEventPerId'
  BY <1>13 DEF RecordSuccess, Unlocks, Goto, Return, Announces
<1>14. ASSUME NEW p \in Procs, RecordFailure(p) PROVE OneEventPerId'
  BY <1>14 DEF RecordFailure, Unlocks, Return
<1>15. ASSUME NEW p \in Procs, Broadcast(p) PROVE OneEventPerId'
  BY <1>15 DEF Broadcast, Return
<1>16. ASSUME NEW p \in Procs, LockCounters(p) PROVE OneEventPerId'
  BY <1>16 DEF LockCounters, Goto
<1>17. ASSUME NEW p \in Procs, Snapshot(p) PROVE OneEventPerId'
  BY <1>17 DEF Snapshot
<1>18. CASE Restart BY <1>18 DEF Restart, NoResult
<1>19. CASE Tick BY <1>19 DEF Tick
<1>20. CASE UNCHANGED vars BY <1>20
<1> QED
  BY ONLY [Next]_vars, <1>1, <1>2, <1>3, <1>4, <1>5, <1>6, <1>7, <1>8, <1>9, <1>10, <1>11, <1>12, <1>13, <1>14, <1>15, <1>16, <1>17, <1>18, <1>19, <1>20
  DEF Next, Proceed, AppendStep, AppendFails

\* The answers.
LEMMA AnswersStep ==
  ASSUME TypeOK, EventsFit, OneEventPerId, AnswersNameRows, [Next]_vars PROVE AnswersNameRows'
<1> USE MemoryLogAssumption DEF TypeOK, EventsFit, OneEventPerId, AnswersNameRows, Stored, Canary, NoResult, vars, locks, health, calls, bounds
<1>1. ASSUME NEW p \in Procs, Append(p) PROVE AnswersNameRows'
  BY <1>1 DEF Append, Begin
<1>2. ASSUME NEW p \in Procs, Resend(p) PROVE AnswersNameRows'
  BY <1>2 DEF Resend, Begin
<1>3. ASSUME NEW p \in Procs, AppendUnsound(p) PROVE AnswersNameRows'
  BY <1>3 DEF AppendUnsound, Goto
<1>4. ASSUME NEW p \in Procs, CanaryProbe(p) PROVE AnswersNameRows'
  BY <1>4 DEF CanaryProbe, Begin
<1>5. ASSUME NEW p \in Procs, LookupFails(p) PROVE AnswersNameRows'
  BY <1>5 DEF LookupFails, LocksStore, Fault, Return
<1>6. ASSUME NEW p \in Procs, DedupeFails(p) PROVE AnswersNameRows'
  BY <1>6 DEF DedupeFails, KeepsStore, Fault, Goto
<1>7. ASSUME NEW p \in Procs, InsertFails(p) PROVE AnswersNameRows'
  BY <1>7 DEF InsertFails, LocksStore, Fault, Goto
<1>8. ASSUME NEW p \in Procs, CheckParent(p) PROVE AnswersNameRows'
  BY <1>8 DEF CheckParent, LocksStore, Goto
<1>9. ASSUME NEW p \in Procs, EmitViolation(p) PROVE AnswersNameRows'
  BY <1>9 DEF EmitViolation, LocksStore, Return
<1>10. ASSUME NEW p \in Procs, Dedupe(p) PROVE AnswersNameRows'
  <2>1. CASE Goto(p, "insert") /\ UNCHANGED <<log, result>> /\ pc[p] = "dedupe"
    BY <2>1 DEF Goto
  <2>2. ASSUME NEW i \in Latest(Recent(event[p])), pc[p] = "dedupe",
               Goto(p, "count"), result' = [result EXCEPT ![p] = Duplicate(i)],
               UNCHANGED log
        PROVE  AnswersNameRows'
    <3>1. i \in Ids /\ log[i] # None /\ log[i].payload = event[p].payload
      BY DEF Latest, Recent, Rows
    <3>2. event[p] \in Event
      <4>1. log[i].payload \in Payloads BY <3>1 DEF Event
      <4>2. event[p] # Canary BY <3>1, <4>1 DEF Canary
      <4> QED BY <2>2, <4>2
    <3>3. result'[p].id = i /\ result'[p].fresh = FALSE BY <2>2 DEF Duplicate
    <3>4. pc' = [pc EXCEPT ![p] = "count"] /\ UNCHANGED event BY <2>2 DEF Goto
    <3> QED BY <2>2, <3>1, <3>2, <3>3, <3>4
  <2> QED BY <1>10, <2>1, <2>2 DEF Dedupe
<1>11. ASSUME NEW p \in Procs, Insert(p) PROVE AnswersNameRows'
  <2>1. CASE event[p] = Canary /\ Goto(p, "count") /\ UNCHANGED <<log, result>>
    BY <1>11, <2>1 DEF Insert, Goto
  <2>2. CASE /\ ~Stored(event[p].id) /\ event[p] # Canary /\ Goto(p, "count")
             /\ log' = [log EXCEPT ![event[p].id] = event[p]]
             /\ result' = [result EXCEPT ![p] = [id |-> event[p].id, fresh |-> TRUE]]
    <3>1. event[p] \in Event /\ event[p].id \in Ids /\ pc[p] = "insert"
      BY <1>11, <2>2 DEF Insert, Event
    <3>2. log'[event[p].id] = event[p] /\ event[p] # None BY <2>2, <3>1
    <3>3. \A j \in Ids : log[j] # None => log'[j] = log[j] BY <2>2, <3>1
    <3>4. result'[p].id = event[p].id /\ result'[p].fresh BY <2>2
    <3>5. \A q \in Procs : q # p => result'[q] = result[q] /\ pc'[q] = pc[q]
      BY <2>2 DEF Goto
    <3>6. pc'[p] = "count" /\ UNCHANGED event BY <2>2 DEF Goto
    <3>7. \A q \in Procs : result[q].id \in Ids \union {None} OBVIOUS
    <3>8. \A q \in Procs : pc[q] = "get" => event[q].id \in Ids BY DEF Event
    <3> QED BY <3>1, <3>2, <3>3, <3>4, <3>5, <3>6, <3>7, <3>8
  <2>3. CASE /\ event[p] # Canary /\ Stored(event[p].id)
             /\ Goto(p, "get") /\ UNCHANGED <<log, result>>
    BY <1>11, <2>3 DEF Insert, Goto
  <2> QED BY <1>11, <2>1, <2>2, <2>3 DEF Insert
<1>12. ASSUME NEW p \in Procs, GetById(p) PROVE AnswersNameRows'
  BY <1>12 DEF GetById, KeepsStore, Goto, Duplicate
<1>13. ASSUME NEW p \in Procs, RecordSuccess(p) PROVE AnswersNameRows'
  BY <1>13 DEF RecordSuccess, Unlocks, Goto, Return, Announces
<1>14. ASSUME NEW p \in Procs, RecordFailure(p) PROVE AnswersNameRows'
  BY <1>14 DEF RecordFailure, Unlocks, Return
<1>15. ASSUME NEW p \in Procs, Broadcast(p) PROVE AnswersNameRows'
  BY <1>15 DEF Broadcast, Return
<1>16. ASSUME NEW p \in Procs, LockCounters(p) PROVE AnswersNameRows'
  BY <1>16 DEF LockCounters, Goto
<1>17. ASSUME NEW p \in Procs, Snapshot(p) PROVE AnswersNameRows'
  BY <1>17 DEF Snapshot
<1>18. CASE Restart BY <1>18 DEF Restart, NoResult
<1>19. CASE Tick BY <1>19 DEF Tick
<1>20. CASE UNCHANGED vars BY <1>20
<1> QED
  BY ONLY [Next]_vars, <1>1, <1>2, <1>3, <1>4, <1>5, <1>6, <1>7, <1>8, <1>9, <1>10, <1>11, <1>12, <1>13, <1>14, <1>15, <1>16, <1>17, <1>18, <1>19, <1>20
  DEF Next, Proceed, AppendStep, AppendFails

\* Announced once.
LEMMA FreshStep ==
  ASSUME TypeOK, EventsFit, AnswersNameRows, FreshIsUnannounced, [Next]_vars PROVE FreshIsUnannounced'
<1> USE MemoryLogAssumption DEF TypeOK, EventsFit, AnswersNameRows, FreshIsUnannounced, Stored, NoResult, vars, locks, health, calls, bounds
<1>1. ASSUME NEW p \in Procs, Append(p) PROVE FreshIsUnannounced'
  BY <1>1 DEF Append, Begin
<1>2. ASSUME NEW p \in Procs, Resend(p) PROVE FreshIsUnannounced'
  BY <1>2 DEF Resend, Begin
<1>3. ASSUME NEW p \in Procs, AppendUnsound(p) PROVE FreshIsUnannounced'
  BY <1>3 DEF AppendUnsound, Goto
<1>4. ASSUME NEW p \in Procs, CanaryProbe(p) PROVE FreshIsUnannounced'
  BY <1>4 DEF CanaryProbe, Begin
<1>5. ASSUME NEW p \in Procs, LookupFails(p) PROVE FreshIsUnannounced'
  BY <1>5 DEF LookupFails, LocksStore, Fault, Return
<1>6. ASSUME NEW p \in Procs, DedupeFails(p) PROVE FreshIsUnannounced'
  BY <1>6 DEF DedupeFails, KeepsStore, Fault, Goto
<1>7. ASSUME NEW p \in Procs, InsertFails(p) PROVE FreshIsUnannounced'
  BY <1>7 DEF InsertFails, LocksStore, Fault, Goto
<1>8. ASSUME NEW p \in Procs, CheckParent(p) PROVE FreshIsUnannounced'
  BY <1>8 DEF CheckParent, LocksStore, Goto
<1>9. ASSUME NEW p \in Procs, EmitViolation(p) PROVE FreshIsUnannounced'
  BY <1>9 DEF EmitViolation, LocksStore, Return
<1>10. ASSUME NEW p \in Procs, Dedupe(p) PROVE FreshIsUnannounced'
  <2>1. \A q \in Procs : result'[q].fresh => result'[q] = result[q]
    <3>1. CASE UNCHANGED result BY <3>1
    <3>2. CASE \E i : result' = [result EXCEPT ![p] = Duplicate(i)]
      BY <3>2 DEF Duplicate
    <3> QED BY <1>10, <3>1, <3>2 DEF Dedupe
  <2>2. UNCHANGED <<log, announced>> BY <1>10 DEF Dedupe
  <2> QED BY <2>1, <2>2
<1>11. ASSUME NEW p \in Procs, Insert(p) PROVE FreshIsUnannounced'
  <2>1. CASE UNCHANGED <<log, result>> BY <1>11, <2>1 DEF Insert
  <2>2. CASE /\ ~Stored(event[p].id) /\ event[p] # Canary
             /\ log' = [log EXCEPT ![event[p].id] = event[p]]
             /\ result' = [result EXCEPT ![p] = [id |-> event[p].id, fresh |-> TRUE]]
    <3>1. event[p] \in Event /\ event[p].id \in Ids BY <1>11, <2>2 DEF Insert, Event
    <3>2. \A j \in Ids : j # event[p].id => log'[j] = log[j] BY <2>2, <3>1
    <3>3. announced[event[p].id] = 0 BY <2>2, <3>1
    <3>4. result'[p].id = event[p].id /\ result'[p].fresh BY <2>2
    <3>5. \A q \in Procs : q # p => result'[q] = result[q] BY <2>2
    <3>6. \A q \in Procs : result[q].fresh => result[q].id # event[p].id
      BY <2>2 DEF AnswersNameRows
    <3>7. UNCHANGED announced BY <1>11 DEF Insert
    <3>8. log'[event[p].id] # None BY <2>2, <3>1
    <3>9. \A i \in Ids : announced[i] <= 1 /\ (log'[i] = None => announced[i] = 0)
      BY <3>2, <3>8
    <3> HIDE DEF TypeOK, EventsFit, AnswersNameRows
    <3> QED BY <3>3, <3>4, <3>5, <3>6, <3>7, <3>9
  <2> QED BY <1>11, <2>1, <2>2 DEF Insert
<1>12. ASSUME NEW p \in Procs, GetById(p) PROVE FreshIsUnannounced'
  <2>1. UNCHANGED <<log, announced>> BY <1>12 DEF GetById
  <2>2. result' = [result EXCEPT ![p] = Duplicate(event[p].id)] BY <1>12 DEF GetById
  <2>3. \A q \in Procs : result'[q].fresh => result'[q] = result[q]
    BY <2>2 DEF Duplicate
  <2> QED BY <2>1, <2>3
<1>13. ASSUME NEW p \in Procs, RecordSuccess(p) PROVE FreshIsUnannounced'
  <2>1. UNCHANGED <<log, announced>> BY <1>13 DEF RecordSuccess
  <2>2. result' = result \/ result' = [result EXCEPT ![p] = NoResult]
    BY <1>13 DEF RecordSuccess, Return
  <2>3. \A q \in Procs : result'[q].fresh => result'[q] = result[q]
    BY <2>2
  <2> QED BY <2>1, <2>3
<1>14. ASSUME NEW p \in Procs, RecordFailure(p) PROVE FreshIsUnannounced'
  BY <1>14 DEF RecordFailure, Unlocks, Return
<1>15. ASSUME NEW p \in Procs, Broadcast(p) PROVE FreshIsUnannounced'
  BY <1>15 DEF Broadcast, Return
<1>16. ASSUME NEW p \in Procs, LockCounters(p) PROVE FreshIsUnannounced'
  BY <1>16 DEF LockCounters, Goto
<1>17. ASSUME NEW p \in Procs, Snapshot(p) PROVE FreshIsUnannounced'
  BY <1>17 DEF Snapshot
<1>18. CASE Restart BY <1>18 DEF Restart, NoResult
<1>19. CASE Tick BY <1>19 DEF Tick
<1>20. CASE UNCHANGED vars BY <1>20
<1> QED
  BY ONLY [Next]_vars, <1>1, <1>2, <1>3, <1>4, <1>5, <1>6, <1>7, <1>8, <1>9, <1>10, <1>11, <1>12, <1>13, <1>14, <1>15, <1>16, <1>17, <1>18, <1>19, <1>20
  DEF Next, Proceed, AppendStep, AppendFails

\* Nothing recent.
LEMMA RecentStep ==
  ASSUME TypeOK, EventsFit, NoneRecent, [Next]_vars PROVE NoneRecent'
<1> USE MemoryLogAssumption DEF TypeOK, EventsFit, NoneRecent, Stored, Rows, vars, locks, health, calls, bounds
<1>1. ASSUME NEW p \in Procs, Append(p) PROVE NoneRecent'
  BY <1>1 DEF Append, Begin
<1>2. ASSUME NEW p \in Procs, Resend(p) PROVE NoneRecent'
  BY <1>2 DEF Resend, Begin
<1>3. ASSUME NEW p \in Procs, AppendUnsound(p) PROVE NoneRecent'
  BY <1>3 DEF AppendUnsound, Goto
<1>4. ASSUME NEW p \in Procs, CanaryProbe(p) PROVE NoneRecent'
  BY <1>4 DEF CanaryProbe, Begin
<1>5. ASSUME NEW p \in Procs, LookupFails(p) PROVE NoneRecent'
  BY <1>5 DEF LookupFails, LocksStore, Fault, Return
<1>6. ASSUME NEW p \in Procs, DedupeFails(p) PROVE NoneRecent'
  BY <1>6 DEF DedupeFails, KeepsStore, Fault, Goto
<1>7. ASSUME NEW p \in Procs, InsertFails(p) PROVE NoneRecent'
  BY <1>7 DEF InsertFails, LocksStore, Fault, Goto
<1>8. ASSUME NEW p \in Procs, CheckParent(p) PROVE NoneRecent'
  BY <1>8 DEF CheckParent, LocksStore, Goto
<1>9. ASSUME NEW p \in Procs, EmitViolation(p) PROVE NoneRecent'
  BY <1>9 DEF EmitViolation, LocksStore, Return
<1>10. ASSUME NEW p \in Procs, Dedupe(p) PROVE NoneRecent'
  <2>1. UNCHANGED <<log, event, seen>> BY <1>10 DEF Dedupe, Goto
  <2>2. \A q \in Procs : pc'[q] = "insert" => \/ pc[q] = "insert"
                                              \/ q = p /\ Recent(event[p]) = {}
    <3>1. CASE Recent(event[p]) = {} /\ Goto(p, "insert") BY <3>1 DEF Goto
    <3>2. CASE Goto(p, "count") BY <3>2 DEF Goto
    <3> QED BY <1>10, <3>1, <3>2 DEF Dedupe
  <2>3. ASSUME Recent(event[p]) = {}, NEW i \in seen[p], pc[p] = "dedupe",
               log[i].payload = event[p].payload
        PROVE  log[i].at + Window < event[p].at
    <3>1. i \in Ids /\ log[i] \in Event BY <2>3
    <3>2. ~(log[i].at + Window >= event[p].at) BY <2>3, <3>1 DEF Recent
    <3>3. log[i].at \in Nat /\ log[i].payload # None BY <3>1 DEF Event
    <3>4. event[p] \in Event BY <2>3, <3>3 DEF Canary
    <3>5. event[p].at \in Nat BY <3>4 DEF Event
    <3> QED BY <3>2, <3>3, <3>5
  <2>4. pc[p] = "dedupe" BY <1>10 DEF Dedupe
  <2> QED BY <2>1, <2>2, <2>3, <2>4
<1>11. ASSUME NEW p \in Procs, Insert(p) PROVE NoneRecent'
  BY <1>11, ZenonT(30) DEF Insert, LocksStore, Goto
<1>12. ASSUME NEW p \in Procs, GetById(p) PROVE NoneRecent'
  BY <1>12 DEF GetById, KeepsStore, Goto, Duplicate
<1>13. ASSUME NEW p \in Procs, RecordSuccess(p) PROVE NoneRecent'
  BY <1>13 DEF RecordSuccess, Unlocks, Goto, Return, Announces
<1>14. ASSUME NEW p \in Procs, RecordFailure(p) PROVE NoneRecent'
  BY <1>14 DEF RecordFailure, Unlocks, Return
<1>15. ASSUME NEW p \in Procs, Broadcast(p) PROVE NoneRecent'
  BY <1>15 DEF Broadcast, Return
<1>16. ASSUME NEW p \in Procs, LockCounters(p) PROVE NoneRecent'
  BY <1>16 DEF LockCounters, Goto
<1>17. ASSUME NEW p \in Procs, Snapshot(p) PROVE NoneRecent'
  BY <1>17 DEF Snapshot
<1>18. CASE Restart BY <1>18 DEF Restart, NoResult
<1>19. CASE Tick BY <1>19 DEF Tick
<1>20. CASE UNCHANGED vars BY <1>20
<1> QED
  BY ONLY [Next]_vars, <1>1, <1>2, <1>3, <1>4, <1>5, <1>6, <1>7, <1>8, <1>9, <1>10, <1>11, <1>12, <1>13, <1>14, <1>15, <1>16, <1>17, <1>18, <1>19, <1>20
  DEF Next, Proceed, AppendStep, AppendFails
\* The invariant is inductive.
THEOREM Inductive == Spec => []IInv
<1>1. Init => IInv
  BY MemoryLogAssumption
  DEF Init, IInv, TypeOK, EventsFit, OneEventPerId, AnswersNameRows, FreshIsUnannounced,
      NoneRecent, Stored, NoResult, Places, Event
<1>2. IInv /\ [Next]_vars => IInv'
  BY TypeStep, EventsStep, IdsStep, AnswersStep, FreshStep, RecentStep DEF IInv
<1> QED BY <1>1, <1>2, PTL DEF Spec

\* Every thread is where the code has a step, what it keeps fits, and who holds
\* a mutex between two steps is where append or health() holds it.
THEOREM TypeCorrect == Spec => []TypeOK
BY Inductive, PTL DEF IInv

\* Whoever is told Ok finds a row with what was sent, whatever failed or crashed
\* and however often it was sent.
THEOREM AcknowledgedCorrect == Spec => []AcknowledgedIsStored
<1>1. IInv => AcknowledgedIsStored
  BY DEF IInv, AnswersNameRows, AcknowledgedIsStored, Procs
<1> QED BY <1>1, Inductive, PTL

\* No event is announced twice.
THEOREM AnnouncedCorrect == Spec => []AnnouncedOnce
<1>1. IInv => AnnouncedOnce BY DEF IInv, FreshIsUnannounced, AnnouncedOnce
<1> QED BY <1>1, Inductive, PTL

\* Only Insert makes an answer fresh.
LEMMA FreshByInsert ==
  ASSUME TypeOK, [Next]_vars, NEW p \in Procs, result'[p].fresh, ~result[p].fresh
  PROVE  pc[p] = "insert"
<1> DEFINE Same == \A q \in Procs : result'[q].fresh => result[q].fresh \/ pc[q] = "insert"
<1>1. ASSUME NEW q \in Procs, Return(q) PROVE Same
  BY <1>1 DEF Return, NoResult, TypeOK
<1>2. ASSUME NEW q \in Procs, NEW i, result' = [result EXCEPT ![q] = Duplicate(i)]
      PROVE  Same
  BY <1>2 DEF Duplicate, TypeOK
<1>3. ASSUME NEW q \in Procs, NEW x, result' = [result EXCEPT ![q] = x], pc[q] = "insert"
      PROVE  Same
  BY <1>3 DEF TypeOK
<1>4. ASSUME UNCHANGED result PROVE Same BY <1>4
<1>5. ASSUME Restart PROVE Same BY <1>5 DEF Restart, NoResult
<1>6. ASSUME NEW q \in Procs, AppendStep(q) \/ AppendFails(q) PROVE Same
  <2> HIDE DEF Same
  <2> QED
    BY <1>1, <1>2, <1>3, <1>4, <1>6
    DEF AppendStep, AppendFails, CheckParent, EmitViolation, Dedupe, Insert, GetById,
        RecordSuccess, RecordFailure, Broadcast, LookupFails, DedupeFails, InsertFails
<1>7. ASSUME NEW q \in Procs,
             \/ Append(q) \/ Resend(q) \/ AppendUnsound(q) \/ CanaryProbe(q)
             \/ LockCounters(q) \/ Snapshot(q)
      PROVE  UNCHANGED result
  BY <1>7 DEF Append, Resend, AppendUnsound, CanaryProbe, Begin, LockCounters, Snapshot
<1>8. ASSUME Tick \/ UNCHANGED vars PROVE UNCHANGED result BY <1>8 DEF Tick, vars, calls
<1>9. Same
  <2> HIDE DEF Same
  <2> QED BY ONLY [Next]_vars, <1>4, <1>5, <1>6, <1>7, <1>8 DEF Next, Proceed
<1> QED BY <1>9

\* What was there within the window when the call began is not stored again.
THEOREM IdempotentCorrect == Spec => IdempotentInWindow
<1> DEFINE Kept == \A p \in Writers : result'[p].fresh /\ ~result[p].fresh =>
      \A i \in seen[p] :
        log[i].payload = event[p].payload => log[i].at + Window < event[p].at
<1>1. IInv /\ [Next]_vars => [Kept]_vars
  <2> SUFFICES ASSUME IInv, [Next]_vars, NEW p \in Writers, result'[p].fresh, ~result[p].fresh,
                      NEW i \in seen[p], log[i].payload = event[p].payload
               PROVE  log[i].at + Window < event[p].at
    OBVIOUS
  <2>1. p \in Procs BY DEF Procs
  <2>2. pc[p] = "insert" BY <2>1, FreshByInsert DEF IInv
  <2> QED BY <2>1, <2>2 DEF IInv, NoneRecent
<1> QED BY <1>1, Inductive, PTL DEF Spec, IdempotentInWindow

-----------------------------------------------------------------------------
(* OnlyHealthBlocks, but for ENABLED, which the provers cannot treat: that   *)
(* the guards are those of the steps is left to TLC.                         *)

\* Only the health task takes the counters and keeps them.
OnlyProberCounts == \A p \in Writers : pc[p] \notin {"snapshot", "total"}

LEMMA CountsStep ==
  ASSUME TypeOK, OnlyProberCounts, [Next]_vars PROVE OnlyProberCounts'
<1> USE MemoryLogAssumption DEF TypeOK, OnlyProberCounts, Procs
<1>1. ASSUME NEW p \in Procs, NEW where \in Places \ {"snapshot", "total"}, Goto(p, where)
      PROVE  OnlyProberCounts'
  BY <1>1 DEF Goto
<1>2. ASSUME NEW p \in Procs, Return(p) PROVE OnlyProberCounts'
  BY <1>2 DEF Return
<1>3. ASSUME NEW p \in Procs, NEW e, Begin(p, e) PROVE OnlyProberCounts'
  BY <1>3 DEF Begin
<1>4. ASSUME NEW p \in Procs, AppendStep(p) \/ AppendFails(p) PROVE OnlyProberCounts'
  <2>1. {"dedupe", "violation", "insert", "count", "count_failure", "get", "announce"}
          \subseteq Places \ {"snapshot", "total"}
    BY DEF Places
  <2> HIDE DEF TypeOK, OnlyProberCounts, Procs
  <2> QED
    BY ONLY <1>1, <1>2, <1>4, <2>1, p \in Procs
    DEF AppendStep, AppendFails, CheckParent, EmitViolation, Dedupe, Insert, GetById,
        RecordSuccess, RecordFailure, Broadcast, LookupFails, DedupeFails, InsertFails
<1>5. ASSUME NEW p \in Procs, Append(p) \/ Resend(p) \/ CanaryProbe(p) PROVE OnlyProberCounts'
  BY ONLY <1>3, <1>5, p \in Procs DEF Append, Resend, CanaryProbe
<1>6. ASSUME NEW p \in Procs, AppendUnsound(p) PROVE OnlyProberCounts'
  BY <1>1, <1>6 DEF AppendUnsound, Places
<1>7. ASSUME NEW p \in Procs, LockCounters(p) PROVE OnlyProberCounts'
  BY <1>7 DEF LockCounters, Goto
<1>8. ASSUME NEW p \in Procs, Snapshot(p) PROVE OnlyProberCounts'
  BY <1>8 DEF Snapshot
<1>9. ASSUME Restart PROVE OnlyProberCounts' BY <1>9 DEF Restart
<1>10. ASSUME Tick \/ UNCHANGED vars PROVE OnlyProberCounts' BY <1>10 DEF Tick, vars, calls
<1> QED
  BY ONLY [Next]_vars, <1>4, <1>5, <1>6, <1>7, <1>8, <1>9, <1>10 DEF Next, Proceed

\* Of the rows with a payload, one is the latest.
LEMMA LatestExists ==
  ASSUME TypeOK, NEW S \in SUBSET Rows, S # {}
  PROVE  Latest(S) # {}
<1> DEFINE Ages == {MaxTime - log[i].at : i \in S}
           Less == OpToRel(<, Nat)
<1>1. \A i \in S : log[i].at \in 0..MaxTime
  BY DEF TypeOK, Rows, Stored, Event
<1>2. Ages \subseteq Nat /\ Ages # {}
  BY <1>1, MemoryLogAssumption
<1>3. \A m, n \in Nat : m < n => <<m, n>> \in Less BY DEF OpToRel
<1>4. IsWellFoundedOn(Less, Nat) BY NatLessThanWellFounded
<1>5. PICK n \in Ages : \A m \in Ages : <<m, n>> \notin Less
  <2> HIDE DEF Less, Ages
  <2> QED BY <1>2, <1>4, WFMin
<1>6. PICK i \in S : n = MaxTime - log[i].at BY <1>5
<1>7. \A j \in S : ~(MaxTime - log[j].at < MaxTime - log[i].at)
  <2> HIDE DEF Less
  <2> QED BY <1>1, <1>2, <1>3, <1>5, <1>6
<1>8. i \in Latest(S) BY <1>1, <1>7, MemoryLogAssumption DEF Latest
<1> QED BY <1>8

\* Whatever failed or crashed and however many threads there are, one of them
\* can go on unless all are idle or the two locks are taken crosswise, the rows
\* by an append that is to count and the counters by the health task.
THEOREM NotStuckCorrect == Spec => []NotStuck
<1>1. IInv /\ OnlyProberCounts => NotStuck
  <2> SUFFICES ASSUME IInv, OnlyProberCounts, ~LocksCrossed, NEW p \in Procs, pc[p] # "idle"
               PROVE  \E q \in Procs : CanProceed(q)
    BY DEF NotStuck
  <2> USE MemoryLogAssumption DEF IInv, TypeOK, Procs
  <2>1. CASE counters # None
    <3>1. counters = Prober /\ pc[Prober] = "total" BY <2>1 DEF OnlyProberCounts
    <3>2. store = None BY <3>1 DEF LocksCrossed
    <3> QED BY <3>1, <3>2 DEF CanProceed
  <2>2. CASE counters = None /\ store # None
    <3>1. store \in Procs /\ pc[store] \in {"count", "count_failure"} BY <2>2
    <3> QED BY <2>2, <3>1 DEF CanProceed
  <2>3. CASE counters = None /\ store = None
    <3>1. pc[p] # "total" BY <2>3
    <3>2. Recent(event[p]) = {} \/ Latest(Recent(event[p])) # {}
      BY LatestExists DEF Recent
    <3> QED BY <2>3, <3>1, <3>2 DEF CanProceed, Places
  <2> QED BY <2>1, <2>2, <2>3
<1>2. Init => OnlyProberCounts BY DEF Init, OnlyProberCounts, Procs
<1>3. IInv /\ OnlyProberCounts /\ [Next]_vars => OnlyProberCounts'
  BY CountsStep DEF IInv
<1> QED BY <1>1, <1>2, <1>3, Inductive, PTL DEF Spec
==============================================================================
