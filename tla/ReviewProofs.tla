---------------------------- MODULE ReviewProofs ----------------------------
(***************************************************************************)
(* Proofs about Review and ReviewFeed, for any numbers of requests, agents *)
(* and operators and for any bounds.  The inductive invariant IInv adds to *)
(* the properties what a call knows while it is under way, FeedInv what a  *)
(* session that shows the queue has still to be told.  A call never hangs  *)
(* and is short (CallsGoOn, CallsShrink).                                  *)
(***************************************************************************)
EXTENDS ReviewFeed, TLAPS

\* The request of a call under way has a row; the row of a request that an
\* operator is announcing is what it announces.
CallsHaveRows ==
  /\ \A a \in Agents : pc[a] # "idle" => req[a] \in Requests /\ row[req[a]] # "absent"
  /\ \A o \in Operators : opc[o] # "idle" =>
       /\ oreq[o] \in Requests /\ overd[o] \in Verdicts /\ row[oreq[o]] = overd[o]

\* A verdict on its way to a waiter is the one in the store.
SentIsStored ==
  \A a \in Agents : pc[a] = "waiting" /\ rx[a] \in Verdicts => row[req[a]] = rx[a]

\* A waiter that gave up closes its request before it returns.
GaveUpIsClosed ==
  \A a \in Agents : pc[a] \in {"announce", "reread"} => Terminal(req[a])

RowMoves(r) ==
  row[r] # row'[r] => \/ row[r] = "absent" /\ row'[r] = "open"
                      \/ row[r] = "open" /\ row'[r] \in Verdicts

IInv ==
  TypeOK /\ SlotIsWaiter /\ CallsHaveRows /\ SentIsStored /\ GaveUpIsClosed /\ AnswersAgree

-----------------------------------------------------------------------------
LEMMA VerdictNames ==
  /\ "absent" \notin Verdicts /\ "open" \notin Verdicts /\ "none" \notin Verdicts
  /\ "pending" \notin Verdicts /\ "canceled" \notin Verdicts
  /\ "elapsed" \notin Verdicts /\ "expired" \in Verdicts
  /\ \A v \in Decisions : v \in Verdicts
BY DecisionsAssumption DEF Verdicts

LEMMA SendType ==
  ASSUME feed \in Seq(Events), NEW r \in Requests, NEW k \in {"opened", "resolved"},
         NEW s \in Verdicts \union {"open"}
  PROVE  Sent(Event(k, r, s)) \in Seq(Events)
<1>1. Event(k, r, s) \in Events
  BY DEF Event, Events
<1> QED BY <1>1 DEF Sent

LEMMA AnswerType ==
  /\ \A r \in Requests : Failed(r) \in Answers
  /\ \A k \in {"ok", "refused"}, r \in Requests, s \in Verdicts : Told(k, r, s) \in Answers
  /\ \A r \in Requests : [kind |-> "refused", req |-> r] \in Replies
  /\ \A r \in Requests, s \in Verdicts : Told("ok", r, s) \in Replies
BY DEF Failed, Told, Answers, Replies

LEMMA AnswerFields ==
  ASSUME TypeOK
  PROVE  /\ \A a \in Agents : answer[a].kind \in {"ok", "refused"} =>
              answer[a].req \in Requests /\ answer[a].state \in Verdicts
         /\ \A o \in Operators : reply[o].kind = "ok" =>
              reply[o].req \in Requests /\ reply[o].state \in Verdicts
BY DEF TypeOK, Answers, Replies, NoAnswer

LEMMA InitIInv == Init => IInv
<1>1. ASSUME Init PROVE NoAnswer \in Answers /\ NoAnswer \in Replies /\ NoAnswer.kind = "none"
  BY DEF Answers, Replies, NoAnswer
<1> QED
  BY <1>1, VerdictNames, ReviewAssumption, NamesAssumption
   DEF Init, IInv, TypeOK, SlotIsWaiter, CallsHaveRows, SentIsStored, GaveUpIsClosed,
       AnswersAgree, VerdictIsStored, RefusedIsClosed, AcknowledgedStands, AgentStates

\* Types: an answer is a record of its kind, and only events are sent.
LEMMA TypeStep ==
  ASSUME IInv, Next
  PROVE  TypeOK'
<1> USE IInv, VerdictNames, AnswerType, SendType, ReviewAssumption, NamesAssumption
    DEF IInv, TypeOK, AgentStates, agentVars, operVars, CallsHaveRows, GaveUpIsClosed, Terminal
<1>1. ASSUME NEW a \in Agents, AnnounceOpened(a) PROVE TypeOK'
  BY <1>1 DEF AnnounceOpened
<1>2. ASSUME NEW a \in Agents, Register(a) PROVE TypeOK'
  BY <1>2 DEF Register, Cancel, SlotOfLast
<1>3. ASSUME NEW a \in Agents, Woken(a) PROVE TypeOK'
  BY <1>3 DEF Woken, Return
<1>4. ASSUME NEW a \in Agents, Canceled(a) PROVE TypeOK'
  BY <1>4 DEF Canceled
<1>5. ASSUME NEW a \in Agents, TimeOut(a) PROVE TypeOK'
  BY <1>5 DEF TimeOut, Deadline
<1>6. ASSUME NEW a \in Agents, DropSlot(a) PROVE TypeOK'
  BY <1>6 DEF DropSlot, Cancel
<1>7. ASSUME NEW a \in Agents, Expire(a) PROVE TypeOK'
  BY <1>7 DEF Expire, Resolvable, Updated
<1>8. ASSUME NEW a \in Agents, ExpireTooLate(a) PROVE TypeOK'
  BY <1>8 DEF ExpireTooLate, Resolvable
<1>9. ASSUME NEW a \in Agents, AnnounceExpired(a) PROVE TypeOK'
  BY <1>9 DEF AnnounceExpired, Return, Refusal
<1>10. ASSUME NEW a \in Agents, Reread(a) PROVE TypeOK'
  BY <1>10 DEF Reread, Return, Refusal
<1>11. ASSUME NEW a \in Agents, HangUp(a) PROVE TypeOK'
  BY <1>11 DEF HangUp, Return
<1>12. ASSUME NEW a \in Agents, ExpireFails(a) PROVE TypeOK'
  BY <1>12 DEF ExpireFails, Return, StoreFails
<1>13. ASSUME NEW a \in Agents, ExpireTorn(a) PROVE TypeOK'
  BY <1>13 DEF ExpireTorn, Return, StoreFails, Resolvable, Updated
<1>14. ASSUME NEW a \in Agents, NEW r \in Requests, NEW next \in {"idle", "holding", "register"}, Insert(a, r, next)
       PROVE  TypeOK'
  BY <1>14 DEF Insert
<1>15. ASSUME NEW a \in Agents, NEW r \in Requests, FindOpen(a, r) PROVE TypeOK'
  BY <1>15 DEF FindOpen, MayWaitFor
<1>16. ASSUME NEW a \in Agents, NEW r \in Requests, FindResolved(a, r) PROVE TypeOK'
  BY <1>16 DEF FindResolved, Return, MayWaitFor, Terminal
<1>17. ASSUME NEW a \in Agents, NEW r \in Requests, FindNothing(a, r) PROVE TypeOK'
  BY <1>17 DEF FindNothing, Return, MayWaitFor
<1>18. ASSUME NEW a \in Agents, NEW r \in Requests, FindFails(a, r) PROVE TypeOK'
  BY <1>18 DEF FindFails, Return, MayWaitFor, StoreFails
<1>19. ASSUME NEW o \in Operators, Wake(o) PROVE TypeOK'
  BY <1>19 DEF Wake
<1>20. ASSUME NEW o \in Operators, AnnounceResolved(o) PROVE TypeOK'
  BY <1>20 DEF AnnounceResolved
<1>21. ASSUME NEW o \in Operators, NEW r \in Requests, NEW v \in Decisions, Decide(o, r, v)
       PROVE  TypeOK'
  BY <1>21 DEF Decide, Resolve, Resolvable, Updated
<1>22. ASSUME NEW o \in Operators, NEW r \in Requests, NEW v \in Decisions, DecideTorn(o, r, v)
       PROVE  TypeOK'
  BY <1>22 DEF DecideTorn, StoreFails, Resolvable, Updated
<1>23. ASSUME NEW o \in Operators, NEW r \in Requests, DecideExpire(o, r) PROVE TypeOK'
  BY <1>23 DEF DecideExpire, Resolve, Resolvable, Updated
<1>24. ASSUME NEW o \in Operators, NEW r \in Requests, Rejected(o, r) PROVE TypeOK'
  BY <1>24 DEF Rejected
<1>25. ASSUME NEW o \in Operators, NEW r \in Requests, ExpireResolved(o, r) PROVE TypeOK'
  BY <1>25 DEF ExpireResolved
<1>26. ASSUME NEW o \in Operators, NEW r \in Requests, DecideFails(o, r) PROVE TypeOK'
  BY <1>26 DEF DecideFails, StoreFails
<1>27. ASSUME Restart PROVE TypeOK'
  BY <1>27 DEF Restart
<1> QED
  BY ONLY Next, <1>1, <1>2, <1>3, <1>4, <1>5, <1>6, <1>7, <1>8, <1>9, <1>10,
     <1>11, <1>12, <1>13, <1>14, <1>15, <1>16, <1>17, <1>18, <1>19, <1>20,
     <1>21, <1>22, <1>23, <1>24, <1>25, <1>26, <1>27 DEF Next, AgentNext,
     Proceed, WaitFor, OperatorNext

\* The waiter map holds the pending waiters.
LEMMA SlotStep ==
  ASSUME IInv, Next
  PROVE  SlotIsWaiter'
<1> USE IInv, VerdictNames, NamesAssumption
    DEF IInv, TypeOK, AgentStates, agentVars, operVars, CallsHaveRows, SlotIsWaiter
<1>1. ASSUME NEW a \in Agents, AnnounceOpened(a) PROVE SlotIsWaiter'
  BY <1>1 DEF AnnounceOpened
<1>2. ASSUME NEW a \in Agents, Register(a) PROVE SlotIsWaiter'
  BY <1>2 DEF Register, Cancel, SlotOfLast
<1>3. ASSUME NEW a \in Agents, Woken(a) PROVE SlotIsWaiter'
  BY <1>3 DEF Woken, Return
<1>4. ASSUME NEW a \in Agents, Canceled(a) PROVE SlotIsWaiter'
  BY <1>4 DEF Canceled
<1>5. ASSUME NEW a \in Agents, TimeOut(a) PROVE SlotIsWaiter'
  BY <1>5 DEF TimeOut, Deadline
<1>6. ASSUME NEW a \in Agents, DropSlot(a) PROVE SlotIsWaiter'
  BY <1>6 DEF DropSlot, Cancel
<1>7. ASSUME NEW a \in Agents, Expire(a) PROVE SlotIsWaiter'
  BY <1>7 DEF Expire, Resolvable, Updated
<1>8. ASSUME NEW a \in Agents, ExpireTooLate(a) PROVE SlotIsWaiter'
  BY <1>8 DEF ExpireTooLate, Resolvable
<1>9. ASSUME NEW a \in Agents, AnnounceExpired(a) PROVE SlotIsWaiter'
  BY <1>9 DEF AnnounceExpired, Return, Refusal
<1>10. ASSUME NEW a \in Agents, Reread(a) PROVE SlotIsWaiter'
  BY <1>10 DEF Reread, Return, Refusal
<1>11. ASSUME NEW a \in Agents, HangUp(a) PROVE SlotIsWaiter'
  BY <1>11 DEF HangUp, Return
<1>12. ASSUME NEW a \in Agents, ExpireFails(a) PROVE SlotIsWaiter'
  BY <1>12 DEF ExpireFails, Return, StoreFails
<1>13. ASSUME NEW a \in Agents, ExpireTorn(a) PROVE SlotIsWaiter'
  BY <1>13 DEF ExpireTorn, Return, StoreFails, Resolvable, Updated
<1>14. ASSUME NEW a \in Agents, NEW r \in Requests, NEW next \in {"idle", "holding", "register"}, Insert(a, r, next)
       PROVE  SlotIsWaiter'
  BY <1>14 DEF Insert
<1>15. ASSUME NEW a \in Agents, NEW r \in Requests, FindOpen(a, r) PROVE SlotIsWaiter'
  BY <1>15 DEF FindOpen, MayWaitFor
<1>16. ASSUME NEW a \in Agents, NEW r \in Requests, FindResolved(a, r) PROVE SlotIsWaiter'
  BY <1>16 DEF FindResolved, Return, MayWaitFor, Terminal
<1>17. ASSUME NEW a \in Agents, NEW r \in Requests, FindNothing(a, r) PROVE SlotIsWaiter'
  BY <1>17 DEF FindNothing, Return, MayWaitFor
<1>18. ASSUME NEW a \in Agents, NEW r \in Requests, FindFails(a, r) PROVE SlotIsWaiter'
  BY <1>18 DEF FindFails, Return, MayWaitFor, StoreFails
<1>19. ASSUME NEW o \in Operators, Wake(o) PROVE SlotIsWaiter'
  BY <1>19 DEF Wake
<1>20. ASSUME NEW o \in Operators, AnnounceResolved(o) PROVE SlotIsWaiter'
  BY <1>20 DEF AnnounceResolved
<1>21. ASSUME NEW o \in Operators, NEW r \in Requests, NEW v \in Decisions, Decide(o, r, v)
       PROVE  SlotIsWaiter'
  BY <1>21 DEF Decide, Resolve, Resolvable, Updated
<1>22. ASSUME NEW o \in Operators, NEW r \in Requests, NEW v \in Decisions, DecideTorn(o, r, v)
       PROVE  SlotIsWaiter'
  BY <1>22 DEF DecideTorn, StoreFails, Resolvable, Updated
<1>23. ASSUME NEW o \in Operators, NEW r \in Requests, DecideExpire(o, r)
       PROVE  SlotIsWaiter'
  BY <1>23 DEF DecideExpire, Resolve, Resolvable, Updated
<1>24. ASSUME NEW o \in Operators, NEW r \in Requests, Rejected(o, r) PROVE SlotIsWaiter'
  BY <1>24 DEF Rejected
<1>25. ASSUME NEW o \in Operators, NEW r \in Requests, ExpireResolved(o, r)
       PROVE  SlotIsWaiter'
  BY <1>25 DEF ExpireResolved
<1>26. ASSUME NEW o \in Operators, NEW r \in Requests, DecideFails(o, r)
       PROVE  SlotIsWaiter'
  BY <1>26 DEF DecideFails, StoreFails
<1>27. ASSUME Restart PROVE SlotIsWaiter'
  BY <1>27 DEF Restart
<1> QED
  BY ONLY Next, <1>1, <1>2, <1>3, <1>4, <1>5, <1>6, <1>7, <1>8, <1>9, <1>10,
     <1>11, <1>12, <1>13, <1>14, <1>15, <1>16, <1>17, <1>18, <1>19, <1>20,
     <1>21, <1>22, <1>23, <1>24, <1>25, <1>26, <1>27 DEF Next, AgentNext,
     Proceed, WaitFor, OperatorNext

\* No step takes away the row of a call under way.
LEMMA RowsStep ==
  ASSUME IInv, Next
  PROVE  CallsHaveRows'
<1> USE IInv, VerdictNames
    DEF IInv, TypeOK, AgentStates, agentVars, operVars, CallsHaveRows
<1>1. ASSUME NEW a \in Agents, AnnounceOpened(a) PROVE CallsHaveRows'
  BY <1>1 DEF AnnounceOpened
<1>2. ASSUME NEW a \in Agents, Register(a) PROVE CallsHaveRows'
  BY <1>2 DEF Register, Cancel, SlotOfLast
<1>3. ASSUME NEW a \in Agents, Woken(a) PROVE CallsHaveRows'
  BY <1>3 DEF Woken, Return
<1>4. ASSUME NEW a \in Agents, Canceled(a) PROVE CallsHaveRows'
  BY <1>4 DEF Canceled
<1>5. ASSUME NEW a \in Agents, TimeOut(a) PROVE CallsHaveRows'
  BY <1>5 DEF TimeOut, Deadline
<1>6. ASSUME NEW a \in Agents, DropSlot(a) PROVE CallsHaveRows'
  BY <1>6 DEF DropSlot, Cancel
<1>7. ASSUME NEW a \in Agents, Expire(a) PROVE CallsHaveRows'
  BY <1>7 DEF Expire, Resolvable, Updated
<1>8. ASSUME NEW a \in Agents, ExpireTooLate(a) PROVE CallsHaveRows'
  BY <1>8 DEF ExpireTooLate, Resolvable
<1>9. ASSUME NEW a \in Agents, AnnounceExpired(a) PROVE CallsHaveRows'
  BY <1>9 DEF AnnounceExpired, Return, Refusal
<1>10. ASSUME NEW a \in Agents, Reread(a) PROVE CallsHaveRows'
  BY <1>10 DEF Reread, Return, Refusal
<1>11. ASSUME NEW a \in Agents, HangUp(a) PROVE CallsHaveRows'
  BY <1>11 DEF HangUp, Return
<1>12. ASSUME NEW a \in Agents, ExpireFails(a) PROVE CallsHaveRows'
  BY <1>12 DEF ExpireFails, Return, StoreFails
<1>13. ASSUME NEW a \in Agents, ExpireTorn(a) PROVE CallsHaveRows'
  BY <1>13 DEF ExpireTorn, Return, StoreFails, Resolvable, Updated
<1>14. ASSUME NEW a \in Agents, NEW r \in Requests, NEW next \in {"idle", "holding", "register"}, Insert(a, r, next)
       PROVE  CallsHaveRows'
  BY <1>14 DEF Insert
<1>15. ASSUME NEW a \in Agents, NEW r \in Requests, FindOpen(a, r) PROVE CallsHaveRows'
  BY <1>15 DEF FindOpen, MayWaitFor
<1>16. ASSUME NEW a \in Agents, NEW r \in Requests, FindResolved(a, r) PROVE CallsHaveRows'
  BY <1>16 DEF FindResolved, Return, MayWaitFor, Terminal
<1>17. ASSUME NEW a \in Agents, NEW r \in Requests, FindNothing(a, r) PROVE CallsHaveRows'
  BY <1>17 DEF FindNothing, Return, MayWaitFor
<1>18. ASSUME NEW a \in Agents, NEW r \in Requests, FindFails(a, r) PROVE CallsHaveRows'
  BY <1>18 DEF FindFails, Return, MayWaitFor, StoreFails
<1>19. ASSUME NEW o \in Operators, Wake(o) PROVE CallsHaveRows'
  BY <1>19 DEF Wake
<1>20. ASSUME NEW o \in Operators, AnnounceResolved(o) PROVE CallsHaveRows'
  BY <1>20 DEF AnnounceResolved
<1>21. ASSUME NEW o \in Operators, NEW r \in Requests, NEW v \in Decisions, Decide(o, r, v)
       PROVE  CallsHaveRows'
  BY <1>21 DEF Decide, Resolve, Resolvable, Updated
<1>22. ASSUME NEW o \in Operators, NEW r \in Requests, NEW v \in Decisions, DecideTorn(o, r, v)
       PROVE  CallsHaveRows'
  BY <1>22 DEF DecideTorn, StoreFails, Resolvable, Updated
<1>23. ASSUME NEW o \in Operators, NEW r \in Requests, DecideExpire(o, r)
       PROVE  CallsHaveRows'
  BY <1>23 DEF DecideExpire, Resolve, Resolvable, Updated
<1>24. ASSUME NEW o \in Operators, NEW r \in Requests, Rejected(o, r) PROVE CallsHaveRows'
  BY <1>24 DEF Rejected
<1>25. ASSUME NEW o \in Operators, NEW r \in Requests, ExpireResolved(o, r)
       PROVE  CallsHaveRows'
  BY <1>25 DEF ExpireResolved
<1>26. ASSUME NEW o \in Operators, NEW r \in Requests, DecideFails(o, r)
       PROVE  CallsHaveRows'
  BY <1>26 DEF DecideFails, StoreFails
<1>27. ASSUME Restart PROVE CallsHaveRows'
  BY <1>27 DEF Restart
<1> QED
  BY ONLY Next, <1>1, <1>2, <1>3, <1>4, <1>5, <1>6, <1>7, <1>8, <1>9, <1>10,
     <1>11, <1>12, <1>13, <1>14, <1>15, <1>16, <1>17, <1>18, <1>19, <1>20,
     <1>21, <1>22, <1>23, <1>24, <1>25, <1>26, <1>27 DEF Next, AgentNext,
     Proceed, WaitFor, OperatorNext

\* A verdict is sent to the waiter of its own request, after it is stored.
LEMMA SentStep ==
  ASSUME IInv, Next
  PROVE  SentIsStored'
<1> USE IInv, VerdictNames, NamesAssumption
    DEF IInv, TypeOK, AgentStates, agentVars, operVars, CallsHaveRows, SlotIsWaiter, SentIsStored
<1>1. ASSUME NEW a \in Agents, AnnounceOpened(a) PROVE SentIsStored'
  BY <1>1 DEF AnnounceOpened
<1>2. ASSUME NEW a \in Agents, Register(a) PROVE SentIsStored'
  BY <1>2 DEF Register, Cancel, SlotOfLast
<1>3. ASSUME NEW a \in Agents, Woken(a) PROVE SentIsStored'
  BY <1>3 DEF Woken, Return
<1>4. ASSUME NEW a \in Agents, Canceled(a) PROVE SentIsStored'
  BY <1>4 DEF Canceled
<1>5. ASSUME NEW a \in Agents, TimeOut(a) PROVE SentIsStored'
  BY <1>5 DEF TimeOut, Deadline
<1>6. ASSUME NEW a \in Agents, DropSlot(a) PROVE SentIsStored'
  BY <1>6 DEF DropSlot, Cancel
<1>7. ASSUME NEW a \in Agents, Expire(a) PROVE SentIsStored'
  BY <1>7 DEF Expire, Resolvable, Updated
<1>8. ASSUME NEW a \in Agents, ExpireTooLate(a) PROVE SentIsStored'
  BY <1>8 DEF ExpireTooLate, Resolvable
<1>9. ASSUME NEW a \in Agents, AnnounceExpired(a) PROVE SentIsStored'
  BY <1>9 DEF AnnounceExpired, Return, Refusal
<1>10. ASSUME NEW a \in Agents, Reread(a) PROVE SentIsStored'
  BY <1>10 DEF Reread, Return, Refusal
<1>11. ASSUME NEW a \in Agents, HangUp(a) PROVE SentIsStored'
  BY <1>11 DEF HangUp, Return
<1>12. ASSUME NEW a \in Agents, ExpireFails(a) PROVE SentIsStored'
  BY <1>12 DEF ExpireFails, Return, StoreFails
<1>13. ASSUME NEW a \in Agents, ExpireTorn(a) PROVE SentIsStored'
  BY <1>13 DEF ExpireTorn, Return, StoreFails, Resolvable, Updated
<1>14. ASSUME NEW a \in Agents, NEW r \in Requests, NEW next \in {"idle", "holding", "register"}, Insert(a, r, next)
       PROVE  SentIsStored'
  BY <1>14 DEF Insert
<1>15. ASSUME NEW a \in Agents, NEW r \in Requests, FindOpen(a, r) PROVE SentIsStored'
  BY <1>15 DEF FindOpen, MayWaitFor
<1>16. ASSUME NEW a \in Agents, NEW r \in Requests, FindResolved(a, r) PROVE SentIsStored'
  BY <1>16 DEF FindResolved, Return, MayWaitFor, Terminal
<1>17. ASSUME NEW a \in Agents, NEW r \in Requests, FindNothing(a, r) PROVE SentIsStored'
  BY <1>17 DEF FindNothing, Return, MayWaitFor
<1>18. ASSUME NEW a \in Agents, NEW r \in Requests, FindFails(a, r) PROVE SentIsStored'
  BY <1>18 DEF FindFails, Return, MayWaitFor, StoreFails
<1>19. ASSUME NEW o \in Operators, Wake(o) PROVE SentIsStored'
  BY <1>19 DEF Wake
<1>20. ASSUME NEW o \in Operators, AnnounceResolved(o) PROVE SentIsStored'
  BY <1>20 DEF AnnounceResolved
<1>21. ASSUME NEW o \in Operators, NEW r \in Requests, NEW v \in Decisions, Decide(o, r, v)
       PROVE  SentIsStored'
  BY <1>21 DEF Decide, Resolve, Resolvable, Updated
<1>22. ASSUME NEW o \in Operators, NEW r \in Requests, NEW v \in Decisions, DecideTorn(o, r, v)
       PROVE  SentIsStored'
  BY <1>22 DEF DecideTorn, StoreFails, Resolvable, Updated
<1>23. ASSUME NEW o \in Operators, NEW r \in Requests, DecideExpire(o, r)
       PROVE  SentIsStored'
  BY <1>23 DEF DecideExpire, Resolve, Resolvable, Updated
<1>24. ASSUME NEW o \in Operators, NEW r \in Requests, Rejected(o, r) PROVE SentIsStored'
  BY <1>24 DEF Rejected
<1>25. ASSUME NEW o \in Operators, NEW r \in Requests, ExpireResolved(o, r)
       PROVE  SentIsStored'
  BY <1>25 DEF ExpireResolved
<1>26. ASSUME NEW o \in Operators, NEW r \in Requests, DecideFails(o, r)
       PROVE  SentIsStored'
  BY <1>26 DEF DecideFails, StoreFails
<1>27. ASSUME Restart PROVE SentIsStored'
  BY <1>27 DEF Restart
<1> QED
  BY ONLY Next, <1>1, <1>2, <1>3, <1>4, <1>5, <1>6, <1>7, <1>8, <1>9, <1>10,
     <1>11, <1>12, <1>13, <1>14, <1>15, <1>16, <1>17, <1>18, <1>19, <1>20,
     <1>21, <1>22, <1>23, <1>24, <1>25, <1>26, <1>27 DEF Next, AgentNext,
     Proceed, WaitFor, OperatorNext

\* Expiring a request, or finding that it is too late, means it is closed.
LEMMA GaveUpStep ==
  ASSUME IInv, Next
  PROVE  GaveUpIsClosed'
<1> USE IInv, VerdictNames
    DEF IInv, TypeOK, AgentStates, agentVars, operVars, CallsHaveRows, GaveUpIsClosed, Terminal
<1>1. ASSUME NEW a \in Agents, AnnounceOpened(a) PROVE GaveUpIsClosed'
  BY <1>1 DEF AnnounceOpened
<1>2. ASSUME NEW a \in Agents, Register(a) PROVE GaveUpIsClosed'
  BY <1>2 DEF Register, Cancel, SlotOfLast
<1>3. ASSUME NEW a \in Agents, Woken(a) PROVE GaveUpIsClosed'
  BY <1>3 DEF Woken, Return
<1>4. ASSUME NEW a \in Agents, Canceled(a) PROVE GaveUpIsClosed'
  BY <1>4 DEF Canceled
<1>5. ASSUME NEW a \in Agents, TimeOut(a) PROVE GaveUpIsClosed'
  BY <1>5 DEF TimeOut, Deadline
<1>6. ASSUME NEW a \in Agents, DropSlot(a) PROVE GaveUpIsClosed'
  BY <1>6 DEF DropSlot, Cancel
<1>7. ASSUME NEW a \in Agents, Expire(a) PROVE GaveUpIsClosed'
  BY <1>7 DEF Expire, Resolvable, Updated
<1>8. ASSUME NEW a \in Agents, ExpireTooLate(a) PROVE GaveUpIsClosed'
  BY <1>8 DEF ExpireTooLate, Resolvable
<1>9. ASSUME NEW a \in Agents, AnnounceExpired(a) PROVE GaveUpIsClosed'
  BY <1>9 DEF AnnounceExpired, Return, Refusal
<1>10. ASSUME NEW a \in Agents, Reread(a) PROVE GaveUpIsClosed'
  BY <1>10 DEF Reread, Return, Refusal
<1>11. ASSUME NEW a \in Agents, HangUp(a) PROVE GaveUpIsClosed'
  BY <1>11 DEF HangUp, Return
<1>12. ASSUME NEW a \in Agents, ExpireFails(a) PROVE GaveUpIsClosed'
  BY <1>12 DEF ExpireFails, Return, StoreFails
<1>13. ASSUME NEW a \in Agents, ExpireTorn(a) PROVE GaveUpIsClosed'
  BY <1>13 DEF ExpireTorn, Return, StoreFails, Resolvable, Updated
<1>14. ASSUME NEW a \in Agents, NEW r \in Requests, NEW next \in {"idle", "holding", "register"}, Insert(a, r, next)
       PROVE  GaveUpIsClosed'
  BY <1>14 DEF Insert
<1>15. ASSUME NEW a \in Agents, NEW r \in Requests, FindOpen(a, r) PROVE GaveUpIsClosed'
  BY <1>15 DEF FindOpen, MayWaitFor
<1>16. ASSUME NEW a \in Agents, NEW r \in Requests, FindResolved(a, r)
       PROVE  GaveUpIsClosed'
  BY <1>16 DEF FindResolved, Return, MayWaitFor, Terminal
<1>17. ASSUME NEW a \in Agents, NEW r \in Requests, FindNothing(a, r) PROVE GaveUpIsClosed'
  BY <1>17 DEF FindNothing, Return, MayWaitFor
<1>18. ASSUME NEW a \in Agents, NEW r \in Requests, FindFails(a, r) PROVE GaveUpIsClosed'
  BY <1>18 DEF FindFails, Return, MayWaitFor, StoreFails
<1>19. ASSUME NEW o \in Operators, Wake(o) PROVE GaveUpIsClosed'
  BY <1>19 DEF Wake
<1>20. ASSUME NEW o \in Operators, AnnounceResolved(o) PROVE GaveUpIsClosed'
  BY <1>20 DEF AnnounceResolved
<1>21. ASSUME NEW o \in Operators, NEW r \in Requests, NEW v \in Decisions, Decide(o, r, v)
       PROVE  GaveUpIsClosed'
  BY <1>21 DEF Decide, Resolve, Resolvable, Updated
<1>22. ASSUME NEW o \in Operators, NEW r \in Requests, NEW v \in Decisions, DecideTorn(o, r, v)
       PROVE  GaveUpIsClosed'
  BY <1>22 DEF DecideTorn, StoreFails, Resolvable, Updated
<1>23. ASSUME NEW o \in Operators, NEW r \in Requests, DecideExpire(o, r)
       PROVE  GaveUpIsClosed'
  BY <1>23 DEF DecideExpire, Resolve, Resolvable, Updated
<1>24. ASSUME NEW o \in Operators, NEW r \in Requests, Rejected(o, r) PROVE GaveUpIsClosed'
  BY <1>24 DEF Rejected
<1>25. ASSUME NEW o \in Operators, NEW r \in Requests, ExpireResolved(o, r)
       PROVE  GaveUpIsClosed'
  BY <1>25 DEF ExpireResolved
<1>26. ASSUME NEW o \in Operators, NEW r \in Requests, DecideFails(o, r)
       PROVE  GaveUpIsClosed'
  BY <1>26 DEF DecideFails, StoreFails
<1>27. ASSUME Restart PROVE GaveUpIsClosed'
  BY <1>27 DEF Restart
<1> QED
  BY ONLY Next, <1>1, <1>2, <1>3, <1>4, <1>5, <1>6, <1>7, <1>8, <1>9, <1>10,
     <1>11, <1>12, <1>13, <1>14, <1>15, <1>16, <1>17, <1>18, <1>19, <1>20,
     <1>21, <1>22, <1>23, <1>24, <1>25, <1>26, <1>27 DEF Next, AgentNext,
     Proceed, WaitFor, OperatorNext

\* Every answer and every reply tells how the request stands in the store.
LEMMA AnswerStep ==
  ASSUME IInv, Next
  PROVE  AnswersAgree'
<1> USE IInv, VerdictNames, AnswerFields
    DEF IInv, TypeOK, AgentStates, agentVars, operVars, CallsHaveRows, SentIsStored, GaveUpIsClosed, AnswersAgree,
        VerdictIsStored, RefusedIsClosed, AcknowledgedStands, Terminal, Told, Failed
<1>1. ASSUME NEW a \in Agents, AnnounceOpened(a) PROVE AnswersAgree'
  BY <1>1 DEF AnnounceOpened
<1>2. ASSUME NEW a \in Agents, Register(a) PROVE AnswersAgree'
  BY <1>2 DEF Register, Cancel, SlotOfLast
<1>3. ASSUME NEW a \in Agents, Woken(a) PROVE AnswersAgree'
  BY <1>3 DEF Woken, Return
<1>4. ASSUME NEW a \in Agents, Canceled(a) PROVE AnswersAgree'
  BY <1>4 DEF Canceled
<1>5. ASSUME NEW a \in Agents, TimeOut(a) PROVE AnswersAgree'
  BY <1>5 DEF TimeOut, Deadline
<1>6. ASSUME NEW a \in Agents, DropSlot(a) PROVE AnswersAgree'
  BY <1>6 DEF DropSlot, Cancel
<1>7. ASSUME NEW a \in Agents, Expire(a) PROVE AnswersAgree'
  BY <1>7 DEF Expire, Resolvable, Updated
<1>8. ASSUME NEW a \in Agents, ExpireTooLate(a) PROVE AnswersAgree'
  BY <1>8 DEF ExpireTooLate, Resolvable
<1>9. ASSUME NEW a \in Agents, AnnounceExpired(a) PROVE AnswersAgree'
  BY <1>9 DEF AnnounceExpired, Return, Refusal
<1>10. ASSUME NEW a \in Agents, Reread(a) PROVE AnswersAgree'
  BY <1>10 DEF Reread, Return, Refusal
<1>11. ASSUME NEW a \in Agents, HangUp(a) PROVE AnswersAgree'
  BY <1>11 DEF HangUp, Return
<1>12. ASSUME NEW a \in Agents, ExpireFails(a) PROVE AnswersAgree'
  BY <1>12 DEF ExpireFails, Return, StoreFails
<1>13. ASSUME NEW a \in Agents, ExpireTorn(a) PROVE AnswersAgree'
  BY <1>13 DEF ExpireTorn, Return, StoreFails, Resolvable, Updated
<1>14. ASSUME NEW a \in Agents, NEW r \in Requests, NEW next \in {"idle", "holding", "register"}, Insert(a, r, next)
       PROVE  AnswersAgree'
  BY <1>14 DEF Insert
<1>15. ASSUME NEW a \in Agents, NEW r \in Requests, FindOpen(a, r) PROVE AnswersAgree'
  BY <1>15 DEF FindOpen, MayWaitFor
<1>16. ASSUME NEW a \in Agents, NEW r \in Requests, FindResolved(a, r) PROVE AnswersAgree'
  BY <1>16 DEF FindResolved, Return, MayWaitFor, Terminal
<1>17. ASSUME NEW a \in Agents, NEW r \in Requests, FindNothing(a, r) PROVE AnswersAgree'
  BY <1>17 DEF FindNothing, Return, MayWaitFor
<1>18. ASSUME NEW a \in Agents, NEW r \in Requests, FindFails(a, r) PROVE AnswersAgree'
  BY <1>18 DEF FindFails, Return, MayWaitFor, StoreFails
<1>19. ASSUME NEW o \in Operators, Wake(o) PROVE AnswersAgree'
  BY <1>19 DEF Wake
<1>20. ASSUME NEW o \in Operators, AnnounceResolved(o) PROVE AnswersAgree'
  BY <1>20 DEF AnnounceResolved
<1>21. ASSUME NEW o \in Operators, NEW r \in Requests, NEW v \in Decisions, Decide(o, r, v)
       PROVE  AnswersAgree'
  BY <1>21 DEF Decide, Resolve, Resolvable, Updated
<1>22. ASSUME NEW o \in Operators, NEW r \in Requests, NEW v \in Decisions, DecideTorn(o, r, v)
       PROVE  AnswersAgree'
  BY <1>22 DEF DecideTorn, StoreFails, Resolvable, Updated
<1>23. ASSUME NEW o \in Operators, NEW r \in Requests, DecideExpire(o, r)
       PROVE  AnswersAgree'
  BY <1>23 DEF DecideExpire, Resolve, Resolvable, Updated
<1>24. ASSUME NEW o \in Operators, NEW r \in Requests, Rejected(o, r) PROVE AnswersAgree'
  BY <1>24 DEF Rejected
<1>25. ASSUME NEW o \in Operators, NEW r \in Requests, ExpireResolved(o, r)
       PROVE  AnswersAgree'
  BY <1>25 DEF ExpireResolved
<1>26. ASSUME NEW o \in Operators, NEW r \in Requests, DecideFails(o, r)
       PROVE  AnswersAgree'
  BY <1>26 DEF DecideFails, StoreFails
<1>27. ASSUME Restart PROVE AnswersAgree'
  BY <1>27 DEF Restart
<1> QED
  BY ONLY Next, <1>1, <1>2, <1>3, <1>4, <1>5, <1>6, <1>7, <1>8, <1>9, <1>10,
     <1>11, <1>12, <1>13, <1>14, <1>15, <1>16, <1>17, <1>18, <1>19, <1>20,
     <1>21, <1>22, <1>23, <1>24, <1>25, <1>26, <1>27 DEF Next, AgentNext,
     Proceed, WaitFor, OperatorNext

LEMMA IInvStep == IInv /\ [Next]_vars => IInv'
<1>1. ASSUME IInv, Next PROVE IInv'
  BY <1>1, TypeStep, SlotStep, RowsStep, SentStep, GaveUpStep, AnswerStep DEF IInv
<1>2. ASSUME IInv, UNCHANGED vars PROVE IInv'
  BY <1>2 DEF IInv, TypeOK, SlotIsWaiter, CallsHaveRows, SentIsStored, GaveUpIsClosed,
    AnswersAgree, VerdictIsStored, RefusedIsClosed, AcknowledgedStands, Terminal,
    vars, agentVars, operVars
<1> QED BY <1>1, <1>2

\* The inductive invariant holds in every reachable state.
THEOREM Inductive == Spec => []IInv
BY InitIInv, IInvStep, PTL DEF Spec

\* Rows, waiter map, program counters and answers keep their types.
THEOREM TypeCorrect == Spec => []TypeOK
BY Inductive, PTL DEF IInv

\* The waiter map holds exactly the waiters that nobody resolved, canceled or
\* timed out, whatever calls interleave.
THEOREM SlotsCorrect == Spec => []SlotIsWaiter
BY Inductive, PTL DEF IInv

\* A verdict, a refusal and an acknowledgement always tell what the store holds.
THEOREM AnswersCorrect == Spec => []AnswersAgree
BY Inductive, PTL DEF IInv

-----------------------------------------------------------------------------
\* Every step that writes a row opens a new one or settles an open one.
LEMMA RowMove ==
  ASSUME IInv, Next
  PROVE  \A q \in Requests : RowMoves(q)
<1> USE IInv, VerdictNames
    DEF IInv, TypeOK, AgentStates, agentVars, operVars, RowMoves, CallsHaveRows
<1>1. ASSUME NEW a \in Agents, AnnounceOpened(a) PROVE \A q \in Requests : RowMoves(q)
  BY <1>1 DEF AnnounceOpened
<1>2. ASSUME NEW a \in Agents, Register(a) PROVE \A q \in Requests : RowMoves(q)
  BY <1>2 DEF Register, Cancel, SlotOfLast
<1>3. ASSUME NEW a \in Agents, Woken(a) PROVE \A q \in Requests : RowMoves(q)
  BY <1>3 DEF Woken, Return
<1>4. ASSUME NEW a \in Agents, Canceled(a) PROVE \A q \in Requests : RowMoves(q)
  BY <1>4 DEF Canceled
<1>5. ASSUME NEW a \in Agents, TimeOut(a) PROVE \A q \in Requests : RowMoves(q)
  BY <1>5 DEF TimeOut, Deadline
<1>6. ASSUME NEW a \in Agents, DropSlot(a) PROVE \A q \in Requests : RowMoves(q)
  BY <1>6 DEF DropSlot, Cancel
<1>7. ASSUME NEW a \in Agents, Expire(a) PROVE \A q \in Requests : RowMoves(q)
  BY <1>7 DEF Expire, Resolvable, Updated
<1>8. ASSUME NEW a \in Agents, ExpireTooLate(a) PROVE \A q \in Requests : RowMoves(q)
  BY <1>8 DEF ExpireTooLate, Resolvable
<1>9. ASSUME NEW a \in Agents, AnnounceExpired(a) PROVE \A q \in Requests : RowMoves(q)
  BY <1>9 DEF AnnounceExpired, Return, Refusal
<1>10. ASSUME NEW a \in Agents, Reread(a) PROVE \A q \in Requests : RowMoves(q)
  BY <1>10 DEF Reread, Return, Refusal
<1>11. ASSUME NEW a \in Agents, HangUp(a) PROVE \A q \in Requests : RowMoves(q)
  BY <1>11 DEF HangUp, Return
<1>12. ASSUME NEW a \in Agents, ExpireFails(a) PROVE \A q \in Requests : RowMoves(q)
  BY <1>12 DEF ExpireFails, Return, StoreFails
<1>13. ASSUME NEW a \in Agents, ExpireTorn(a) PROVE \A q \in Requests : RowMoves(q)
  BY <1>13 DEF ExpireTorn, Return, StoreFails, Resolvable, Updated
<1>14. ASSUME NEW a \in Agents, NEW r \in Requests, NEW next \in {"idle", "holding", "register"}, Insert(a, r, next)
       PROVE  \A q \in Requests : RowMoves(q)
  BY <1>14 DEF Insert
<1>15. ASSUME NEW a \in Agents, NEW r \in Requests, FindOpen(a, r)
       PROVE  \A q \in Requests : RowMoves(q)
  BY <1>15 DEF FindOpen, MayWaitFor
<1>16. ASSUME NEW a \in Agents, NEW r \in Requests, FindResolved(a, r)
       PROVE  \A q \in Requests : RowMoves(q)
  BY <1>16 DEF FindResolved, Return, MayWaitFor, Terminal
<1>17. ASSUME NEW a \in Agents, NEW r \in Requests, FindNothing(a, r)
       PROVE  \A q \in Requests : RowMoves(q)
  BY <1>17 DEF FindNothing, Return, MayWaitFor
<1>18. ASSUME NEW a \in Agents, NEW r \in Requests, FindFails(a, r)
       PROVE  \A q \in Requests : RowMoves(q)
  BY <1>18 DEF FindFails, Return, MayWaitFor, StoreFails
<1>19. ASSUME NEW o \in Operators, Wake(o) PROVE \A q \in Requests : RowMoves(q)
  BY <1>19 DEF Wake
<1>20. ASSUME NEW o \in Operators, AnnounceResolved(o)
       PROVE  \A q \in Requests : RowMoves(q)
  BY <1>20 DEF AnnounceResolved
<1>21. ASSUME NEW o \in Operators, NEW r \in Requests, NEW v \in Decisions, Decide(o, r, v)
       PROVE  \A q \in Requests : RowMoves(q)
  BY <1>21 DEF Decide, Resolve, Resolvable, Updated
<1>22. ASSUME NEW o \in Operators, NEW r \in Requests, NEW v \in Decisions, DecideTorn(o, r, v)
       PROVE  \A q \in Requests : RowMoves(q)
  BY <1>22 DEF DecideTorn, StoreFails, Resolvable, Updated
<1>23. ASSUME NEW o \in Operators, NEW r \in Requests, DecideExpire(o, r)
       PROVE  \A q \in Requests : RowMoves(q)
  BY <1>23 DEF DecideExpire, Resolve, Resolvable, Updated
<1>24. ASSUME NEW o \in Operators, NEW r \in Requests, Rejected(o, r)
       PROVE  \A q \in Requests : RowMoves(q)
  BY <1>24 DEF Rejected
<1>25. ASSUME NEW o \in Operators, NEW r \in Requests, ExpireResolved(o, r)
       PROVE  \A q \in Requests : RowMoves(q)
  BY <1>25 DEF ExpireResolved
<1>26. ASSUME NEW o \in Operators, NEW r \in Requests, DecideFails(o, r)
       PROVE  \A q \in Requests : RowMoves(q)
  BY <1>26 DEF DecideFails, StoreFails
<1>27. ASSUME Restart PROVE \A q \in Requests : RowMoves(q)
  BY <1>27 DEF Restart
<1> QED
  BY ONLY Next, <1>1, <1>2, <1>3, <1>4, <1>5, <1>6, <1>7, <1>8, <1>9, <1>10,
     <1>11, <1>12, <1>13, <1>14, <1>15, <1>16, <1>17, <1>18, <1>19, <1>20,
     <1>21, <1>22, <1>23, <1>24, <1>25, <1>26, <1>27 DEF Next, AgentNext,
     Proceed, WaitFor, OperatorNext

\* A row's verdict is final, restarts included.
THEOREM RowsFinal == Spec => RowsAreFinal
<1>1. IInv /\ [Next]_vars =>
        [\A r \in Requests : row[r] # row'[r] =>
           \/ row[r] = "absent" /\ row'[r] = "open"
           \/ row[r] = "open" /\ row'[r] \in Verdicts]_vars
  BY RowMove DEF RowMoves
<1> QED BY <1>1, Inductive, PTL DEF Spec, RowsAreFinal

-----------------------------------------------------------------------------
(* What CallsEnd needs besides fairness: a call is never stuck, and short. *)

\* A waiter listens to a receiver that has a verdict, was canceled, or may yet
\* be resolved before its deadline.
WaiterListens ==
  \A a \in Agents : pc[a] = "waiting" => rx[a] \in Verdicts \union {"pending", "canceled"}

\* The call of agent a can go on by itself.
CallCanGoOn(a) ==
  \/ pc[a] \in {"opened", "register", "drop_slot", "expire", "announce", "reread"}
  \/ pc[a] = "holding" /\ (row[req[a]] \in {"open", "absent"} \/ Terminal(req[a]))
  \/ pc[a] = "waiting" /\ (rx[a] \in Verdicts \/ rx[a] = "canceled" \/ Deadline(a))

\* The most steps that are left of a call.
StepsLeft(place) ==
  CASE place = "opened" -> 7
    [] place = "holding" -> 6
    [] place = "register" -> 5
    [] place = "waiting" -> 4
    [] place = "drop_slot" -> 3
    [] place = "expire" -> 2
    [] place \in {"announce", "reread"} -> 1
    [] OTHER -> 0

\* A step leaves the call of an agent alone, or takes from it.
CallMoves(a) == pc'[a] = pc[a] \/ StepsLeft(pc'[a]) < StepsLeft(pc[a])

LEMMA Places ==
  /\ StepsLeft("opened") = 7 /\ StepsLeft("holding") = 6 /\ StepsLeft("register") = 5
  /\ StepsLeft("waiting") = 4 /\ StepsLeft("drop_slot") = 3 /\ StepsLeft("expire") = 2
  /\ StepsLeft("announce") = 1 /\ StepsLeft("reread") = 1 /\ StepsLeft("idle") = 0
BY DEF StepsLeft

LEMMA ListensStep == ASSUME IInv, WaiterListens, [Next]_vars PROVE WaiterListens'
<1> USE VerdictNames DEF IInv, TypeOK, agentVars, operVars
<1>1. ASSUME NEW a \in Agents, Register(a) \/ DropSlot(a) PROVE WaiterListens'
  <2>1. /\ \A b \in Agents \ {a} : pc'[b] = pc[b] /\ rx'[b] \in {rx[b], "canceled"}
        /\ pc'[a] = "waiting" => rx'[a] = "pending"
    BY <1>1 DEF Register, DropSlot, Cancel
  <2> QED BY <2>1 DEF WaiterListens
<1>2. ASSUME NEW a \in Agents,
             Woken(a) \/ HangUp(a) \/ AnnounceExpired(a) \/ Reread(a) \/ ExpireFails(a) \/ ExpireTorn(a)
      PROVE  WaiterListens'
  <2>1. Return(a)
    BY <1>2 DEF Woken, HangUp, AnnounceExpired, Reread, ExpireFails, ExpireTorn
  <2> QED BY <2>1 DEF Return, WaiterListens
<1>3. ASSUME NEW a \in Agents, NEW r \in Requests,
             FindResolved(a, r) \/ FindNothing(a, r) \/ FindFails(a, r)
      PROVE  WaiterListens'
  <2>1. Return(a) BY <1>3 DEF FindResolved, FindNothing, FindFails
  <2> QED BY <2>1 DEF Return, WaiterListens
<1>4. ASSUME NEW a \in Agents,
             AnnounceOpened(a) \/ Canceled(a) \/ TimeOut(a) \/ Expire(a) \/ ExpireTooLate(a)
      PROVE  WaiterListens'
  <2>1. /\ \A b \in Agents \ {a} : pc'[b] = pc[b] /\ rx'[b] = rx[b]
        /\ pc'[a] # "waiting"
    BY <1>4 DEF AnnounceOpened, Canceled, TimeOut, Expire, ExpireTooLate
  <2> QED BY <2>1 DEF WaiterListens
<1>5. ASSUME NEW a \in Agents, NEW r \in Requests,
             FindOpen(a, r) \/ \E next \in {"idle", "holding", "register"} : Insert(a, r, next)
      PROVE  WaiterListens'
  <2>1. /\ \A b \in Agents \ {a} : pc'[b] = pc[b]
        /\ pc'[a] # "waiting" /\ rx' = rx
    BY <1>5 DEF FindOpen, Insert
  <2> QED BY <2>1 DEF WaiterListens
<1>6. ASSUME NEW o \in Operators, Wake(o) PROVE WaiterListens'
  <2>1. overd[o] \in Verdicts BY <1>6 DEF Wake, CallsHaveRows
  <2>2. pc' = pc /\ \A b \in Agents : rx'[b] \in {rx[b], overd[o]} BY <1>6 DEF Wake
  <2> QED BY <2>1, <2>2 DEF WaiterListens
<1>7. ASSUME NEW o \in Operators, OperatorNext(o), ~Wake(o) PROVE WaiterListens'
  <2>1. UNCHANGED <<pc, rx>>
    BY <1>7 DEF OperatorNext, AnnounceResolved, Decide, DecideTorn, DecideExpire, Resolve, Rejected,
                ExpireResolved, DecideFails
  <2> QED BY <2>1 DEF WaiterListens
<1>8. CASE Restart BY <1>8 DEF Restart, WaiterListens
<1>9. CASE UNCHANGED vars BY <1>9 DEF vars, WaiterListens
<1> QED
  BY ONLY [Next]_vars, <1>1, <1>2, <1>3, <1>4, <1>5, <1>6, <1>7, <1>8, <1>9
   DEF Next, AgentNext, Proceed, WaitFor

\* No call hangs: wherever it stands it can go on by itself; a waiter whose sender
\* was dropped, replaced or taken out of the map has been told.
THEOREM CallsGoOn == Spec => [](\A a \in Agents : pc[a] # "idle" => CallCanGoOn(a))
<1>1. Init => WaiterListens BY DEF Init, WaiterListens
<1>2. IInv /\ WaiterListens => \A a \in Agents : pc[a] # "idle" => CallCanGoOn(a)
  BY DEF IInv, TypeOK, AgentStates, CallsHaveRows, WaiterListens, CallCanGoOn, Terminal, Deadline
<1> QED BY <1>1, <1>2, ListensStep, Inductive, PTL DEF Spec

\* The step of a call takes from it, and from no other call.
LEMMA ProceedFalls ==
  ASSUME IInv, NEW a \in Agents, Proceed(a)
  PROVE  StepsLeft(pc'[a]) < StepsLeft(pc[a]) /\ \A b \in Agents \ {a} : pc'[b] = pc[b]
<1> USE Places DEF IInv, TypeOK, agentVars, operVars
<1>1. CASE AnnounceOpened(a)
  <2>1. after[a] \in {"idle", "holding", "register"} OBVIOUS
  <2>2. pc[a] = "opened" /\ pc' = [pc EXCEPT ![a] = after[a]] BY <1>1 DEF AnnounceOpened
  <2>3. StepsLeft(after[a]) < 7 BY ONLY <2>1, Places
  <2> QED BY <2>2, <2>3
<1>2. CASE Register(a) BY <1>2 DEF Register
<1>3. CASE Woken(a) BY <1>3 DEF Woken, Return
<1>4. CASE Canceled(a) \/ TimeOut(a) BY <1>4 DEF Canceled, TimeOut
<1>5. CASE DropSlot(a) BY <1>5 DEF DropSlot
<1>6. CASE Expire(a) \/ ExpireTooLate(a) BY <1>6 DEF Expire, ExpireTooLate
<1>7. CASE AnnounceExpired(a) \/ Reread(a) BY <1>7 DEF AnnounceExpired, Reread, Return
<1> QED BY <1>1, <1>2, <1>3, <1>4, <1>5, <1>6, <1>7 DEF Proceed

LEMMA CallStep == ASSUME IInv, Next PROVE \A a \in Agents : pc[a] # "idle" => CallMoves(a)
<1> USE Places DEF IInv, TypeOK, agentVars, operVars, CallMoves
<1>1. ASSUME NEW a \in Agents, Proceed(a) PROVE \A b \in Agents : pc[b] # "idle" => CallMoves(b)
  BY <1>1, ProceedFalls
<1>2. ASSUME NEW a \in Agents, HangUp(a) \/ ExpireFails(a) \/ ExpireTorn(a)
      PROVE  \A b \in Agents : pc[b] # "idle" => CallMoves(b)
  <2>1. Return(a) /\ pc[a] \in {"waiting", "expire", "reread"}
    BY <1>2 DEF HangUp, ExpireFails, ExpireTorn
  <2> QED BY <2>1 DEF Return
<1>3. ASSUME NEW a \in Agents, NEW r \in Requests,
             FindResolved(a, r) \/ FindNothing(a, r) \/ FindFails(a, r)
      PROVE  \A b \in Agents : pc[b] # "idle" => CallMoves(b)
  <2>1. Return(a) /\ pc[a] \in {"idle", "holding"}
    BY <1>3 DEF FindResolved, FindNothing, FindFails, MayWaitFor
  <2> QED BY <2>1 DEF Return
<1>4. ASSUME NEW a \in Agents, NEW r \in Requests, FindOpen(a, r)
      PROVE  \A b \in Agents : pc[b] # "idle" => CallMoves(b)
  <2>1. pc' = [pc EXCEPT ![a] = "register"] /\ pc[a] \in {"idle", "holding"}
    BY <1>4 DEF FindOpen, MayWaitFor
  <2> QED BY <2>1
<1>5. ASSUME NEW a \in Agents, NEW r \in Requests, NEW next, Insert(a, r, next)
      PROVE  \A b \in Agents : pc[b] # "idle" => CallMoves(b)
  BY <1>5 DEF Insert
<1>6. ASSUME NEW o \in Operators, OperatorNext(o)
      PROVE  \A b \in Agents : pc[b] # "idle" => CallMoves(b)
  <2>1. pc' = pc
    BY <1>6 DEF OperatorNext, Wake, AnnounceResolved, Decide, DecideTorn, DecideExpire, Resolve,
                Rejected, ExpireResolved, DecideFails
  <2> QED BY <2>1
<1>7. ASSUME Restart PROVE \A b \in Agents : pc[b] # "idle" => CallMoves(b)
  <2>1. ASSUME NEW place \in AgentStates \ {"idle"} PROVE 0 < StepsLeft(place)
    BY ONLY Places, <2>1 DEF AgentStates
  <2> QED BY <1>7, <2>1 DEF Restart
<1> QED
  BY ONLY Next, <1>1, <1>2, <1>3, <1>4, <1>5, <1>6, <1>7 DEF Next, AgentNext, WaitFor

\* Every call is short: each of its own steps brings it nearer to its end, at most
\* seven of them, and no step of another agent, an operator or a restart takes it back.
THEOREM CallsShrink ==
  Spec => [][\A a \in Agents : /\ pc[a] # "idle" => CallMoves(a)
                               /\ Proceed(a) => StepsLeft(pc'[a]) < StepsLeft(pc[a])]_vars
<1>1. IInv /\ [Next]_vars =>
        [\A a \in Agents : /\ pc[a] # "idle" => CallMoves(a)
                           /\ Proceed(a) => StepsLeft(pc'[a]) < StepsLeft(pc[a])]_vars
  BY CallStep, ProceedFalls
<1> QED BY <1>1, Inductive, PTL DEF Spec

-----------------------------------------------------------------------------
(* Review implements Approval: Insert asks, resolve settles, the steps that *)
(* return tell or refuse, and every other step leaves the promise alone.    *)

\* Every step of the service is a step of the promise or leaves it alone.
LEMMA PromiseStep ==
  ASSUME IInv, Next
  PROVE  [Promise!Next]_(Promise!vars)
<1> USE IInv, VerdictNames
    DEF IInv, TypeOK, AgentStates, agentVars, operVars, CallsHaveRows, SentIsStored, GaveUpIsClosed, Terminal, Told, Failed,
        Promise!Next, Promise!vars, Promise!Settled, Promise!Decided, Promise!Unknown
<1>1. ASSUME NEW a \in Agents, AnnounceOpened(a) PROVE [Promise!Next]_(Promise!vars)
  BY <1>1 DEF AnnounceOpened
<1>2. ASSUME NEW a \in Agents, Register(a) PROVE [Promise!Next]_(Promise!vars)
  BY <1>2 DEF Register, Cancel, SlotOfLast
<1>3. ASSUME NEW a \in Agents, Woken(a) PROVE [Promise!Next]_(Promise!vars)
  BY <1>3 DEF Woken, Return, Promise!Tell
<1>4. ASSUME NEW a \in Agents, Canceled(a) PROVE [Promise!Next]_(Promise!vars)
  BY <1>4 DEF Canceled
<1>5. ASSUME NEW a \in Agents, TimeOut(a) PROVE [Promise!Next]_(Promise!vars)
  BY <1>5 DEF TimeOut, Deadline
<1>6. ASSUME NEW a \in Agents, DropSlot(a) PROVE [Promise!Next]_(Promise!vars)
  BY <1>6 DEF DropSlot, Cancel
<1>7. ASSUME NEW a \in Agents, Expire(a) PROVE [Promise!Next]_(Promise!vars)
  BY <1>7 DEF Expire, Resolvable, Updated, Promise!Settle
<1>8. ASSUME NEW a \in Agents, ExpireTooLate(a) PROVE [Promise!Next]_(Promise!vars)
  BY <1>8 DEF ExpireTooLate, Resolvable
<1>9. ASSUME NEW a \in Agents, AnnounceExpired(a) PROVE [Promise!Next]_(Promise!vars)
  BY <1>9 DEF AnnounceExpired, Return, Refusal, Promise!Refuse
<1>10. ASSUME NEW a \in Agents, Reread(a) PROVE [Promise!Next]_(Promise!vars)
  BY <1>10 DEF Reread, Return, Refusal, Promise!Refuse
<1>11. ASSUME NEW a \in Agents, HangUp(a) PROVE [Promise!Next]_(Promise!vars)
  BY <1>11 DEF HangUp, Return
<1>12. ASSUME NEW a \in Agents, ExpireFails(a) PROVE [Promise!Next]_(Promise!vars)
  BY <1>12 DEF ExpireFails, Return, StoreFails, Promise!Fail
<1>13. ASSUME NEW a \in Agents, ExpireTorn(a) PROVE [Promise!Next]_(Promise!vars)
  BY <1>13 DEF ExpireTorn, Return, StoreFails, Resolvable, Updated, Promise!Fail
<1>14. ASSUME NEW a \in Agents, NEW r \in Requests, NEW next \in {"idle", "holding", "register"}, Insert(a, r, next)
       PROVE  [Promise!Next]_(Promise!vars)
  BY <1>14 DEF Insert, Promise!Ask
<1>15. ASSUME NEW a \in Agents, NEW r \in Requests, FindOpen(a, r)
       PROVE  [Promise!Next]_(Promise!vars)
  BY <1>15 DEF FindOpen, MayWaitFor
<1>16. ASSUME NEW a \in Agents, NEW r \in Requests, FindResolved(a, r)
       PROVE  [Promise!Next]_(Promise!vars)
  BY <1>16 DEF FindResolved, Return, MayWaitFor, Terminal, Promise!Tell
<1>17. ASSUME NEW a \in Agents, NEW r \in Requests, FindNothing(a, r)
       PROVE  [Promise!Next]_(Promise!vars)
  BY <1>17 DEF FindNothing, Return, MayWaitFor, Promise!Fail
<1>18. ASSUME NEW a \in Agents, NEW r \in Requests, FindFails(a, r)
       PROVE  [Promise!Next]_(Promise!vars)
  BY <1>18 DEF FindFails, Return, MayWaitFor, StoreFails, Promise!Fail
<1>19. ASSUME NEW o \in Operators, Wake(o) PROVE [Promise!Next]_(Promise!vars)
  BY <1>19 DEF Wake
<1>20. ASSUME NEW o \in Operators, AnnounceResolved(o) PROVE [Promise!Next]_(Promise!vars)
  BY <1>20 DEF AnnounceResolved, Promise!Acknowledge
<1>21. ASSUME NEW o \in Operators, NEW r \in Requests, NEW v \in Decisions, Decide(o, r, v)
       PROVE  [Promise!Next]_(Promise!vars)
  BY <1>21 DEF Decide, Resolve, Resolvable, Updated, Promise!Settle
<1>22. ASSUME NEW o \in Operators, NEW r \in Requests, NEW v \in Decisions, DecideTorn(o, r, v)
       PROVE  [Promise!Next]_(Promise!vars)
  BY <1>22 DEF DecideTorn, StoreFails, Resolvable, Updated, Promise!Reject
<1>23. ASSUME NEW o \in Operators, NEW r \in Requests, DecideExpire(o, r)
       PROVE  [Promise!Next]_(Promise!vars)
  BY <1>23 DEF DecideExpire, Resolve, Resolvable, Updated, Promise!Settle
<1>24. ASSUME NEW o \in Operators, NEW r \in Requests, Rejected(o, r)
       PROVE  [Promise!Next]_(Promise!vars)
  BY <1>24 DEF Rejected, Promise!Reject
<1>25. ASSUME NEW o \in Operators, NEW r \in Requests, ExpireResolved(o, r)
       PROVE  [Promise!Next]_(Promise!vars)
  BY <1>25 DEF ExpireResolved, Promise!Acknowledge
<1>26. ASSUME NEW o \in Operators, NEW r \in Requests, DecideFails(o, r)
       PROVE  [Promise!Next]_(Promise!vars)
  BY <1>26 DEF DecideFails, StoreFails, Promise!Reject
<1>27. ASSUME Restart PROVE [Promise!Next]_(Promise!vars)
  BY <1>27 DEF Restart
<1> QED
  BY ONLY Next, <1>1, <1>2, <1>3, <1>4, <1>5, <1>6, <1>7, <1>8, <1>9, <1>10,
     <1>11, <1>12, <1>13, <1>14, <1>15, <1>16, <1>17, <1>18, <1>19, <1>20,
     <1>21, <1>22, <1>23, <1>24, <1>25, <1>26, <1>27 DEF Next, AgentNext,
     Proceed, WaitFor, OperatorNext

\* The review service keeps the promise of module Approval.
THEOREM Refinement == Spec => Implements
<1>1. Init => Promise!Init
  BY DEF Init, Promise!Init, NoAnswer, Promise!NoAnswer
<1>2. IInv /\ [Next]_vars => [Promise!Next]_(Promise!vars)
  BY PromiseStep DEF vars, agentVars, operVars, Promise!vars
<1> QED BY <1>1, <1>2, Inductive, PTL DEF Spec, Promise!Spec, Implements

-----------------------------------------------------------------------------
(* Review with a session of /ws/review.                                    *)

Opening(r) == \E a \in Agents : pc[a] = "opened" /\ req[a] = r

\* The event that tells a client of r is still to come.
Coming(r) ==
  \E i \in (cursor + 1)..Len(feed) : feed[i].event = "opened" /\ feed[i].req = r

\* Only the requests that are closed have an event that takes them from a view.
ResolvedIsClosed ==
  \A i \in 1..Len(feed) : feed[i].event = "opened" \/ Terminal(feed[i].req)

\* While the stream runs, a request whose Opened event was sent is in view or
\* on its way; while it does not, a snapshot will come first.
ShownOrComing ==
  link = "streaming" /\ faults = 0 =>
    \A r \in Requests : row[r] = "open" /\ ~Opening(r) => r \in view \/ Coming(r)

SessionOK == cursor \in 0..Len(feed) /\ ResolvedIsClosed /\ ShownOrComing

FeedInv == IInv /\ SessionOK

\* What a step of a call does to the feed: it leaves it alone or sends an event,
\* "resolved" only of a closed request; and a request that is open when no call
\* is about to announce it was so before, or is announced by this step.
CallNext == (\E a \in Agents : AgentNext(a)) \/ (\E o \in Operators : OperatorNext(o))
Announces(r) == feed' = Append(feed, Event("opened", r, "open"))
Sends ==
  \E k \in {"opened", "resolved"}, r \in Requests, s \in Verdicts \union {"open"} :
    feed' = Append(feed, Event(k, r, s)) /\ (k = "opened" \/ Terminal(r))
FeedMoves ==
  /\ feed' = feed \/ Sends
  /\ \A r \in Requests :
       row'[r] = "open" /\ ~Opening(r)' => Announces(r) \/ (row[r] = "open" /\ ~Opening(r))
  /\ faults' = 0 => faults = 0

LEMMA FeedMove ==
  ASSUME IInv, CallNext PROVE FeedMoves
<1> USE IInv, VerdictNames
    DEF IInv, TypeOK, AgentStates, agentVars, operVars, FeedMoves, CallsHaveRows, GaveUpIsClosed, Opening, Terminal
<1>1. ASSUME NEW a \in Agents, AnnounceOpened(a) PROVE FeedMoves
  BY <1>1 DEF AnnounceOpened, Sent, Sends, Announces
<1>2. ASSUME NEW a \in Agents, Register(a) PROVE FeedMoves
  BY <1>2 DEF Register, Cancel, SlotOfLast
<1>3. ASSUME NEW a \in Agents, Woken(a) PROVE FeedMoves
  BY <1>3 DEF Woken, Return
<1>4. ASSUME NEW a \in Agents, Canceled(a) PROVE FeedMoves
  BY <1>4 DEF Canceled
<1>5. ASSUME NEW a \in Agents, TimeOut(a) PROVE FeedMoves
  BY <1>5 DEF TimeOut, Deadline
<1>6. ASSUME NEW a \in Agents, DropSlot(a) PROVE FeedMoves
  BY <1>6 DEF DropSlot, Cancel
<1>7. ASSUME NEW a \in Agents, Expire(a) PROVE FeedMoves
  BY <1>7 DEF Expire, Resolvable, Updated
<1>8. ASSUME NEW a \in Agents, ExpireTooLate(a) PROVE FeedMoves
  BY <1>8 DEF ExpireTooLate, Resolvable
<1>9. ASSUME NEW a \in Agents, AnnounceExpired(a) PROVE FeedMoves
  BY <1>9 DEF AnnounceExpired, Return, Sent, Sends
<1>10. ASSUME NEW a \in Agents, Reread(a) PROVE FeedMoves
  BY <1>10 DEF Reread, Return, Refusal
<1>11. ASSUME NEW a \in Agents, HangUp(a) PROVE FeedMoves
  BY <1>11 DEF HangUp, Return
<1>12. ASSUME NEW a \in Agents, ExpireFails(a) PROVE FeedMoves
  BY <1>12 DEF ExpireFails, Return, StoreFails
<1>13. ASSUME NEW a \in Agents, ExpireTorn(a) PROVE FeedMoves
  BY <1>13 DEF ExpireTorn, Return, StoreFails, Resolvable, Updated
<1>14. ASSUME NEW a \in Agents, NEW r \in Requests, NEW next \in {"idle", "holding", "register"}, Insert(a, r, next)
       PROVE  FeedMoves
  BY <1>14 DEF Insert
<1>15. ASSUME NEW a \in Agents, NEW r \in Requests, FindOpen(a, r) PROVE FeedMoves
  BY <1>15 DEF FindOpen, MayWaitFor
<1>16. ASSUME NEW a \in Agents, NEW r \in Requests, FindResolved(a, r) PROVE FeedMoves
  BY <1>16 DEF FindResolved, Return, MayWaitFor, Terminal
<1>17. ASSUME NEW a \in Agents, NEW r \in Requests, FindNothing(a, r) PROVE FeedMoves
  BY <1>17 DEF FindNothing, Return, MayWaitFor
<1>18. ASSUME NEW a \in Agents, NEW r \in Requests, FindFails(a, r) PROVE FeedMoves
  BY <1>18 DEF FindFails, Return, MayWaitFor, StoreFails
<1>19. ASSUME NEW o \in Operators, Wake(o) PROVE FeedMoves
  BY <1>19 DEF Wake
<1>20. ASSUME NEW o \in Operators, AnnounceResolved(o) PROVE FeedMoves
  BY <1>20 DEF AnnounceResolved, Sent, Sends
<1>21. ASSUME NEW o \in Operators, NEW r \in Requests, NEW v \in Decisions, Decide(o, r, v)
       PROVE  FeedMoves
  BY <1>21 DEF Decide, Resolve, Resolvable, Updated
<1>22. ASSUME NEW o \in Operators, NEW r \in Requests, NEW v \in Decisions, DecideTorn(o, r, v)
       PROVE  FeedMoves
  BY <1>22 DEF DecideTorn, StoreFails, Resolvable, Updated
<1>23. ASSUME NEW o \in Operators, NEW r \in Requests, DecideExpire(o, r) PROVE FeedMoves
  BY <1>23 DEF DecideExpire, Resolve, Resolvable, Updated
<1>24. ASSUME NEW o \in Operators, NEW r \in Requests, Rejected(o, r) PROVE FeedMoves
  BY <1>24 DEF Rejected
<1>25. ASSUME NEW o \in Operators, NEW r \in Requests, ExpireResolved(o, r) PROVE FeedMoves
  BY <1>25 DEF ExpireResolved
<1>26. ASSUME NEW o \in Operators, NEW r \in Requests, DecideFails(o, r) PROVE FeedMoves
  BY <1>26 DEF DecideFails, StoreFails
<1> QED
  BY ONLY CallNext, <1>1, <1>2, <1>3, <1>4, <1>5, <1>6, <1>7, <1>8, <1>9, <1>10,
     <1>11, <1>12, <1>13, <1>14, <1>15, <1>16, <1>17, <1>18, <1>19, <1>20,
     <1>21, <1>22, <1>23, <1>24, <1>25, <1>26
     DEF CallNext, AgentNext, Proceed, WaitFor, OperatorNext

\* What was sent stays sent, and an event adds one to the unread.
LEMMA SendsFeed ==
  ASSUME feed \in Seq(Events), Sends
  PROVE  /\ Len(feed') = Len(feed) + 1
         /\ \A i \in 1..Len(feed) : feed'[i] = feed[i]
         /\ LET e == feed'[Len(feed) + 1] IN
              /\ e.event = "opened" \/ (e.req \in Requests /\ Terminal(e.req))
              /\ \A r \in Requests : Announces(r) => e.event = "opened" /\ e.req = r
<1>1. PICK k \in {"opened", "resolved"}, r \in Requests, s \in Verdicts \union {"open"} :
        feed' = Append(feed, Event(k, r, s)) /\ (k = "opened" \/ Terminal(r))
  BY DEF Sends
<1>2. feed'[Len(feed) + 1] = Event(k, r, s)
  BY <1>1
<1>3. Event(k, r, s).event = k /\ Event(k, r, s).req = r
  BY DEF Event
<1>4. ASSUME NEW q \in Requests, Announces(q)
      PROVE  feed'[Len(feed) + 1].event = "opened" /\ feed'[Len(feed) + 1].req = q
  BY <1>4 DEF Announces, Event
<1>5. Len(feed') = Len(feed) + 1 /\ \A i \in 1..Len(feed) : feed'[i] = feed[i]
  BY <1>1
<1> QED BY <1>1, <1>2, <1>3, <1>4, <1>5

\* A row that is closed stays closed.
LEMMA ClosedStays ==
  ASSUME IInv, Next
  PROVE  \A r \in Requests : Terminal(r) => Terminal(r)'
BY RowMove, VerdictNames DEF RowMoves, Terminal

\* The steps of agents and operators.
LEMMA CallFeedStep ==
  ASSUME FeedInv, CallNext, UNCHANGED session
  PROVE  SessionOK'
<1> USE DEF FeedInv, SessionOK, session
<1>1. FeedMoves BY FeedMove
<1>2. \A r \in Requests : Terminal(r) => Terminal(r)'
  BY ClosedStays DEF CallNext, Next
<1>3. feed \in Seq(Events) /\ feed' \in Seq(Events)
  BY IInvStep DEF IInv, TypeOK, CallNext, Next
<1>4. \A i \in 1..Len(feed) : feed[i].req \in Requests
  <2>1. \A i \in 1..Len(feed) : feed[i] \in Events BY <1>3
  <2>2. \A e \in Events : e.req \in Requests BY DEF Events
  <2> QED BY <2>1, <2>2
<1>5. CASE feed' = feed
  <2>1. cursor' \in 0..Len(feed') /\ ResolvedIsClosed'
    BY <1>2, <1>4, <1>5 DEF ResolvedIsClosed
  <2>2. \A r \in Requests : ~Announces(r)
    BY <1>3, <1>5 DEF Announces
  <2>3. ShownOrComing'
    BY <1>1, <1>5, <2>2 DEF FeedMoves, ShownOrComing, Coming
  <2> QED BY <2>1, <2>3
<1>6. CASE Sends
  <2> DEFINE n == Len(feed) + 1
  <2>1. /\ Len(feed') = n /\ \A i \in 1..Len(feed) : feed'[i] = feed[i]
        /\ feed'[n].event = "opened" \/ (feed'[n].req \in Requests /\ Terminal(feed'[n].req))
        /\ \A r \in Requests : Announces(r) => feed'[n].event = "opened" /\ feed'[n].req = r
    BY <1>3, <1>6, SendsFeed
  <2>2. Len(feed) \in Nat /\ 1..Len(feed') = (1..Len(feed)) \union {n}
    BY <1>3, <2>1
  <2>3. cursor' \in 0..Len(feed')
    BY <2>1, <2>2
  <2>4. ASSUME NEW i \in 1..Len(feed') PROVE feed'[i].event = "opened" \/ row'[feed'[i].req] \in Verdicts
    <3>1. CASE i \in 1..Len(feed)
      BY <1>2, <1>4, <2>1, <3>1 DEF ResolvedIsClosed, Terminal
    <3>2. CASE i = n
      BY <1>2, <2>1, <3>2 DEF Terminal
    <3> QED BY <2>2, <2>4, <3>1, <3>2
  <2>5. ASSUME NEW r \in Requests, Coming(r) PROVE Coming(r)'
    BY <2>1, <2>2, <2>5 DEF Coming
  <2>6. ASSUME NEW r \in Requests, Announces(r) PROVE Coming(r)'
    BY <2>1, <2>2, <2>6 DEF Coming
  <2>7. ShownOrComing'
    BY <1>1, <2>5, <2>6 DEF FeedMoves, ShownOrComing
  <2> QED BY <2>3, <2>4, <2>7 DEF ResolvedIsClosed, Terminal
<1> QED BY <1>1, <1>5, <1>6 DEF FeedMoves

\* An event that is read moves from the unread into the view.
LEMMA DeliverStep ==
  ASSUME FeedInv, Deliver
  PROVE  SessionOK'
<1> USE DEF FeedInv, SessionOK
<1>1. /\ link = "streaming" /\ link' = link /\ cursor < Len(feed) /\ cursor' = cursor + 1
      /\ view' = Shown(feed[cursor + 1]) /\ UNCHANGED vars
  BY DEF Deliver
<1>2. feed \in Seq(Events) /\ Len(feed) \in Nat
  BY DEF IInv, TypeOK
<1>3. ResolvedIsClosed' /\ cursor' \in 0..Len(feed')
  BY <1>1, <1>2 DEF ResolvedIsClosed, Terminal, vars
<1>4. ASSUME NEW r \in Requests, faults = 0, row[r] = "open", ~Opening(r)
      PROVE  r \in view' \/ Coming(r)'
  <2>1. ~Terminal(r)
    BY <1>4, VerdictNames DEF Terminal
  <2>2. feed[cursor + 1].event # "opened" => feed[cursor + 1].req # r
    BY <1>1, <1>2, <2>1 DEF ResolvedIsClosed
  <2>3. CASE r \in view
    BY <1>1, <2>2, <2>3 DEF Shown
  <2>4. CASE Coming(r)
    <3>1. PICK i \in (cursor + 1)..Len(feed) : feed[i].event = "opened" /\ feed[i].req = r
      BY <2>4 DEF Coming
    <3>2. CASE i = cursor + 1
      BY <1>1, <3>1, <3>2 DEF Shown
    <3>3. CASE i # cursor + 1
      BY <1>1, <1>2, <3>1, <3>3 DEF Coming, vars
    <3> QED BY <3>2, <3>3
  <2> QED BY <1>1, <1>4, <2>3, <2>4 DEF ShownOrComing
<1>5. ShownOrComing'
  BY <1>1, <1>4 DEF ShownOrComing, Opening, vars, agentVars
<1> QED BY <1>3, <1>5

LEMMA SessionStep ==
  ASSUME FeedInv, [FeedNext]_feedVars
  PROVE  SessionOK'
<1> USE CapacityAssumption DEF FeedInv, SessionOK, session, vars, agentVars
<1>1. feed \in Seq(Events) /\ Len(feed) \in Nat /\ faults \in Nat
  BY ReviewAssumption DEF IInv, TypeOK
<1>2. CASE CallNext /\ UNCHANGED session
  BY <1>2, CallFeedStep
<1>3. CASE Restart /\ EndSession
  BY <1>3 DEF Restart, EndSession, Closed, ResolvedIsClosed, ShownOrComing
<1>4. CASE Connect
  BY <1>1, <1>4 DEF Connect, ResolvedIsClosed, ShownOrComing, Terminal
<1>5. CASE Snapshot
  BY <1>1, <1>5 DEF Snapshot, Pending, ResolvedIsClosed, ShownOrComing, Terminal
<1>6. CASE SnapshotFails
  <2>1. faults' # 0
    BY <1>1, <1>6 DEF SnapshotFails, StoreFails
  <2> QED BY <1>6, <2>1 DEF SnapshotFails, ResolvedIsClosed, ShownOrComing, Terminal
<1>7. CASE Lag
  BY <1>1, <1>7 DEF Lag, AfterLag, Lagging, ResolvedIsClosed, ShownOrComing, Terminal
<1>8. CASE Deliver
  BY <1>8, DeliverStep
<1>9. CASE Disconnect
  BY <1>1, <1>9 DEF Disconnect, Closed, ResolvedIsClosed, ShownOrComing, Terminal
<1>10. CASE UNCHANGED feedVars
  BY <1>10 DEF feedVars, ResolvedIsClosed, ShownOrComing, Coming, Opening, Terminal
<1> QED
  BY ONLY [FeedNext]_feedVars, <1>2, <1>3, <1>4, <1>5, <1>6, <1>7, <1>8, <1>9, <1>10
  DEF FeedNext, SessionNext, CallNext

\* To the service, a session only reads: its steps are stutters, but for a store
\* error it runs into.
LEMMA ServiceStep ==
  ASSUME [FeedNext]_feedVars
  PROVE  \/ [Next]_vars
         \/ StoreFails /\ UNCHANGED <<row, slot, agentVars, operVars, feed, crashes>>
BY DEF FeedNext, SessionNext, Next, Connect, Snapshot, SnapshotFails, Lag, Deliver, Disconnect,
       Closed, feedVars

LEMMA FaultStep ==
  ASSUME IInv, StoreFails, UNCHANGED <<row, slot, agentVars, operVars, feed, crashes>>
  PROVE  IInv'
<1>1. faults' \in 0..MaxFaults
  BY ReviewAssumption DEF StoreFails, IInv, TypeOK
<1> QED
  BY <1>1 DEF IInv, TypeOK, SlotIsWaiter, CallsHaveRows, SentIsStored, GaveUpIsClosed,
    AnswersAgree, VerdictIsStored, RefusedIsClosed, AcknowledgedStands, Terminal,
    agentVars, operVars

\* The service's invariant holds with a session attached, and the session's own.
THEOREM FeedInductive == FeedSpec => []FeedInv
<1>1. FeedInit => FeedInv
  BY InitIInv DEF FeedInit, Init, FeedInv, SessionOK, ResolvedIsClosed, ShownOrComing
<1>2. FeedInv /\ [FeedNext]_feedVars => FeedInv'
  BY ServiceStep, FaultStep, IInvStep, SessionStep DEF FeedInv
<1> QED BY <1>1, <1>2, PTL DEF FeedSpec

\* NoMissedRequest for every queue and capacity: however snapshot, lag, events,
\* deadlines and restarts interleave, a client that has read the whole stream
\* shows every request that is open and announced.
THEOREM FeedCorrect == FeedSpec => []NoMissedRequest
<1>1. FeedInv => NoMissedRequest
  BY DEF FeedInv, SessionOK, ShownOrComing, NoMissedRequest, Drained, Announcing, Opening, Coming,
         IInv, TypeOK
<1> QED BY <1>1, FeedInductive, PTL

\* A session changes nothing the service promises.
THEOREM FeedKeepsPromise == FeedSpec => Implements
<1>1. FeedInit => Promise!Init
  BY DEF FeedInit, Init, Promise!Init, NoAnswer, Promise!NoAnswer
<1>2. FeedInv /\ [FeedNext]_feedVars => [Promise!Next]_(Promise!vars)
  BY ServiceStep, PromiseStep DEF FeedInv, vars, agentVars, operVars, Promise!vars
<1> QED BY <1>1, <1>2, FeedInductive, PTL DEF FeedSpec, Promise!Spec, Implements
=============================================================================
