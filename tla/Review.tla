------------------------------- MODULE Review -------------------------------
(***************************************************************************)
(* ReviewService (ordo-review): a SQLite queue of review requests, one     *)
(* oneshot waiter slot per request, and a broadcast channel.  Agents open  *)
(* requests and wait for them, operators decide them.  The store and the   *)
(* slot map have a mutex each, no call holds both, and the broadcast is    *)
(* sent under neither: one action is one critical section, and the steps   *)
(* of different calls interleave.                                          *)
(***************************************************************************)
EXTENDS Naturals, Sequences

CONSTANTS
  Requests,   \* request ids (Uuid::new_v4: never reused)
  Agents,     \* tasks that request and wait
  Operators,  \* threads that decide: REST handlers, the review provider
  Decisions,  \* what they decide: the code takes one path for all three
  ApiCalls,   \* TRUE: any legal call of the public API, from any task;
              \* FALSE: only the calls the callers in this repository make
  HangUps,    \* TRUE: the future of a waiting call may be dropped
  MaxFaults,  \* bound on store calls that fail
  MaxCrashes  \* bound on restarts of the runtime

ASSUME DecisionsAssumption == Decisions \subseteq {"approved", "edited_and_approved", "denied"}

ASSUME ReviewAssumption ==
  /\ ApiCalls \in BOOLEAN /\ HangUps \in BOOLEAN
  /\ MaxFaults \in Nat /\ MaxCrashes \in Nat

Verdicts == Decisions \union {"expired"}   \* ReviewState::is_terminal

NoOne == "no waiter"   \* the id has no entry in the waiter map
Gone  == "gone"        \* an entry whose receiver was dropped: a send fails
NoReq == "no request"
NoAnswer == [kind |-> "none"]

ASSUME NamesAssumption ==
  /\ NoOne \notin Agents /\ Gone \notin Agents /\ NoReq \notin Requests

VARIABLES
  row,     \* row[r]: state column of r in the store; "absent": no such row
  slot,    \* slot[r]: the agent whose sender the waiter map holds for r
  pc,      \* where the call of each agent stands
  req,     \* the request that call is about
  after,   \* where the agent goes once its Opened event is sent
  rx,      \* the agent's oneshot receiver
  opc, oreq, overd, \* the same for operators; overd: the state resolve returned
  answer,  \* what the last finished wait of each agent returned
  reply,   \* what the last finished decision of each operator returned
  feed,    \* every event sent on the broadcast channel, in order
  faults, crashes

agentVars == <<pc, req, after, rx, answer>>
operVars  == <<opc, oreq, overd, reply>>
vars == <<row, slot, agentVars, operVars, feed, faults, crashes>>

Terminal(r) == row[r] \in Verdicts
Event(kind, r, s) == [event |-> kind, req |-> r, state |-> s]
Told(kind, r, s) == [kind |-> kind, req |-> r, state |-> s]
Failed(r) == [kind |-> "failed", req |-> r]

Init ==
  /\ row = [r \in Requests |-> "absent"]
  /\ slot = [r \in Requests |-> NoOne]
  /\ pc = [a \in Agents |-> "idle"]
  /\ req = [a \in Agents |-> NoReq]
  /\ after = [a \in Agents |-> "idle"]
  /\ rx = [a \in Agents |-> "none"]
  /\ opc = [o \in Operators |-> "idle"]
  /\ oreq = [o \in Operators |-> NoReq]
  /\ overd = [o \in Operators |-> "none"]
  /\ answer = [a \in Agents |-> NoAnswer]
  /\ reply = [o \in Operators |-> NoAnswer]
  /\ feed = <<>>
  /\ faults = 0 /\ crashes = 0

StoreFails == faults < MaxFaults /\ faults' = faults + 1

\* store.resolve: checks the row and updates it under the store lock.
ResolvableAny(r) == row[r] # "absent"   \* (mutant) the state is not checked
Resolvable(r) == row[r] = "open"

NotUpdated(r, v) == row                 \* (mutant) the row is not written
Updated(r, v) == [row EXCEPT ![r] = v]

NotSent(e) == feed                      \* (mutant) the subscribers are not told
Sent(e) == Append(feed, e)

\* The call of an agent returns and its locals go out of scope.
Return(a) ==
  /\ pc' = [pc EXCEPT ![a] = "idle"]
  /\ req' = [req EXCEPT ![a] = NoReq]
  /\ rx' = [rx EXCEPT ![a] = "none"]

-----------------------------------------------------------------------------
(* request: insert under the store lock, then broadcast.  "after" tells    *)
(* request alone ("idle"), the assistant's request followed by wait_for    *)
(* ("holding") and request_and_wait ("register") apart.                    *)

Insert(a, r, next) ==
  /\ pc[a] = "idle" /\ row[r] = "absent"
  /\ row' = [row EXCEPT ![r] = "open"]
  /\ pc' = [pc EXCEPT ![a] = "opened"]
  /\ req' = [req EXCEPT ![a] = r]
  /\ after' = [after EXCEPT ![a] = next]
  /\ UNCHANGED <<slot, rx, answer, operVars, feed, faults, crashes>>

AnnounceOpened(a) ==
  /\ pc[a] = "opened"
  /\ feed' = Sent(Event("opened", req[a], "open"))
  /\ pc' = [pc EXCEPT ![a] = after[a]]
  /\ req' = [req EXCEPT ![a] = IF after[a] = "idle" THEN NoReq ELSE @]
  /\ after' = [after EXCEPT ![a] = "idle"]
  /\ UNCHANGED <<row, slot, rx, answer, operVars, faults, crashes>>

(* wait_for: the fast path reads the row and lets go of the store.         *)

MayWaitFor(a, r) == \/ pc[a] = "holding" /\ req[a] = r
                    \/ pc[a] \in {"idle", "holding"} /\ ApiCalls

FindOpen(a, r) ==
  /\ MayWaitFor(a, r) /\ row[r] = "open"
  /\ pc' = [pc EXCEPT ![a] = "register"]
  /\ req' = [req EXCEPT ![a] = r]
  /\ UNCHANGED <<row, slot, after, rx, answer, operVars, feed, faults, crashes>>

FindResolved(a, r) ==
  /\ MayWaitFor(a, r) /\ Terminal(r) /\ Return(a)
  /\ answer' = [answer EXCEPT ![a] = Told("ok", r, row[r])]
  /\ UNCHANGED <<row, slot, after, operVars, feed, faults, crashes>>

FindNothing(a, r) ==
  /\ MayWaitFor(a, r) /\ row[r] = "absent" /\ Return(a)
  /\ answer' = [answer EXCEPT ![a] = Failed(r)]
  /\ UNCHANGED <<row, slot, after, operVars, feed, faults, crashes>>

FindFails(a, r) ==
  /\ MayWaitFor(a, r) /\ StoreFails /\ Return(a)
  /\ answer' = [answer EXCEPT ![a] = Failed(r)]
  /\ UNCHANGED <<row, slot, after, operVars, feed, crashes>>

-----------------------------------------------------------------------------
(* The waiter slot.  Taking a live sender out of the map without sending   *)
(* drops it, and the receiver it belongs to completes with Err(canceled).  *)

Cancel(receivers, holder) ==
  IF holder \in Agents THEN [receivers EXCEPT ![holder] = "canceled"] ELSE receivers

SlotOfFirst(r, a) ==   \* (mutant) a second waiter leaves the first in the map
  [slot EXCEPT ![r] = IF @ = NoOne THEN a ELSE @]
SlotOfLast(r, a) == [slot EXCEPT ![r] = a]

Register(a) ==
  /\ pc[a] = "register"
  /\ rx' = [Cancel(rx, slot[req[a]]) EXCEPT ![a] = "pending"]
  /\ slot' = SlotOfLast(req[a], a)
  /\ pc' = [pc EXCEPT ![a] = "waiting"]
  /\ UNCHANGED <<row, req, after, answer, operVars, feed, faults, crashes>>

\* timeout(wait, rx).await: the receiver is polled before the deadline.
Woken(a) ==
  /\ pc[a] = "waiting" /\ rx[a] \in Verdicts /\ Return(a)
  /\ answer' = [answer EXCEPT ![a] = Told("ok", req[a], rx[a])]
  /\ UNCHANGED <<row, slot, after, operVars, feed, faults, crashes>>

Canceled(a) ==
  /\ pc[a] = "waiting" /\ rx[a] = "canceled"
  /\ pc' = [pc EXCEPT ![a] = "drop_slot"]
  /\ UNCHANGED <<row, slot, req, after, rx, answer, operVars, feed, faults, crashes>>

NoDeadline(a) == FALSE   \* (mutant) the receiver is awaited without a timeout
Deadline(a) == rx[a] = "pending"

\* The receiver is dropped when the wait elapses; its sender stays in the map.
TimeOut(a) ==
  /\ pc[a] = "waiting" /\ Deadline(a)
  /\ pc' = [pc EXCEPT ![a] = "drop_slot"]
  /\ rx' = [rx EXCEPT ![a] = "elapsed"]
  /\ slot' = [slot EXCEPT ![req[a]] = Gone]
  /\ UNCHANGED <<row, req, after, answer, operVars, feed, faults, crashes>>

\* The HTTP client of a turn disconnects and the handler's future is dropped.
HangUp(a) ==
  /\ HangUps /\ pc[a] = "waiting" /\ Return(a)
  /\ slot' = [slot EXCEPT ![req[a]] = IF @ = a THEN Gone ELSE @]
  /\ UNCHANGED <<row, after, answer, operVars, feed, faults, crashes>>

DropSlot(a) ==
  /\ pc[a] = "drop_slot"
  /\ rx' = Cancel(rx, slot[req[a]])
  /\ slot' = [slot EXCEPT ![req[a]] = NoOne]
  /\ pc' = [pc EXCEPT ![a] = "expire"]
  /\ UNCHANGED <<row, req, after, answer, operVars, feed, faults, crashes>>

-----------------------------------------------------------------------------
(* expire, called by a waiter that gave up.                                *)

Expire(a) ==
  /\ pc[a] = "expire" /\ Resolvable(req[a])
  /\ row' = Updated(req[a], "expired")
  /\ pc' = [pc EXCEPT ![a] = "announce"]
  /\ UNCHANGED <<slot, req, after, rx, answer, operVars, feed, faults, crashes>>

ExpireTooLate(a) ==
  /\ pc[a] = "expire" /\ ~Resolvable(req[a])
  /\ pc' = [pc EXCEPT ![a] = "reread"]
  /\ UNCHANGED <<row, slot, req, after, rx, answer, operVars, feed, faults, crashes>>

\* The error a waiter that gave up returns: a canceled one always says expired.
Refusal(a) ==
  Told("refused", req[a], IF rx[a] = "canceled" THEN "expired" ELSE row[req[a]])

AnnounceExpired(a) ==
  /\ pc[a] = "announce"
  /\ feed' = Sent(Event("resolved", req[a], "expired"))
  /\ answer' = [answer EXCEPT ![a] = Refusal(a)]
  /\ Return(a)
  /\ UNCHANGED <<row, slot, after, operVars, faults, crashes>>

Reread(a) ==
  /\ pc[a] = "reread"
  /\ answer' = [answer EXCEPT ![a] = Refusal(a)]
  /\ Return(a)
  /\ UNCHANGED <<row, slot, after, operVars, feed, faults, crashes>>

\* A store error leaves expire by `?`.
ExpireFails(a) ==
  /\ pc[a] \in {"expire", "reread"} /\ StoreFails /\ Return(a)
  /\ answer' = [answer EXCEPT ![a] = Failed(req[a])]
  /\ UNCHANGED <<row, slot, after, operVars, feed, crashes>>

\* The re-read that follows the UPDATE fails: the row is expired, without event.
ExpireTorn(a) ==
  /\ pc[a] = "expire" /\ Resolvable(req[a]) /\ StoreFails /\ Return(a)
  /\ row' = Updated(req[a], "expired")
  /\ answer' = [answer EXCEPT ![a] = Failed(req[a])]
  /\ UNCHANGED <<slot, after, operVars, feed, crashes>>

-----------------------------------------------------------------------------
(* decide: resolve under the store lock, then the slot, then the event.    *)

Resolve(o, r, v) ==
  /\ opc[o] = "idle" /\ Resolvable(r)
  /\ row' = Updated(r, v)
  /\ opc' = [opc EXCEPT ![o] = IF v = "expired" THEN "announce" ELSE "wake"]
  /\ oreq' = [oreq EXCEPT ![o] = r]
  /\ overd' = [overd EXCEPT ![o] = v]
  /\ UNCHANGED <<slot, agentVars, reply, feed, faults, crashes>>

Decide(o, r, v) == v \in Decisions /\ Resolve(o, r, v)

\* decide(Expire) is expire: it never looks at the waiter map.
DecideExpire(o, r) == ApiCalls /\ Resolve(o, r, "expired")

\* NotFound or AlreadyResolved.
Rejected(o, r) ==
  /\ opc[o] = "idle" /\ ~Resolvable(r)
  /\ reply' = [reply EXCEPT ![o] = [kind |-> "refused", req |-> r]]
  /\ UNCHANGED <<row, slot, agentVars, opc, oreq, overd, feed, faults, crashes>>

\* decide(Expire) of a request resolved already returns its row as a success.
ExpireResolved(o, r) ==
  /\ ApiCalls /\ opc[o] = "idle" /\ Terminal(r)
  /\ reply' = [reply EXCEPT ![o] = Told("ok", r, row[r])]
  /\ UNCHANGED <<row, slot, agentVars, opc, oreq, overd, feed, faults, crashes>>

DecideFails(o, r) ==
  /\ opc[o] = "idle" /\ StoreFails
  /\ reply' = [reply EXCEPT ![o] = [kind |-> "refused", req |-> r]]
  /\ UNCHANGED <<row, slot, agentVars, opc, oreq, overd, feed, crashes>>

\* The re-read that follows the UPDATE fails: the row is decided, but the
\* operator sees an error, no waiter is woken and no event is sent.
DecideTorn(o, r, v) ==
  /\ opc[o] = "idle" /\ Resolvable(r) /\ StoreFails
  /\ row' = Updated(r, v)
  /\ reply' = [reply EXCEPT ![o] = [kind |-> "refused", req |-> r]]
  /\ UNCHANGED <<slot, agentVars, opc, oreq, overd, feed, crashes>>

Wake(o) ==
  LET holder == slot[oreq[o]] IN
  /\ opc[o] = "wake"
  /\ rx' = IF holder \in Agents THEN [rx EXCEPT ![holder] = overd[o]] ELSE rx
  /\ slot' = [slot EXCEPT ![oreq[o]] = NoOne]
  /\ opc' = [opc EXCEPT ![o] = "announce"]
  /\ UNCHANGED <<row, pc, req, after, answer, oreq, overd, reply, feed, faults, crashes>>

AnnounceResolved(o) ==
  /\ opc[o] = "announce"
  /\ feed' = Sent(Event("resolved", oreq[o], overd[o]))
  /\ reply' = [reply EXCEPT ![o] = Told("ok", oreq[o], overd[o])]
  /\ opc' = [opc EXCEPT ![o] = "idle"]
  /\ oreq' = [oreq EXCEPT ![o] = NoReq]
  /\ overd' = [overd EXCEPT ![o] = "none"]
  /\ UNCHANGED <<row, slot, agentVars, faults, crashes>>

-----------------------------------------------------------------------------
(* Restart: the rows are on disk; waiters, calls and the channel are lost. *)
Restart ==
  /\ crashes < MaxCrashes /\ crashes' = crashes + 1
  /\ slot' = [r \in Requests |-> NoOne]
  /\ pc' = [a \in Agents |-> "idle"]
  /\ req' = [a \in Agents |-> NoReq]
  /\ after' = [a \in Agents |-> "idle"]
  /\ rx' = [a \in Agents |-> "none"]
  /\ opc' = [o \in Operators |-> "idle"]
  /\ oreq' = [o \in Operators |-> NoReq]
  /\ overd' = [o \in Operators |-> "none"]
  /\ feed' = <<>>
  /\ UNCHANGED <<row, answer, reply, faults>>

\* The steps a call takes by itself.
Proceed(a) ==
  \/ AnnounceOpened(a) \/ Register(a) \/ Woken(a) \/ Canceled(a) \/ TimeOut(a)
  \/ DropSlot(a) \/ Expire(a) \/ ExpireTooLate(a) \/ AnnounceExpired(a) \/ Reread(a)

WaitFor(a, r) == FindOpen(a, r) \/ FindResolved(a, r) \/ FindNothing(a, r)

AgentNext(a) ==
  \/ Proceed(a) \/ HangUp(a) \/ ExpireFails(a) \/ ExpireTorn(a)
  \/ \E r \in Requests :
       \/ \E next \in {"idle", "holding", "register"} : Insert(a, r, next)
       \/ WaitFor(a, r) \/ FindFails(a, r)

OperatorNext(o) ==
  \/ Wake(o) \/ AnnounceResolved(o)
  \/ \E r \in Requests :
       \/ \E v \in Decisions : Decide(o, r, v) \/ DecideTorn(o, r, v)
       \/ DecideExpire(o, r) \/ Rejected(o, r) \/ ExpireResolved(o, r) \/ DecideFails(o, r)

Next == \/ \E a \in Agents : AgentNext(a)
        \/ \E o \in Operators : OperatorNext(o)
        \/ Restart

Spec == Init /\ [][Next]_vars

\* A task that can run is run, and a deadline that is set passes; nothing makes
\* an agent open a request, an operator decide one, or the runtime restart.
Fairness == /\ \A a \in Agents :
                 /\ WF_vars(Proceed(a))
                 /\ WF_vars(pc[a] = "holding" /\ WaitFor(a, req[a]))
            /\ \A o \in Operators : WF_vars(Wake(o) \/ AnnounceResolved(o))

FairSpec == Spec /\ Fairness
-----------------------------------------------------------------------------
AgentStates == {"idle", "opened", "holding", "register", "waiting", "drop_slot",
                "expire", "announce", "reread"}
Answers == {NoAnswer}
  \union [kind : {"ok", "refused"}, req : Requests, state : Verdicts]
  \union [kind : {"failed"}, req : Requests]
Events == [event : {"opened", "resolved"}, req : Requests,
           state : Verdicts \union {"open"}]
Replies == {NoAnswer}
  \union [kind : {"ok"}, req : Requests, state : Verdicts]
  \union [kind : {"refused"}, req : Requests]

\* Types of the rows, the waiter map, the program counters and the answers.
TypeOK ==
  /\ row \in [Requests -> {"absent", "open"} \union Verdicts]
  /\ slot \in [Requests -> Agents \union {NoOne, Gone}]
  /\ pc \in [Agents -> AgentStates]
  /\ req \in [Agents -> Requests \union {NoReq}]
  /\ after \in [Agents -> {"idle", "holding", "register"}]
  /\ rx \in [Agents -> Verdicts \union {"none", "pending", "canceled", "elapsed"}]
  /\ opc \in [Operators -> {"idle", "wake", "announce"}]
  /\ oreq \in [Operators -> Requests \union {NoReq}]
  /\ overd \in [Operators -> Verdicts \union {"none"}]
  /\ answer \in [Agents -> Answers]
  /\ reply \in [Operators -> Replies]
  /\ feed \in Seq(Events)
  /\ faults \in 0..MaxFaults /\ crashes \in 0..MaxCrashes
-----------------------------------------------------------------------------
(* Properties.                                                             *)

\* An agent that gets a verdict gets the one in the store, even when several
\* operators, a deadline and a second waiter race for the same request.
VerdictIsStored ==
  \A a \in Agents : answer[a].kind = "ok" => row[answer[a].req] = answer[a].state

\* An acknowledged decision is the one that stands: of two operators who race,
\* or of an operator racing a deadline, at most one is told that it decided.
AcknowledgedStands ==
  \A o \in Operators : reply[o].kind = "ok" => row[reply[o].req] = reply[o].state

\* A caller is refused only when its request has left the queue: an error never
\* leaves a request an operator can still approve (except when the store fails).
RefusedIsClosed ==
  \A a \in Agents : answer[a].kind = "refused" => Terminal(answer[a].req)

\* What agents and operators are told of a request agrees, whoever won it.
AnswersAgree == VerdictIsStored /\ RefusedIsClosed /\ AcknowledgedStands

\* A waiter that nobody has resolved, canceled or timed out is the one its
\* request's slot holds, and a slot holds nobody else: no decision can pass by
\* a registered waiter or wake the waiter of another request.
SlotIsWaiter ==
  \A a \in Agents, r \in Requests :
    (slot[r] = a) <=> (pc[a] = "waiting" /\ rx[a] = "pending" /\ req[a] = r)

\* A row's verdict is never overwritten and a row never vanishes or reopens,
\* restarts included.
RowsAreFinal ==
  [][\A r \in Requests : row[r] # row'[r] =>
       \/ row[r] = "absent" /\ row'[r] = "open"
       \/ row[r] = "open" /\ row'[r] \in Verdicts]_vars

\* Every call ends: by a verdict, by its deadline, or by an error.
CallsEnd == \A a \in Agents : pc[a] # "idle" ~> pc[a] = "idle"

\* Where the store works and the runtime does not restart, a request somebody
\* waits on does not stay in the queue for ever, also when several waiters share
\* it, replace and cancel each other; only a wait whose own future is dropped may
\* leave it open.
Dropped(a, r) ==
  pc[a] = "idle" /\ (answer[a].kind \notin {"ok", "refused"} \/ answer[a].req # r)
WaitedOnIsSettled ==
  \A a \in Agents, r \in Requests :
    (pc[a] = "waiting" /\ req[a] = r) ~>
      (Terminal(r) \/ Dropped(a, r) \/ faults > 0 \/ crashes > 0)

\* Module Approval: what the service promises.
Promise == INSTANCE Approval WITH state <- row, told <- answer

Implements == Promise!Spec
=============================================================================
