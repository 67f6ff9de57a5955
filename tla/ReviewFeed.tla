----------------------------- MODULE ReviewFeed -----------------------------
(***************************************************************************)
(* Review composed with one /ws/review session (ordo-control): subscribe,  *)
(* send a snapshot of the queue, forward events, and snapshot again after  *)
(* the receiver lagged.  The client is outside the repository; it is taken *)
(* to keep the set of open requests that the stream describes.             *)
(***************************************************************************)
EXTENDS Review

CONSTANT Capacity   \* BROADCAST_CAPACITY, 256 in the code

ASSUME CapacityAssumption == Capacity \in Nat \ {0}

VARIABLES
  link,    \* where the session's loop stands
  cursor,  \* number of events of the feed behind its receiver
  view     \* the requests the client shows as open

session == <<link, cursor, view>>
feedVars == <<vars, session>>

Pending == {r \in Requests : row[r] = "open"}

FeedInit == Init /\ link = "down" /\ cursor = 0 /\ view = {}

Connect ==
  /\ link = "down"
  /\ link' = "snapshot" /\ cursor' = Len(feed) /\ view' = {}
  /\ UNCHANGED vars

Snapshot ==
  /\ link = "snapshot"
  /\ link' = "streaming" /\ view' = Pending
  /\ UNCHANGED <<vars, cursor>>

\* A store error only skips the snapshot: the stream goes on without it.
SnapshotFails ==
  /\ link = "snapshot" /\ StoreFails
  /\ link' = "streaming"
  /\ UNCHANGED <<row, slot, agentVars, operVars, feed, crashes, cursor, view>>

Lagging == Len(feed) - cursor > Capacity

NoResync == "streaming"   \* (mutant) a lag is reported, the queue is not sent again
AfterLag == "snapshot"

\* The receiver resumes at the oldest event the channel still holds.
Lag ==
  /\ link = "streaming" /\ Lagging
  /\ link' = AfterLag /\ cursor' = Len(feed) - Capacity
  /\ UNCHANGED <<vars, view>>

Shown(e) == IF e.event = "opened" THEN view \union {e.req} ELSE view \ {e.req}

Deliver ==
  /\ link = "streaming" /\ cursor < Len(feed) /\ ~Lagging
  /\ cursor' = cursor + 1
  /\ view' = Shown(feed[cursor + 1])
  /\ UNCHANGED <<vars, link>>

Closed == link' = "down" /\ cursor' = 0 /\ view' = {}

Disconnect ==
  /\ link # "down" /\ Closed
  /\ UNCHANGED vars

\* The session is a task of the runtime.
EndSession == Closed

SessionNext ==
  Connect \/ Snapshot \/ SnapshotFails \/ Lag \/ Deliver \/ Disconnect

FeedNext ==
  \/ (\E a \in Agents : AgentNext(a)) /\ UNCHANGED session
  \/ (\E o \in Operators : OperatorNext(o)) /\ UNCHANGED session
  \/ Restart /\ EndSession
  \/ SessionNext

FeedSpec == FeedInit /\ [][FeedNext]_feedVars

\* The session task runs while the client is connected.
FeedFairness ==
  /\ \A a \in Agents : WF_feedVars(Proceed(a) /\ UNCHANGED session)
  /\ WF_feedVars(Snapshot \/ Lag \/ Deliver)

FairFeedSpec == FeedSpec /\ FeedFairness
-----------------------------------------------------------------------------
Drained == link = "streaming" /\ cursor = Len(feed)

Announcing(r) == \/ \E a \in Agents : pc[a] \in {"opened", "announce"} /\ req[a] = r
                 \/ \E o \in Operators : opc[o] \in {"wake", "announce"} /\ oreq[o] = r

\* A client that has read the whole stream shows every request that is open and
\* announced, however the snapshot, a lag and the events interleaved: the
\* operator never overlooks a request.  (A snapshot the store refused is lost.)
NoMissedRequest ==
  Drained /\ faults = 0 =>
    \A r \in Requests : row[r] = "open" /\ ~Announcing(r) => r \in view

\* An open request reaches the screen of a client that stays connected.
OpenIsShown ==
  \A r \in Requests :
    (row[r] = "open" /\ link # "down") ~>
      (r \in view \/ row[r] # "open" \/ link = "down" \/ faults > 0 \/ crashes > 0)
=============================================================================
