-------------------------------- MODULE Turn --------------------------------
(***************************************************************************)
(* AssistantService::turn (ordo-assistant): the life of a turn, from the   *)
(* session it opens to the row it leaves, with the tool loop, the choice   *)
(* of a credential and its failover, sub-agents that consult another mode, *)
(* the cancellation registry and the taint of sessions.  Turns run side by *)
(* side, on one session or several; every step of a turn ends where the    *)
(* code awaits or lets go of a lock that another actor takes.              *)
(***************************************************************************)
EXTENDS Naturals, Sequences, FiniteSets

CONSTANTS
  Turns,       \* calls of turn(), sub-agents' included
  Sessions,
  Creds,       \* credential rows
  Local,       \* those of a model on this machine
  Lists,       \* the candidates a turn may find, in order: chosen, defaults, all others
  Tools,       \* a tool together with its arguments: a call's signature
  Sensitive,   \* is_sensitive_capability
  External,    \* tools of MCP servers the operator has not marked as trusted
  Web,         \* native tools that read the web: web.fetch_and_strain, web.search
  Consult,     \* assistant.consult_mode_agent
  Batches,     \* what one answer of a model may ask for
  Asks,        \* what the callers ask of a turn
  MaxIterations, MaxChildIterations, MaxGateRejections, MaxDuplicates, MaxDepth,
  MaxMoves,    \* bound on what happens from outside: stops, hang-ups, restarts...
  None

Ask == [cred : Creds \union {None}, diagnostic : BOOLEAN, tools : BOOLEAN,
        stream : BOOLEAN, review : BOOLEAN, web : BOOLEAN,
        depth : {0, 1}, lanes : SUBSET Tools]

ASSUME TurnAssumption ==
  /\ Local \subseteq Creds /\ Lists \subseteq Seq(Creds)
  /\ Sensitive \subseteq Tools /\ Consult \in Tools
  /\ External \subseteq Tools \ {Consult} /\ Web \subseteq Tools \ {Consult}
  /\ Batches \subseteq Seq(Tools) \ {<<>>} /\ Asks \subseteq Ask
  /\ \A a \in Asks : a.depth = 0 => a.lanes = Tools
  /\ None \notin Turns \union Sessions \union Creds \union Nat
  /\ {MaxIterations, MaxChildIterations, MaxGateRejections, MaxDuplicates, MaxMoves} \subseteq Nat
  /\ MaxDepth \in Nat \ {0}

VARIABLES
  count,    \* turn_count of a session, or None: it does not exist
  rows,     \* the rows of assistant_turns
  taint,    \* sessions with an entry in session_taint
  iso,      \* session_isolation: the depth and the lanes of a sub-agent's session
  flag,     \* the cancellation registry: the turn whose flag a session has
  flipped,  \* flags that were cancelled, named by the turn that created them
  status,   \* what an operator made of each credential
  pc, ask, sess,
  root,     \* the caller's turn a sub-agent works for
  depth,    \* request.subagent_depth
  holds,    \* the flag the turn looks at
  cred, rest,  \* the credential in use, and those to try after it
  loop,     \* the counters of the tool loop
  calls,    \* the batch under way
  answer,   \* what turn() returned
  moves,
  seen,     \* history: how untrusted content entered the turn's messages
  dirty,    \* history: the same, of the turns a session stores
  stopped,  \* history: turns an operator stopped while they ran
  murky,    \* history: sessions whose flag two turns share, or a dropped one left
  gone,     \* history: credentials that were missing at some time, or that a turn
            \* which named them could not read
  torn      \* history: turns whose insert failed half way

service == <<count, rows, taint, iso, flag, flipped>>
request == <<ask, sess, root, depth>>
locals == <<request, holds, cred, rest, loop, calls>>
history == <<seen, dirty, stopped, murky, gone, torn>>
vars == <<service, status, pc, locals, answer, moves, history>>

Operator == [depth |-> 0, lanes |-> Tools]    \* a session without an entry
NoWork == [iter |-> 0, tools |-> FALSE, final |-> FALSE, gates |-> 0, dups |-> 0, called |-> {}]

Init ==
  /\ count = [s \in Sessions |-> None] /\ rows = {}
  /\ taint = {} /\ iso = [s \in Sessions |-> Operator]
  /\ flag = [s \in Sessions |-> None] /\ flipped = {}
  /\ status = [c \in Creds |-> "enabled"]
  /\ pc = [t \in Turns |-> "idle"] /\ ask = [t \in Turns |-> None]
  /\ sess = [t \in Turns |-> None] /\ root = [t \in Turns |-> t]
  /\ depth = [t \in Turns |-> 0] /\ holds = [t \in Turns |-> None]
  /\ cred = [t \in Turns |-> None] /\ rest = [t \in Turns |-> <<>>]
  /\ loop = [t \in Turns |-> NoWork] /\ calls = [t \in Turns |-> <<>>]
  /\ answer = [t \in Turns |-> "none"]
  /\ moves = 0
  /\ seen = [t \in Turns |-> "no"] /\ dirty = [s \in Sessions |-> "no"]
  /\ stopped = {} /\ murky = {} /\ gone = {} /\ torn = {}

Running(t) == pc[t] \notin {"idle", "over", "done"}
FromOutside == moves < MaxMoves /\ moves' = moves + 1
Goto(t, place) == pc' = [pc EXCEPT ![t] = place]

AfterDraft(t) == IF ask[t].review THEN "review" ELSE "insert"

Hows == {"no", "direct", "consult", "untracked"}

\* run_turn returns Err.
Abort(t, why) == Goto(t, "leaving") /\ answer' = [answer EXCEPT ![t] = why]

\* How untrusted content came: by a way the code marks the session for ("direct"),
\* by the answer of an agent that had it so ("consult"), by a result the code takes
\* for its own ("untracked").  The first that applies, of two ways or of several.
Foremost(W) == IF "direct" \in W THEN "direct"
               ELSE IF "consult" \in W THEN "consult"
               ELSE IF "untracked" \in W THEN "untracked" ELSE "no"
Worse(a, b) == Foremost({a, b})

\* IsolationGuard::drop for the sessions of S.
Unguard(S) ==
  /\ iso' = [s \in Sessions |-> IF s \in S THEN Operator ELSE iso[s]]
  /\ taint' = taint \ S
  /\ dirty' = [s \in Sessions |-> IF s \in S THEN "no" ELSE dirty[s]]

\* What the turns of S had is gone, but for what they answered.
Clean(f, S, v) == [t \in Turns |-> IF t \in S THEN v ELSE f[t]]
EndRun(S) ==
  /\ holds' = Clean(holds, S, None) /\ cred' = Clean(cred, S, None)
  /\ rest' = Clean(rest, S, <<>>) /\ loop' = Clean(loop, S, NoWork)
  /\ calls' = Clean(calls, S, <<>>) /\ stopped' = stopped \ S
EndTurn(S) ==
  /\ ask' = Clean(ask, S, None) /\ sess' = Clean(sess, S, None)
  /\ root' = [t \in Turns |-> IF t \in S THEN t ELSE root[t]] /\ depth' = Clean(depth, S, 0)

Cancelled(t) == holds[t] \in flipped

\* The top of the loop, with the counters w: one more iteration, check_cancel.
Iterate(t, w) ==
  /\ loop' = [loop EXCEPT ![t] = [w EXCEPT !.iter = @ + 1]]
  /\ IF Cancelled(t) THEN Abort(t, "cancelled") ELSE Goto(t, "call") /\ UNCHANGED answer
-----------------------------------------------------------------------------
(* The beginning: the session, what a sub-agent inherits, the flag.  No     *)
(* lock is held from one of these to the next, but nothing another actor   *)
(* does in between would come out differently before or after them all.    *)

\* Calls are numbered as they come, sessions get fresh ids.
NextTurn == CHOOSE t \in Turns : pc[t] = "idle"
NewSession == CHOOSE s \in Sessions : count[s] = None

MarkNothing(s, a, inherited) ==   \* (mutant) boundary tags of the message are not looked for
  IF inherited THEN taint \union {s} ELSE taint
Mark(s, a, inherited) == IF inherited \/ a.web THEN taint \union {s} ELSE taint

\* turn() up to run_turn: the session, session_isolation, the taint of the parent
\* and of the message, CancellationRegistry::register.
Start(t, s, a, top, d, inherited, how) ==
  /\ pc[t] = "idle" /\ t = NextTurn /\ Goto(t, "history")
  /\ count[s] = None => s = NewSession
  /\ ask' = [ask EXCEPT ![t] = a] /\ sess' = [sess EXCEPT ![t] = s]
  /\ root' = [root EXCEPT ![t] = top] /\ depth' = [depth EXCEPT ![t] = d]
  /\ count' = [count EXCEPT ![s] = IF @ = None THEN 0 ELSE @]
  /\ iso' = [iso EXCEPT ![s] = IF d > 0 THEN [depth |-> d, lanes |-> a.lanes] ELSE @]
  /\ taint' = Mark(s, a, inherited)
  /\ seen' = [seen EXCEPT ![t] = IF a.web THEN "direct" ELSE how]
  /\ flag' = [flag EXCEPT ![s] = IF @ = None THEN t ELSE @]
  /\ holds' = [holds EXCEPT ![t] = flag'[s]]
  /\ murky' = IF \E u \in Turns : Running(u) /\ sess[u] = s THEN murky \union {s} ELSE murky

\* A caller's turn, on a session it names or on a new one; the agents of the
\* orchestrator (depth 1) always get a new one.
Open(t, s, a) ==
  /\ a.depth = 1 => count[s] = None
  /\ Start(t, s, a, t, a.depth, FALSE, "no")
  /\ UNCHANGED <<rows, flipped, status, cred, rest, loop, calls, answer, moves, dirty, stopped,
                 gone, torn>>

\* What the caller names comes first.
Candidates(a) == {q \in Lists : a.cred # None => q # <<>> /\ Head(q) = a.cred}

\* The user's message is logged, then the stored turns of the session are read.
ReadHistory(t) ==
  /\ pc[t] = "history" /\ Goto(t, "resolve")
  /\ seen' = [seen EXCEPT ![t] = Worse(@, dirty[sess[t]])]
  /\ \E q \in Candidates(ask[t]) : rest' = [rest EXCEPT ![t] = q]
  /\ UNCHANGED <<service, status, request, holds, cred, loop, calls, answer,
                 moves, dirty, stopped, murky, gone, torn>>
-----------------------------------------------------------------------------
(* The credential: one row is read per step.                               *)

Unfit(t, c) ==
  \/ ask[t].diagnostic /\ c \notin Local
  \/ status[c] = "paused"

Skip(t) ==
  LET c == Head(rest[t]) IN
  /\ pc[t] = "resolve" /\ rest[t] # <<>>
  /\ status[c] = "missing" \/ (Unfit(t, c) /\ c # ask[t].cred)
  /\ rest' = [rest EXCEPT ![t] = Tail(@)]
  /\ UNCHANGED <<service, status, pc, request, holds, cred, loop, calls, answer,
                 moves, history>>

\* A row that cannot be read counts as a missing one, also the one the caller named.
Unreadable(t) ==
  /\ pc[t] = "resolve" /\ rest[t] # <<>>
  /\ rest' = [rest EXCEPT ![t] = Tail(@)] /\ gone' = gone \union ({Head(rest[t])} \intersect {ask[t].cred})
  /\ UNCHANGED <<service, status, pc, request, holds, cred, loop, calls, answer,
                 moves, seen, dirty, stopped, murky, torn>>

\* The credential the caller named is paused, or not allowed in this mode.
Refuse(t) ==
  LET c == Head(rest[t]) IN
  /\ pc[t] = "resolve" /\ rest[t] # <<>>
  /\ status[c] # "missing" /\ Unfit(t, c) /\ c = ask[t].cred
  /\ Abort(t, "failed")
  /\ UNCHANGED <<service, status, locals, moves, history>>

KeepFailover(t, c) == Tail(rest[t])   \* (mutant) an explicit choice fails over, too
Failover(t, c) == IF ask[t].cred # None \/ c \in Local THEN <<>> ELSE Tail(rest[t])

Resolve(t) ==
  LET c == Head(rest[t]) IN
  /\ pc[t] = "resolve" /\ rest[t] # <<>> /\ status[c] # "missing" /\ ~Unfit(t, c)
  /\ cred' = [cred EXCEPT ![t] = c]
  /\ rest' = [rest EXCEPT ![t] = Failover(t, c)]
  /\ IF ask[t].stream /\ ~ask[t].tools
     THEN Goto(t, "stream") /\ UNCHANGED <<loop, answer>>
     ELSE Iterate(t, [NoWork EXCEPT !.tools = ask[t].tools])
  /\ UNCHANGED <<service, status, request, holds, calls, moves, history>>

NoCredential(t) ==
  /\ pc[t] = "resolve" /\ rest[t] = <<>> /\ Abort(t, "failed")
  /\ UNCHANGED <<service, status, locals, moves, history>>

\* run_streaming_turn: whatever goes wrong in it, the loop takes over.
Stream(t) ==
  /\ pc[t] = "stream"
  /\ \/ Goto(t, AfterDraft(t)) /\ UNCHANGED <<loop, answer>>
     \/ Iterate(t, NoWork)
  /\ UNCHANGED <<service, status, request, holds, cred, rest, calls, moves, history>>

\* list_turns and enforce_model_lifecycle leave the turn by `?`.
Breaks(t) ==
  /\ pc[t] \in {"history", "stream", "call"} /\ Abort(t, "failed")
  /\ UNCHANGED <<service, status, locals, moves, history>>
-----------------------------------------------------------------------------
(* The loop: ask the model, run what it asks for.                          *)

Budget(t) == IF depth[t] = 0 THEN MaxIterations ELSE MaxChildIterations

\* A failed call moves on to the next candidate.  One that is paused or missing by
\* now, or cannot be read, is dropped: the credential that failed is called again.
CallFails(t) ==
  /\ pc[t] = "call"
  /\ IF rest[t] = <<>>
     THEN Abort(t, "failed") /\ UNCHANGED <<cred, rest>>
     ELSE /\ rest' = [rest EXCEPT ![t] = Tail(@)]
          /\ \/ UNCHANGED cred
             \/ /\ status[Head(rest[t])] = "enabled"
                /\ cred' = [cred EXCEPT ![t] = Head(rest[t])]
          /\ UNCHANGED <<pc, answer>>
  /\ UNCHANGED <<service, status, request, holds, loop, calls, moves,
                 history>>

Answered(t) ==
  /\ pc[t] = "call" /\ Goto(t, AfterDraft(t))
  /\ UNCHANGED <<service, status, locals, answer, moves, history>>

MayFinalize(t) == ~loop[t].final /\ loop[t].iter <= Budget(t)

\* Reasoning without an answer: one more call, without tools.
Silent(t) ==
  /\ pc[t] = "call" /\ MayFinalize(t)
  /\ Iterate(t, [loop[t] EXCEPT !.final = TRUE, !.tools = FALSE])
  /\ UNCHANGED <<service, status, request, holds, cred, rest, calls, moves, history>>

Repeated(t, b, k) == b[k] \in loop[t].called \/ \E j \in 1 .. k - 1 : b[j] = b[k]
Gated(t, tool) == sess[t] \in taint /\ tool \in Sensitive
OffLane(t, tool) == tool # Consult /\ tool \notin iso[sess[t]].lanes
TooDeep(t, tool) == tool = Consult /\ iso[sess[t]].depth >= MaxDepth

\* What becomes of the k-th call of batch b.
Fate(t, b, k) ==
  IF Repeated(t, b, k) THEN "repeated"
  ELSE IF Gated(t, b[k]) THEN "gated"
  ELSE IF OffLane(t, b[k]) \/ TooDeep(t, b[k]) THEN "failed"
  ELSE "run"

NewCall(t, b, k) == [tool |-> b[k], gated |-> Gated(t, b[k]), fate |-> Fate(t, b, k),
                     how |-> "no", agent |-> None]

StartBatch(t, b) ==
  /\ pc[t] = "call" /\ loop[t].tools /\ loop[t].iter <= Budget(t)
  /\ IF Cancelled(t)
     THEN Abort(t, "cancelled") /\ UNCHANGED <<loop, calls>>
     ELSE /\ Goto(t, "batch")
          /\ calls' = [calls EXCEPT ![t] = [k \in 1..Len(b) |-> NewCall(t, b, k)]]
          /\ loop' = [loop EXCEPT ![t].called = @ \union {b[k] : k \in DOMAIN b}]
          /\ UNCHANGED answer
  /\ UNCHANGED <<service, status, request, holds, cred, rest, moves,
                 history>>

Settle(t, k, fate, how) ==
  calls' = [calls EXCEPT ![t][k].fate = fate, ![t][k].how = how]

\* What a result brings along.  That it is an MCP server's is told by the schema the
\* turn was given; a tool that is not in it (the mode hides it, the tools could not
\* be listed) is run all the same when the model names it.
Brings(tool, fate) ==
  IF fate = "failed" THEN {"no"}
  ELSE IF tool \in External THEN {"direct", "untracked"}
  ELSE IF tool \in Web THEN {"untracked"} ELSE {"no"}

\* A call over the bus is answered, or fails, or times out; a consult is refused
\* (the target's policy, an unknown mode) or its agent could not start.
Reply(t, k, fate, how) ==
  /\ pc[t] = "batch" /\ calls[t][k].fate = "run"
  /\ fate = "ok" => calls[t][k].tool # Consult
  /\ how \in Brings(calls[t][k].tool, fate)
  /\ Settle(t, k, fate, how)
  /\ UNCHANGED <<service, status, pc, request, holds, cred, rest, loop, answer,
                 moves, history>>

\* spawn_subagent_in_mode: what is asked of the agent that a call of turn t consults.
WideAsk(t, diagnostic) ==     \* (mutant) the agent is not narrowed
  [cred |-> None, diagnostic |-> diagnostic, tools |-> TRUE, stream |-> FALSE, review |-> FALSE,
   web |-> FALSE, depth |-> 1, lanes |-> Tools]
ChildAsk(t, diagnostic) ==
  [cred |-> None, diagnostic |-> diagnostic, tools |-> TRUE, stream |-> FALSE, review |-> FALSE,
   web |-> FALSE, depth |-> 1, lanes |-> iso[sess[t]].lanes]

Inherits(t) == sess[t] \in taint

Spawn(t, k, c, s) ==
  /\ pc[t] = "batch" /\ calls[t][k].tool = Consult /\ calls[t][k].fate = "run"
  /\ count[s] = None
  /\ \E diagnostic \in {a.diagnostic : a \in Asks} :
       Start(c, s, ChildAsk(t, diagnostic), root[t], iso[sess[t]].depth + 1, Inherits(t), seen[t])
  /\ calls' = [calls EXCEPT ![t][k].fate = "consulting", ![t][k].agent = c]
  /\ UNCHANGED <<rows, flipped, status, cred, rest, loop, answer, moves, dirty, stopped,
                 gone, torn>>

\* The agent's turn is over.  Its session shed its taint with its guard, so
\* that what is read here is taint that came later.
Collect(t, k) ==
  LET c == calls[t][k].agent IN
  /\ pc[t] = "batch" /\ calls[t][k].fate = "consulting"
  /\ pc[c] = "over" /\ Goto(c, "done") /\ EndTurn({c})
  /\ taint' = IF answer[c] = "ok" /\ sess[c] \in taint THEN taint \union {sess[t]} ELSE taint
  /\ Settle(t, k, IF answer[c] = "ok" THEN "ok" ELSE "failed",
            IF answer[c] # "ok" THEN "no" ELSE IF seen[c] = "direct" THEN "consult" ELSE seen[c])
  /\ seen' = [seen EXCEPT ![c] = "no"]
  /\ UNCHANGED <<count, rows, iso, flag, flipped, status, holds, cred, rest, loop, answer,
                 moves, dirty, stopped, murky, gone, torn>>

Fates(t) == {calls[t][k].fate : k \in DOMAIN calls[t]}
Number(t, fate) == Cardinality({k \in DOMAIN calls[t] : calls[t][k].fate = fate})

AllAnswered(t) == Fates(t) \subseteq {"ok", "failed"}  \* (mutant) skipped calls are waited for
AllSettled(t) == Fates(t) \intersect {"run", "consulting"} = {}

Content(t) == {calls[t][k].how : k \in DOMAIN calls[t]}

WasGated(t) == {k \in DOMAIN calls[t] : calls[t][k].gated}

\* join_all: the results enter the messages, and those known to be of MCP servers
\* taint the session; tools are off once the caps are reached.  A repeated call
\* counts against both of them where the session was tainted.
Join(t) ==
  LET gates == loop[t].gates + Cardinality(WasGated(t))
      dups == loop[t].dups + Number(t, "repeated")
  IN
  /\ pc[t] = "batch" /\ AllSettled(t)
  /\ Iterate(t, [loop[t] EXCEPT !.gates = gates, !.dups = dups,
                   !.tools = gates < MaxGateRejections /\ dups < MaxDuplicates])
  /\ taint' = IF "direct" \in Content(t) THEN taint \union {sess[t]} ELSE taint
  /\ seen' = [seen EXCEPT ![t] = Worse(@, Foremost(Content(t)))]
  /\ calls' = [calls EXCEPT ![t] = <<>>]
  /\ UNCHANGED <<count, rows, iso, flag, flipped, status, request, holds, cred,
                 rest, moves, dirty, stopped, murky, gone, torn>>
-----------------------------------------------------------------------------
(* The end: review, row, answer; the flag is released and the guard drops. *)

\* run_review_step: a decision, or the wait ends without one.
Review(t) ==
  /\ pc[t] = "review"
  /\ \/ Goto(t, "insert") /\ UNCHANGED answer
     \/ Abort(t, "failed")
  /\ UNCHANGED <<service, status, locals, moves, history>>

Row(t) == [turn |-> t, session |-> sess[t], index |-> count[sess[t]]]

NotBumped(s) == count     \* (mutant) turn_count is not updated
Bumped(s) == [count EXCEPT ![s] = @ + 1]

\* insert_turn, under the store's lock, and then the log of the answer.
Insert(t) ==
  /\ pc[t] = "insert" /\ Goto(t, "stored")
  /\ rows' = rows \union {Row(t)} /\ count' = Bumped(sess[t])
  /\ dirty' = [dirty EXCEPT ![sess[t]] = Worse(@, seen[t])]
  /\ UNCHANGED <<taint, iso, flag, flipped, status, locals, answer, moves, seen,
                 stopped, murky, gone, torn>>

\* A storage error: before the row, or after it and before turn_count.
InsertFails(t) ==
  /\ pc[t] = "insert" /\ Abort(t, "failed")
  /\ \/ UNCHANGED <<rows, torn, dirty>>
     \/ /\ rows' = rows \union {Row(t)} /\ torn' = torn \union {t}
        /\ dirty' = [dirty EXCEPT ![sess[t]] = Worse(@, seen[t])]
  /\ UNCHANGED <<count, taint, iso, flag, flipped, status, locals, moves, seen,
                 stopped, murky, gone>>

KeepFlag(t) == IF pc[t] = "stored" THEN None ELSE flag[sess[t]]  \* (mutant) released on success only
Released(t) == None

Leave(t) ==
  LET s == sess[t] IN
  /\ pc[t] \in {"stored", "leaving"} /\ Goto(t, IF root[t] = t THEN "done" ELSE "over")
  /\ answer' = [answer EXCEPT ![t] = IF pc[t] = "stored" THEN "ok" ELSE @]
  /\ flag' = [flag EXCEPT ![s] = Released(t)]
  /\ murky' = IF \E u \in Turns \ {t} : Running(u) /\ sess[u] = s THEN murky ELSE murky \ {s}
  /\ Unguard(IF depth[t] > 0 THEN {s} ELSE {}) /\ EndRun({t})
  /\ IF root[t] = t THEN EndTurn({t}) ELSE UNCHANGED request
  /\ seen' = [u \in Turns |-> IF (IF u = t THEN root[t] = t ELSE depth[t] > 0 /\ sess[u] = s)
                              THEN "no" ELSE seen[u]]
  /\ UNCHANGED <<count, rows, flipped, status, moves, gone, torn>>

(* The caller goes away, or the orchestrator's deadline passes: the future *)
(* is dropped where it awaits, with those of the agents it consults.  The  *)
(* guards drop; nothing releases the flags.                                *)
Awaits(t) == pc[t] \in {"history", "resolve", "stream", "call", "batch", "review", "stored"}

Dropped(t) == {u \in Turns : root[u] = t /\ (Running(u) \/ pc[u] = "over")}

HangUp(t) ==
  LET D == Dropped(t)
      S == {sess[u] : u \in {v \in D : Running(v) /\ depth[v] > 0}}
  IN
  /\ FromOutside /\ root[t] = t /\ Running(t)
  /\ \A u \in D : Awaits(u)
  /\ pc' = Clean(pc, D, "done") /\ answer' = Clean(answer, D, "lost")
  /\ Unguard(S) /\ EndRun(D) /\ EndTurn(D)
  /\ seen' = Clean(seen, {u \in Turns : u \in D \/ sess[u] \in S}, "no")
  /\ murky' = murky \union {sess[u] : u \in {v \in D : Running(v)}}
  /\ UNCHANGED <<count, rows, flag, flipped, status, gone, torn>>
-----------------------------------------------------------------------------
(* What operators do meanwhile.                                            *)

\* cancel_turn, by the stop button or by a session's WebSocket that closes.
Stop(s) ==
  /\ FromOutside
  /\ flag[s] # None /\ flipped' = flipped \union {flag[s]}
  /\ stopped' = stopped \union {t \in Turns : Running(t) /\ sess[t] = s}
  /\ UNCHANGED <<count, rows, taint, iso, flag, status, pc, locals, answer,
                 seen, dirty, murky, gone, torn>>

\* clear_session_taint: the operator takes the content for trusted.
Clear(s) ==
  /\ FromOutside
  /\ s \in taint /\ taint' = taint \ {s}
  /\ seen' = [t \in Turns |-> IF sess[t] = s THEN "no" ELSE seen[t]]
  /\ dirty' = [dirty EXCEPT ![s] = "no"]
  /\ UNCHANGED <<count, rows, iso, flag, flipped, status, pc, locals, answer,
                 stopped, murky, gone, torn>>

SetStatus(c, st) ==
  /\ FromOutside
  /\ status[c] # st /\ status' = [status EXCEPT ![c] = st]
  /\ gone' = IF st = "missing" THEN gone \union {c} ELSE gone
  /\ UNCHANGED <<service, pc, locals, answer, seen, dirty, stopped, murky, torn>>

\* The rows are on disk; turns, flags, isolation and taint are not.
Restart ==
  LET D == {t \in Turns : pc[t] # "idle"} IN
  /\ FromOutside
  /\ pc' = Clean(pc, D, "done")
  /\ answer' = Clean(answer, {t \in D : pc[t] # "done"}, "lost")
  /\ Unguard(Sessions) /\ EndRun(D) /\ EndTurn(D)
  /\ seen' = [t \in Turns |-> "no"]
  /\ flag' = [s \in Sessions |-> None] /\ flipped' = {} /\ murky' = {}
  /\ UNCHANGED <<count, rows, status, gone, torn>>

Proceed(t) ==
  \/ ReadHistory(t) \/ Skip(t) \/ Unreadable(t) \/ Refuse(t) \/ Resolve(t)
  \/ NoCredential(t) \/ Stream(t)
  \/ Breaks(t) \/ CallFails(t) \/ Answered(t) \/ Silent(t)
  \/ \E b \in Batches : StartBatch(t, b)
  \/ \E k \in DOMAIN calls[t] :
       \/ \E fate \in {"ok", "failed"}, how \in Hows : Reply(t, k, fate, how)
       \/ Collect(t, k)
       \/ \E c \in Turns, s \in Sessions : Spawn(t, k, c, s)
  \/ Join(t) \/ Review(t) \/ Insert(t) \/ InsertFails(t) \/ Leave(t)

Operate ==
  \/ \E s \in Sessions : Stop(s) \/ Clear(s)
  \/ \E c \in Creds, st \in {"enabled", "paused", "missing"} : SetStatus(c, st)

Next ==
  \/ \E t \in Turns : Proceed(t) \/ HangUp(t) \/ \E s \in Sessions, a \in Asks : Open(t, s, a)
  \/ Operate \/ Restart

Spec == Init /\ [][Next]_vars

\* A turn is a task that is run; the model, the tools and the review answer or
\* their deadlines pass.  Nothing makes a caller open a turn.
FairSpec == Spec /\ \A t \in Turns : WF_vars(Proceed(t))
-----------------------------------------------------------------------------
Places == {"idle", "history", "resolve", "stream", "call", "batch",
           "review", "insert", "stored", "leaving", "over", "done"}
MaxBudget == IF MaxIterations > MaxChildIterations THEN MaxIterations ELSE MaxChildIterations
Counters == [iter : 0 .. MaxBudget + 1, tools : BOOLEAN, final : BOOLEAN,
             gates : Nat, dups : Nat, called : SUBSET Tools]
CallFates == {"repeated", "gated", "failed", "run", "consulting", "ok"}
Call == [tool : Tools, gated : BOOLEAN, fate : CallFates, how : Hows, agent : Turns \union {None}]

\* The types of the service's maps and of the turns' locals.  A turn never asks
\* the model more often than its budget and once for the final answer, and no
\* agent is deeper than MAX_SUBAGENT_DEPTH.
TypeOK ==
  /\ count \in [Sessions -> Nat \union {None}]
  /\ rows \subseteq [turn : Turns, session : Sessions, index : Nat]
  /\ taint \subseteq Sessions
  /\ iso \in [Sessions -> [depth : Nat, lanes : SUBSET Tools]]
  /\ flag \in [Sessions -> Turns \union {None}] /\ flipped \subseteq Turns
  /\ status \in [Creds -> {"enabled", "paused", "missing"}]
  /\ pc \in [Turns -> Places]
  /\ ask \in [Turns -> Ask \union {None}]
  /\ sess \in [Turns -> Sessions \union {None}]
  /\ root \in [Turns -> Turns] /\ depth \in [Turns -> 0 .. MaxDepth]
  /\ holds \in [Turns -> Turns \union {None}]
  /\ cred \in [Turns -> Creds \union {None}] /\ rest \in [Turns -> Seq(Creds)]
  /\ loop \in [Turns -> Counters] /\ calls \in [Turns -> Seq(Call)]
  /\ answer \in [Turns -> {"none", "ok", "failed", "cancelled", "lost"}]
  /\ moves \in 0 .. MaxMoves
  /\ seen \in [Turns -> Hows] /\ dirty \in [Sessions -> Hows]
  /\ stopped \subseteq Turns /\ murky \subseteq Sessions
  /\ gone \subseteq Creds /\ torn \subseteq Turns
-----------------------------------------------------------------------------
(* Properties.                                                             *)

\* Once content the code knows to be untrusted is among a turn's messages (a web page
\* in the user's message, the result of an MCP tool of its schema, either of them in a
\* stored turn or in the turn that consults it), no sensitive tool of that turn is run
\* before its session is cleared: by an operator, a restart, or the guard of the agent
\* it was opened for.  Of what the code does not know, or loses sight of, nothing is said.
UntrustedIsGated ==
  [][\A t \in Turns : pc[t] = "call" /\ pc'[t] = "batch" /\ seen[t] = "direct" =>
       \A k \in DOMAIN calls'[t] :
         calls'[t][k].tool \in Sensitive => calls'[t][k].fate # "run"]_vars

\* A stop that was acknowledged reaches the turn that runs, and no other: where a
\* session has one turn at a time, its flag is the one the registry holds, and
\* is flipped only if somebody stopped this very turn.
StopIsExact ==
  \A t \in Turns : Running(t) /\ sess[t] \notin murky =>
    flag[sess[t]] = holds[t] /\ (Cancelled(t) <=> t \in stopped)

\* The credential a turn uses is the one it was asked to use, unless that one was
\* missing or could not be read, and one on this machine where the mode allows
\* nothing else: whatever fails, and whatever operators pause or delete meanwhile.
ServedAsAsked ==
  \A t \in Turns : cred[t] # None =>
    /\ ask[t].cred \in {None, cred[t]} \union gone
    /\ ask[t].diagnostic => cred[t] \in Local

\* The agents a narrowed sub-agent consults stay within its lanes: no tool is
\* under way that the first of them was not given.
LanesHold ==
  \A t \in Turns : \A k \in DOMAIN calls[t] :
    calls[t][k].fate \in {"run", "ok"} /\ calls[t][k].tool # Consult =>
      calls[t][k].tool \in ask[root[t]].lanes

\* A turn that answered left one row, one that did not left none, and the turns
\* of a session are numbered apart, unless an insert broke off half way.
OneRowPerAnswer ==
  /\ \A t \in Turns :
       /\ answer[t] = "ok" => Cardinality({r \in rows : r.turn = t}) = 1
       /\ answer[t] \in {"failed", "cancelled"} /\ t \notin torn => \A r \in rows : r.turn # t
  /\ \A r, q \in rows : r # q /\ r.session = q.session /\ r.index = q.index =>
       \E o \in rows : o.session = r.session /\ o.turn \in torn

\* Every turn that was started ends, whatever the model, the tools and the agents
\* it consults do, and whoever comes, stops it or hangs up.
TurnsEnd == <>[](\A t \in Turns : ~Running(t))

\* What an agent read marks the session of the turn that consulted it:
\* meta_tools.rs, "taint flows back so a clean parent can't launder it in".
Marked == \A t \in Turns : Running(t) /\ seen[t] = "consult" => sess[t] \in taint

=============================================================================
