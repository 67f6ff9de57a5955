------------------------------ MODULE TurnProofs ------------------------------
(***************************************************************************)
(* Proofs about the turns of Turn, for any number of turns, sessions,      *)
(* credentials and tools, any batches and any interleaving of the turns    *)
(* with their agents, operators, hang-ups and restarts.  At the end: that  *)
(* no turns wait for each other, and that a turn's work falls.             *)
(***************************************************************************)
EXTENDS Turn, TLAPS, WellFoundedInduction, SequenceTheorems, FiniteSetTheorems

InTurn(t) == pc[t] \notin {"idle", "done"}     \* also an agent's, until it is collected

\* The call that waits for agent c.
ConsultedBy(c, t, k) ==
  /\ pc[t] = "batch" /\ k \in DOMAIN calls[t]
  /\ calls[t][k].fate = "consulting" /\ calls[t][k].agent = c

\* Where a turn stands says which of its locals are set.
Placed ==
  /\ \A t \in Turns : InTurn(t) => ask[t] \in Ask /\ sess[t] \in Sessions /\ count[sess[t]] # None
  /\ \A t \in Turns : ~InTurn(t) => root[t] = t
  /\ \A t \in Turns : pc[t] # "batch" => calls[t] = <<>>
  /\ \A t \in Turns : pc[t] \in {"stream", "call", "batch"} => cred[t] # None
  /\ \A t \in Turns : pc[t] \in {"idle", "history", "resolve", "over", "done"} => cred[t] = None
  /\ \A t \in Turns : pc[t] = "over" => root[t] # t
  /\ \A t \in Turns : pc[t] = "batch" => loop[t].iter <= Budget(t)

\* An agent is consulted by one call of a turn above it, with the same root.
AgentsConsulted ==
  /\ \A t \in Turns : root[t] # t =>
       \E p \in Turns : \E k \in DOMAIN calls[p] :
         ConsultedBy(t, p, k) /\ root[p] = root[t] /\ depth[p] < depth[t]
  /\ \A t \in Turns : root[root[t]] = root[t]
  /\ \A t \in Turns : \A k \in DOMAIN calls[t] : calls[t][k].fate = "consulting" =>
       calls[t][k].tool = Consult /\ calls[t][k].agent \in Turns

\* The session of an agent is guarded with the agent's depth and lanes, and is its own.
Guarded ==
  /\ \A t \in Turns : InTurn(t) /\ depth[t] = 0 => root[t] = t /\ ask[t].lanes = Tools
  /\ \A t \in Turns : Running(t) /\ depth[t] > 0 =>
       iso[sess[t]].depth = depth[t] /\ iso[sess[t]].lanes \subseteq ask[root[t]].lanes
  /\ \A t, u \in Turns : Running(t) /\ Running(u) /\ depth[t] > 0 /\ depth[u] > 0
                         /\ sess[t] = sess[u] => t = u
  /\ \A s \in Sessions : iso[s].depth <= MaxDepth
  /\ \A t \in Turns : \A k \in DOMAIN calls[t] :
       calls[t][k].tool = Consult /\ calls[t][k].fate = "run" => iso[sess[t]].depth < MaxDepth

Shape == TypeOK /\ Placed
Family == AgentsConsulted /\ Guarded /\ LanesHold

\* What was asked for comes first, and nothing follows a credential that was
\* asked for or must stay on this machine.
Serving ==
  /\ \A c \in Creds : status[c] = "missing" => c \in gone
  /\ \A t \in Turns : pc[t] = "resolve" /\ ask[t].cred # None /\ ask[t].cred \notin gone =>
       rest[t] # <<>> /\ Head(rest[t]) = ask[t].cred
  /\ \A t \in Turns : cred[t] # None /\ (ask[t].cred # None \/ ask[t].diagnostic) => rest[t] = <<>>
  /\ ServedAsAsked

\* One turn at a time: the flag of a session is that turn's.
Flagged ==
  /\ \A s \in Sessions : flag[s] # None =>
       pc[flag[s]] # "idle" /\ (Running(flag[s]) => sess[flag[s]] = s)
  /\ \A t \in flipped : pc[t] # "idle"
  /\ \A t \in stopped : Running(t)
  /\ \A s \in Sessions \ murky :
       /\ \A t, u \in Turns : Running(t) /\ Running(u) /\ sess[t] = s /\ sess[u] = s => t = u
       /\ (\A t \in Turns : Running(t) => sess[t] # s) => flag[s] = None
  /\ \A t \in Turns : Running(t) /\ sess[t] \notin murky =>
       holds[t] = t /\ flag[sess[t]] = t /\ (t \in flipped <=> t \in stopped)

\* Untrusted content that the service knows of has marked the session.
Tainted ==
  /\ \A t \in Turns : Running(t) /\ seen[t] = "direct" => sess[t] \in taint
  /\ \A s \in Sessions : dirty[s] = "direct" => s \in taint

\* The rows of a turn by where it stands, and what numbers them.
RowsPlaced ==
  /\ \A t \in Turns : pc[t] \in {"idle", "history", "resolve", "stream", "call", "batch", "review",
                                 "insert"} => answer[t] = "none" /\ \A r \in rows : r.turn # t
  /\ \A t \in Turns : pc[t] = "stored" =>
       answer[t] = "none" /\ \E r \in rows : {q \in rows : q.turn = t} = {r}
  /\ \A t \in Turns : answer[t] = "ok" => \E r \in rows : {q \in rows : q.turn = t} = {r}
  /\ \A t \in Turns : pc[t] = "leaving" => answer[t] \in {"failed", "cancelled"}
  /\ \A t \in Turns : answer[t] \in {"failed", "cancelled"} /\ t \notin torn =>
       \A r \in rows : r.turn # t
  /\ \A r \in rows : count[r.session] # None
  /\ \A r \in rows : count[r.session] <= r.index =>
       \E o \in rows : o.session = r.session /\ o.turn \in torn
  /\ OneRowPerAnswer

IInv == Shape /\ Family /\ Serving /\ Flagged /\ Tainted /\ RowsPlaced
-----------------------------------------------------------------------------
(* Types.                                                                  *)

LEMMA InitTyped == Init => TypeOK
<1> SUFFICES ASSUME Init PROVE TypeOK OBVIOUS
<1>1. NoWork \in Counters
  <2>1. MaxBudget \in Nat BY TurnAssumption DEF MaxBudget
  <2> QED BY <2>1 DEF NoWork, Counters
<1>2. Operator \in [depth : Nat, lanes : SUBSET Tools] BY DEF Operator
<1> QED BY <1>1, <1>2, TurnAssumption DEF Init, TypeOK, Places, Hows

LEMMA MovesTyped == ASSUME TypeOK, [Next]_vars PROVE moves' \in 0 .. MaxMoves
<1>1. FromOutside \/ UNCHANGED moves
  <2>1. ASSUME NEW t \in Turns, Proceed(t) PROVE UNCHANGED moves
    <3>1. CASE ReadHistory(t) \/ Skip(t) \/ Unreadable(t) \/ Refuse(t)
      BY <3>1 DEF ReadHistory, Skip, Unreadable, Refuse
    <3>2. CASE Resolve(t) BY <3>2 DEF Resolve
    <3>3. CASE NoCredential(t) \/ Stream(t) \/ Breaks(t) BY <3>3 DEF NoCredential, Stream, Breaks
    <3>4. CASE CallFails(t) \/ Answered(t) BY <3>4 DEF CallFails, Answered
    <3>5. CASE Silent(t) BY <3>5 DEF Silent
    <3>6. CASE \E b \in Batches : StartBatch(t, b) BY <3>6 DEF StartBatch
    <3>7. CASE \E k \in DOMAIN calls[t], fate \in {"ok", "failed"}, how \in Hows :
                  Reply(t, k, fate, how)
      BY <3>7 DEF Reply
    <3>8. CASE \E k \in DOMAIN calls[t] : Collect(t, k) BY <3>8 DEF Collect
    <3>9. CASE \E k \in DOMAIN calls[t] : \E c \in Turns, s \in Sessions : Spawn(t, k, c, s)
      BY <3>9 DEF Spawn
    <3>10. CASE Join(t) BY <3>10 DEF Join
    <3>11. CASE Review(t) \/ Insert(t) \/ InsertFails(t) \/ Leave(t)
      BY <3>11 DEF Review, Insert, InsertFails, Leave
    <3> QED BY <2>1, <3>1, <3>2, <3>3, <3>4, <3>5, <3>6, <3>7, <3>8, <3>9, <3>10, <3>11 DEF Proceed
  <2>2. ASSUME NEW t \in Turns, NEW s \in Sessions, NEW a \in Asks, Open(t, s, a)
        PROVE  UNCHANGED moves
    BY <2>2 DEF Open
  <2>3. (\E t \in Turns : HangUp(t)) \/ Operate \/ Restart => FromOutside
    BY DEF HangUp, Operate, Stop, Clear, SetStatus, Restart
  <2>4. UNCHANGED vars => UNCHANGED moves BY DEF vars
  <2> QED BY <2>1, <2>2, <2>3, <2>4 DEF Next
<1> QED BY <1>1, TurnAssumption DEF FromOutside, TypeOK

LEMMA IterateTyped ==
  ASSUME TypeOK, NEW t \in Turns, NEW w \in Counters, w.iter <= MaxBudget, Iterate(t, w)
  PROVE  /\ loop' \in [Turns -> Counters] /\ pc' \in [Turns -> Places]
         /\ answer' \in [Turns -> {"none", "ok", "failed", "cancelled", "lost"}]
<1>0. MaxBudget \in Nat BY TurnAssumption DEF MaxBudget
<1>1. [w EXCEPT !.iter = @ + 1] \in Counters BY <1>0 DEF Counters
<1>2. loop' \in [Turns -> Counters] BY <1>1 DEF Iterate, TypeOK
<1>3. pc' \in [Turns -> Places] BY DEF Iterate, Abort, Goto, TypeOK, Places
<1>4. answer' \in [Turns -> {"none", "ok", "failed", "cancelled", "lost"}]
  BY DEF Iterate, Abort, TypeOK
<1> QED BY <1>2, <1>3, <1>4

LEMMA AbortTyped ==
  ASSUME TypeOK, NEW t \in Turns, NEW why \in {"failed", "cancelled"}, Abort(t, why)
  PROVE  /\ pc' \in [Turns -> Places]
         /\ answer' \in [Turns -> {"none", "ok", "failed", "cancelled", "lost"}]
<1>1. pc' \in [Turns -> Places] BY DEF Abort, Goto, TypeOK, Places
<1> QED BY <1>1 DEF Abort, TypeOK

LEMMA SettleTyped ==
  ASSUME TypeOK, NEW t \in Turns, NEW k \in DOMAIN calls[t], NEW fate \in CallFates,
         NEW how \in Hows, Settle(t, k, fate, how)
  PROVE  calls' \in [Turns -> Seq(Call)]
<1> DEFINE e == [[calls[t][k] EXCEPT !.fate = fate] EXCEPT !.how = how]
<1>1. calls[t] \in Seq(Call) BY DEF TypeOK
<1>2. k \in 1 .. Len(calls[t]) BY <1>1
<1>3. e \in Call
  <2>1. calls[t][k] \in Call BY <1>1, <1>2, ElementOfSeq
  <2>2. [calls[t][k] EXCEPT !.fate = fate] \in Call BY <2>1 DEF Call
  <2> QED BY <2>2 DEF Call
<1>4. [calls[t] EXCEPT ![k] = e] \in Seq(Call) BY <1>1, <1>2, <1>3, ExceptSeq
<1>5. calls' = [calls EXCEPT ![t] = [calls[t] EXCEPT ![k] = e]] BY <1>1, <1>2 DEF Settle, TypeOK
<1> QED BY <1>4, <1>5 DEF TypeOK

LEMMA LoopTyped ==
  ASSUME TypeOK, Placed, moves' \in 0 .. MaxMoves, NEW t \in Turns,
         \/ ReadHistory(t) \/ Skip(t) \/ Unreadable(t) \/ Refuse(t)
         \/ Resolve(t) \/ NoCredential(t) \/ Stream(t)
         \/ Breaks(t) \/ CallFails(t) \/ Answered(t) \/ Silent(t)
         \/ \E b \in Batches : StartBatch(t, b)
         \/ Join(t) \/ Review(t)
  PROVE  TypeOK'
<1> USE TurnAssumption DEF service, request, history, locals
<1>0. MaxBudget \in Nat /\ Budget(t) \in Nat /\ Budget(t) <= MaxBudget /\ NoWork \in Counters
  BY DEF MaxBudget, Budget, NoWork, Counters
<1>1. rest[t] \in Seq(Creds) /\ (rest[t] # <<>> => Head(rest[t]) \in Creds /\ Tail(rest[t]) \in Seq(Creds))
  BY DEF TypeOK
<1>2. CASE ReadHistory(t)
  <2>1. pc' \in [Turns -> Places] BY <1>2 DEF ReadHistory, TypeOK, Goto, Places
  <2>2. seen' \in [Turns -> Hows] BY <1>2 DEF ReadHistory, TypeOK, Worse, Foremost, Hows
  <2>3. rest' \in [Turns -> Seq(Creds)] BY <1>2 DEF ReadHistory, TypeOK, Candidates
  <2> QED BY <1>2, <2>1, <2>2, <2>3 DEF ReadHistory, TypeOK
<1>3. CASE Skip(t) \/ Unreadable(t)
  <2>1. UNCHANGED gone \/ gone' = gone \union ({Head(rest[t])} \intersect {ask[t].cred})
    BY <1>3 DEF Skip, Unreadable
  <2>2. rest[t] # <<>> /\ rest' = [rest EXCEPT ![t] = Tail(@)] BY <1>3 DEF Skip, Unreadable
  <2>3. gone' \subseteq Creds BY <1>1, <2>1, <2>2 DEF TypeOK
  <2>4. rest' \in [Turns -> Seq(Creds)] BY <1>1, <2>2 DEF TypeOK
  <2>5. UNCHANGED <<service, status, pc, request, holds, cred, loop, calls, answer, moves,
                    seen, dirty, stopped, murky, torn>>
    BY <1>3 DEF Skip, Unreadable
  <2> QED BY ONLY TypeOK, <2>3, <2>4, <2>5 DEF TypeOK, service, request
<1>4. CASE Refuse(t) \/ NoCredential(t) \/ Breaks(t) \/ Review(t)
  <2>1. UNCHANGED <<service, status, locals, moves, history>>
    BY <1>4 DEF Refuse, NoCredential, Breaks, Review
  <2>2. Abort(t, "failed") \/ (Goto(t, "insert") /\ UNCHANGED answer)
    <3>1. Refuse(t) \/ NoCredential(t) \/ Breaks(t) => Abort(t, "failed")
      BY Zenon DEF Refuse, NoCredential, Breaks
    <3>2. Review(t) => Abort(t, "failed") \/ (Goto(t, "insert") /\ UNCHANGED answer)
      BY Zenon DEF Review
    <3> QED BY <1>4, <3>1, <3>2
  <2>3. CASE Abort(t, "failed")
    <3>1. pc' \in [Turns -> Places] /\ answer' \in [Turns -> {"none", "ok", "failed", "cancelled", "lost"}]
      BY <2>3, AbortTyped
    <3> QED BY <2>1, <3>1 DEF TypeOK
  <2>4. CASE Goto(t, "insert") /\ UNCHANGED answer
    <3>1. pc' \in [Turns -> Places] BY <2>4 DEF TypeOK, Goto, Places
    <3> QED BY <2>1, <2>4, <3>1 DEF TypeOK
  <2> QED BY <2>2, <2>3, <2>4
<1>5. CASE Resolve(t)
  <2>1. rest' \in [Turns -> Seq(Creds)] /\ cred' \in [Turns -> Creds \union {None}]
    BY <1>1, <1>5 DEF Resolve, TypeOK, Failover
  <2>2. ask[t].tools \in BOOLEAN BY <1>5 DEF Resolve, Placed, InTurn, Ask
  <2>3. [NoWork EXCEPT !.tools = ask[t].tools] \in Counters BY <1>0, <2>2 DEF NoWork, Counters
  <2>4. [NoWork EXCEPT !.tools = ask[t].tools].iter <= MaxBudget BY <1>0 DEF NoWork
  <2>5. CASE Iterate(t, [NoWork EXCEPT !.tools = ask[t].tools])
    <3>1. /\ loop' \in [Turns -> Counters] /\ pc' \in [Turns -> Places]
          /\ answer' \in [Turns -> {"none", "ok", "failed", "cancelled", "lost"}]
      BY <2>3, <2>4, <2>5, IterateTyped
    <3> HIDE DEF service, request, history, locals
    <3> QED BY <1>5, <2>1, <3>1 DEF Resolve, TypeOK, service, request, history
  <2>6. CASE Goto(t, "stream") /\ UNCHANGED <<loop, answer>>
    BY <1>5, <2>1, <2>6 DEF Resolve, TypeOK, Goto, Places
  <2> QED BY <1>5, <2>5, <2>6 DEF Resolve
<1>6. CASE Stream(t)
  <2>1. CASE Iterate(t, NoWork)
    <3>1. NoWork.iter <= MaxBudget BY <1>0 DEF NoWork
    <3>2. /\ loop' \in [Turns -> Counters] /\ pc' \in [Turns -> Places]
          /\ answer' \in [Turns -> {"none", "ok", "failed", "cancelled", "lost"}]
      BY <1>0, <2>1, <3>1, IterateTyped
    <3> QED BY <1>6, <3>2 DEF Stream, TypeOK
  <2>2. CASE Goto(t, AfterDraft(t)) /\ UNCHANGED <<loop, answer>>
    BY <1>6, <2>2 DEF Stream, TypeOK, Goto, AfterDraft, Places
  <2> QED BY <1>6, <2>1, <2>2 DEF Stream
<1>7. CASE CallFails(t)
  <2>1. CASE rest[t] = <<>>
    <3>1. Abort(t, "failed") /\ UNCHANGED <<cred, rest>> BY <1>7, <2>1 DEF CallFails
    <3>2. pc' \in [Turns -> Places] /\ answer' \in [Turns -> {"none", "ok", "failed", "cancelled", "lost"}]
      BY <3>1, AbortTyped
    <3> QED BY <1>7, <3>1, <3>2 DEF CallFails, TypeOK
  <2>2. CASE rest[t] # <<>>
    <3>0. /\ rest' = [rest EXCEPT ![t] = Tail(rest[t])]
          /\ UNCHANGED cred \/ cred' = [cred EXCEPT ![t] = Head(rest[t])]
          /\ UNCHANGED <<pc, answer>>
      BY <1>7, <2>2, Zenon DEF CallFails
    <3>1. rest' \in [Turns -> Seq(Creds)] BY <1>1, <2>2, <3>0 DEF TypeOK
    <3>2. cred' \in [Turns -> Creds \union {None}]
      <4>1. CASE UNCHANGED cred BY <4>1 DEF TypeOK
      <4>2. CASE cred' = [cred EXCEPT ![t] = Head(rest[t])] BY <1>1, <2>2, <4>2 DEF TypeOK
      <4> QED BY <3>0, <4>1, <4>2
    <3>3. UNCHANGED <<pc, answer>> BY <3>0
    <3> QED BY <1>7, <3>1, <3>2, <3>3 DEF CallFails, TypeOK
  <2> QED BY <2>1, <2>2
<1>8. CASE Answered(t) BY <1>8 DEF Answered, TypeOK, Goto, AfterDraft, Places
<1>9. CASE Silent(t)
  <2> DEFINE w == [loop[t] EXCEPT !.final = TRUE, !.tools = FALSE]
  <2>1. loop[t] \in Counters BY DEF TypeOK
  <2>2. w \in Counters /\ w.iter <= MaxBudget
    <3>1. [loop[t] EXCEPT !.final = TRUE] \in Counters BY <2>1 DEF Counters
    <3>2. w \in Counters BY <3>1 DEF Counters
    <3>3. w.iter = loop[t].iter BY <2>1 DEF Counters
    <3>4. loop[t].iter \in Nat /\ loop[t].iter <= Budget(t)
      BY <1>0, <1>9, <2>1 DEF Silent, MayFinalize, Counters
    <3> QED BY <1>0, <3>2, <3>3, <3>4
  <2>3. Iterate(t, w) BY <1>9 DEF Silent
  <2>4. /\ loop' \in [Turns -> Counters] /\ pc' \in [Turns -> Places]
        /\ answer' \in [Turns -> {"none", "ok", "failed", "cancelled", "lost"}]
    <3> HIDE DEF w
    <3> QED BY <2>2, <2>3, IterateTyped
  <2> QED BY <1>9, <2>4 DEF Silent, TypeOK
<1>10. ASSUME NEW b \in Batches, StartBatch(t, b) PROVE TypeOK'
  <2>1. CASE Cancelled(t)
    <3>1. Abort(t, "cancelled") /\ UNCHANGED <<loop, calls>> BY <1>10, <2>1 DEF StartBatch
    <3>2. pc' \in [Turns -> Places] /\ answer' \in [Turns -> {"none", "ok", "failed", "cancelled", "lost"}]
      BY <3>1, AbortTyped
    <3> QED BY <1>10, <3>1, <3>2 DEF StartBatch, TypeOK
  <2>2. CASE ~Cancelled(t)
    <3>1. b \in Seq(Tools) OBVIOUS
    <3>2. \A k \in 1 .. Len(b) : b[k] \in Tools BY <3>1
    <3>3. \A k \in 1 .. Len(b) : NewCall(t, b, k) \in Call
      BY <3>2 DEF NewCall, Call, CallFates, Hows, Fate, Gated
    <3>4. [k \in 1 .. Len(b) |-> NewCall(t, b, k)] \in Seq(Call)
      BY <3>1, <3>3, IsASeq
    <3>5. calls' \in [Turns -> Seq(Call)] BY <1>10, <2>2, <3>4, ZenonT(30) DEF StartBatch, TypeOK
    <3>6. \A k \in DOMAIN b : b[k] \in Tools BY <3>1
    <3>7. loop' \in [Turns -> Counters]
      <4>1. loop[t] \in Counters BY DEF TypeOK
      <4>2. [loop[t] EXCEPT !.called = @ \union {b[k] : k \in DOMAIN b}] \in Counters
        BY <3>6, <4>1, SMTT(90) DEF Counters
      <4>3. loop' = [loop EXCEPT ![t] = [loop[t] EXCEPT !.called = @ \union {b[k] : k \in DOMAIN b}]]
        BY <1>10, <2>2, Zenon DEF StartBatch, TypeOK
      <4> QED BY <4>2, <4>3 DEF TypeOK
    <3>8. pc' \in [Turns -> Places] /\ UNCHANGED answer
      <4>1. Goto(t, "batch") /\ UNCHANGED answer BY <1>10, <2>2, Zenon DEF StartBatch
      <4> QED BY <4>1 DEF TypeOK, Goto, Places
    <3> QED BY <1>10, <3>5, <3>7, <3>8 DEF StartBatch, TypeOK
  <2> QED BY <2>1, <2>2
<1>11. CASE Join(t)
  <2> DEFINE gates == loop[t].gates + Cardinality(WasGated(t))
             dups == loop[t].dups + Number(t, "repeated")
             w == [loop[t] EXCEPT !.gates = gates, !.dups = dups,
                     !.tools = gates < MaxGateRejections /\ dups < MaxDuplicates]
  <2>1. loop[t] \in Counters /\ loop[t].iter <= MaxBudget
    BY <1>0, <1>11, SMTT(30) DEF TypeOK, Placed, Join, Counters
  <2>2. Cardinality(WasGated(t)) \in Nat /\ \A fate : Number(t, fate) \in Nat
    <3>1. IsFiniteSet(DOMAIN calls[t])
      <4>1. calls[t] \in Seq(Call) BY DEF TypeOK
      <4>2. DOMAIN calls[t] = 1 .. Len(calls[t]) /\ Len(calls[t]) \in Nat BY <4>1
      <4>3. 1 \in Int /\ Len(calls[t]) \in Int BY <4>2
      <4> QED BY <4>2, <4>3, FS_Interval
    <3> QED BY <3>1, FS_Subset, FS_CardinalityType DEF Number, WasGated
  <2>3. gates \in Nat /\ dups \in Nat
    <3>1. loop[t].gates \in Nat /\ loop[t].dups \in Nat BY <2>1 DEF Counters
    <3>2. Cardinality(WasGated(t)) \in Nat /\ Number(t, "repeated") \in Nat BY <2>2
    <3>3. \A m, n \in Nat : m + n \in Nat OBVIOUS
    <3> QED BY <3>1, <3>2, <3>3, Zenon
  <2>4. w \in Counters /\ w.iter <= MaxBudget
    <3> HIDE DEF gates, dups
    <3>1. (gates < MaxGateRejections /\ dups < MaxDuplicates) \in BOOLEAN OBVIOUS
    <3> QED BY <2>1, <2>3, <3>1 DEF Counters
  <2>5. Iterate(t, w) BY <1>11 DEF Join
  <2>6. /\ loop' \in [Turns -> Counters] /\ pc' \in [Turns -> Places]
        /\ answer' \in [Turns -> {"none", "ok", "failed", "cancelled", "lost"}]
    <3> HIDE DEF w
    <3> QED BY <2>4, <2>5, IterateTyped
  <2>7. taint' \subseteq Sessions
    BY <1>11 DEF Join, TypeOK, Placed, InTurn
  <2>8. seen' \in [Turns -> Hows] BY <1>11 DEF Join, TypeOK, Worse, Foremost, Hows
  <2>9. calls' \in [Turns -> Seq(Call)] BY <1>11 DEF Join, TypeOK
  <2> HIDE DEF w, gates, dups
  <2> QED BY <1>11, <2>6, <2>7, <2>8, <2>9 DEF Join, TypeOK
<1> QED BY <1>2, <1>3, <1>4, <1>5, <1>6, <1>7, <1>8, <1>9, <1>10, <1>11

LEMMA StartTyped ==
  ASSUME TypeOK, NEW t \in Turns, NEW s \in Sessions, NEW a \in Ask, NEW top \in Turns,
         NEW d \in 0 .. MaxDepth, NEW inherited \in BOOLEAN, NEW how \in Hows,
         Start(t, s, a, top, d, inherited, how)
  PROVE  /\ pc' \in [Turns -> Places] /\ ask' \in [Turns -> Ask \union {None}]
         /\ sess' \in [Turns -> Sessions \union {None}] /\ root' \in [Turns -> Turns]
         /\ depth' \in [Turns -> 0 .. MaxDepth] /\ count' \in [Sessions -> Nat \union {None}]
         /\ iso' \in [Sessions -> [depth : Nat, lanes : SUBSET Tools]] /\ taint' \subseteq Sessions
         /\ seen' \in [Turns -> Hows] /\ flag' \in [Sessions -> Turns \union {None}]
         /\ holds' \in [Turns -> Turns \union {None}] /\ murky' \subseteq Sessions
<1> USE TurnAssumption DEF Start, TypeOK
<1>1. pc' \in [Turns -> Places] BY DEF Goto, Places
<1>2. ask' \in [Turns -> Ask \union {None}] /\ sess' \in [Turns -> Sessions \union {None}]
      /\ root' \in [Turns -> Turns] /\ depth' \in [Turns -> 0 .. MaxDepth]
  OBVIOUS
<1>3. count' \in [Sessions -> Nat \union {None}] OBVIOUS
<1>4. iso' \in [Sessions -> [depth : Nat, lanes : SUBSET Tools]]
  <2>1. [depth |-> d, lanes |-> a.lanes] \in [depth : Nat, lanes : SUBSET Tools] BY DEF Ask
  <2> QED BY <2>1
<1>5. taint' \subseteq Sessions /\ murky' \subseteq Sessions BY DEF Mark
<1>6. seen' \in [Turns -> Hows] BY DEF Hows
<1>7. flag' \in [Sessions -> Turns \union {None}] OBVIOUS
<1>8. holds' \in [Turns -> Turns \union {None}] BY <1>7
<1> QED BY <1>1, <1>2, <1>3, <1>4, <1>5, <1>6, <1>7, <1>8

LEMMA OpenTyped ==
  ASSUME TypeOK, moves' \in 0 .. MaxMoves,
         NEW t \in Turns, NEW s \in Sessions, NEW a \in Asks, Open(t, s, a)
  PROVE  TypeOK'
<1>1. a \in Ask /\ a.depth \in 0 .. MaxDepth
  <2>1. a \in Ask BY TurnAssumption
  <2>2. a.depth \in {0, 1} BY <2>1 DEF Ask
  <2> QED BY <2>1, <2>2, TurnAssumption
<1>2. Start(t, s, a, t, a.depth, FALSE, "no") BY DEF Open
<1>3. "no" \in Hows /\ FALSE \in BOOLEAN BY DEF Hows
<1>4. /\ pc' \in [Turns -> Places] /\ ask' \in [Turns -> Ask \union {None}]
      /\ sess' \in [Turns -> Sessions \union {None}] /\ root' \in [Turns -> Turns]
      /\ depth' \in [Turns -> 0 .. MaxDepth] /\ count' \in [Sessions -> Nat \union {None}]
      /\ iso' \in [Sessions -> [depth : Nat, lanes : SUBSET Tools]] /\ taint' \subseteq Sessions
      /\ seen' \in [Turns -> Hows] /\ flag' \in [Sessions -> Turns \union {None}]
      /\ holds' \in [Turns -> Turns \union {None}] /\ murky' \subseteq Sessions
  BY <1>1, <1>2, <1>3, StartTyped
<1> QED BY <1>4 DEF Open, TypeOK

LEMMA ToolsTyped ==
  ASSUME TypeOK, Placed, AgentsConsulted, Guarded, moves' \in 0 .. MaxMoves,
         NEW t \in Turns, NEW k \in DOMAIN calls[t],
         \/ \E fate \in {"ok", "failed"}, how \in Hows : Reply(t, k, fate, how)
         \/ Collect(t, k)
         \/ \E c \in Turns, s \in Sessions : Spawn(t, k, c, s)
  PROVE  TypeOK'
<1> USE TurnAssumption DEF service, request, history, locals
<1>1. ASSUME NEW fate \in {"ok", "failed"}, NEW how \in Hows,
             Reply(t, k, fate, how)
      PROVE  TypeOK'
  <2>1. fate \in CallFates BY DEF CallFates
  <2>2. calls' \in [Turns -> Seq(Call)] BY <1>1, <2>1, SettleTyped DEF Reply
  <2> QED BY <1>1, <2>2 DEF Reply, TypeOK
<1>2. CASE Collect(t, k)
  <2> DEFINE c == calls[t][k].agent
             fate == IF answer[c] = "ok" THEN "ok" ELSE "failed"
             how == IF answer[c] # "ok" THEN "no"
                    ELSE IF seen[c] = "direct" THEN "consult" ELSE seen[c]
  <2>1. c \in Turns BY <1>2 DEF Collect, AgentsConsulted
  <2>2. fate \in CallFates /\ how \in Hows BY <2>1 DEF CallFates, Hows, TypeOK
  <2>3. Settle(t, k, fate, how) BY <1>2 DEF Collect
  <2>4. calls' \in [Turns -> Seq(Call)]
    <3> HIDE DEF fate, how
    <3> QED BY <2>2, <2>3, SettleTyped
  <2>5. pc' \in [Turns -> Places] BY <1>2, <2>1 DEF Collect, Goto, TypeOK, Places
  <2>6. ask' \in [Turns -> Ask \union {None}] /\ sess' \in [Turns -> Sessions \union {None}]
        /\ root' \in [Turns -> Turns] /\ depth' \in [Turns -> 0 .. MaxDepth]
    BY <1>2 DEF Collect, EndTurn, Clean, TypeOK
  <2>7. taint' \subseteq Sessions BY <1>2 DEF Collect, TypeOK, Placed, InTurn
  <2>8. seen' \in [Turns -> Hows] BY <1>2 DEF Collect, TypeOK, Hows
  <2> QED BY <1>2, <2>4, <2>5, <2>6, <2>7, <2>8 DEF Collect, TypeOK
<1>3. ASSUME NEW c \in Turns, NEW s \in Sessions, Spawn(t, k, c, s) PROVE TypeOK'
  <2>1. PICK diagnostic \in {a.diagnostic : a \in Asks} :
          Start(c, s, ChildAsk(t, diagnostic), root[t], iso[sess[t]].depth + 1, Inherits(t), seen[t])
    BY <1>3 DEF Spawn
  <2>2. sess[t] \in Sessions BY <1>3 DEF Spawn, Placed, InTurn
  <2>3. iso[sess[t]] \in [depth : Nat, lanes : SUBSET Tools] BY <2>2 DEF TypeOK
  <2>4. diagnostic \in BOOLEAN
    <3>1. PICK a \in Asks : diagnostic = a.diagnostic BY <2>1
    <3>2. a \in Ask OBVIOUS
    <3> QED BY <3>1, <3>2 DEF Ask
  <2>5. ChildAsk(t, diagnostic) \in Ask BY <2>3, <2>4 DEF ChildAsk, Ask
  <2>6. iso[sess[t]].depth + 1 \in 0 .. MaxDepth
    <3>1. calls[t][k].tool = Consult /\ calls[t][k].fate = "run" BY <1>3 DEF Spawn
    <3>2. iso[sess[t]].depth < MaxDepth BY <3>1 DEF Guarded
    <3> QED BY <2>3, <3>2
  <2>7. root[t] \in Turns /\ seen[t] \in Hows /\ Inherits(t) \in BOOLEAN BY DEF TypeOK, Inherits
  <2>8. /\ pc' \in [Turns -> Places] /\ ask' \in [Turns -> Ask \union {None}]
        /\ sess' \in [Turns -> Sessions \union {None}] /\ root' \in [Turns -> Turns]
        /\ depth' \in [Turns -> 0 .. MaxDepth] /\ count' \in [Sessions -> Nat \union {None}]
        /\ iso' \in [Sessions -> [depth : Nat, lanes : SUBSET Tools]] /\ taint' \subseteq Sessions
        /\ seen' \in [Turns -> Hows] /\ flag' \in [Sessions -> Turns \union {None}]
        /\ holds' \in [Turns -> Turns \union {None}] /\ murky' \subseteq Sessions
    BY <2>1, <2>5, <2>6, <2>7, StartTyped, SMTT(30)
  <2>9. calls' \in [Turns -> Seq(Call)]
    <3> DEFINE e == [[calls[t][k] EXCEPT !.fate = "consulting"] EXCEPT !.agent = c]
    <3>1. calls[t] \in Seq(Call) BY DEF TypeOK
    <3>2. k \in 1 .. Len(calls[t]) BY <3>1
    <3>3. e \in Call
      <4>1. calls[t][k] \in Call BY <3>1, <3>2, ElementOfSeq
      <4>2. [calls[t][k] EXCEPT !.fate = "consulting"] \in Call BY <4>1 DEF Call, CallFates
      <4> QED BY <4>2 DEF Call
    <3>4. [calls[t] EXCEPT ![k] = e] \in Seq(Call) BY <3>1, <3>2, <3>3, ExceptSeq
    <3>5. calls' = [calls EXCEPT ![t] = [calls[t] EXCEPT ![k] = e]]
      <4>1. calls' = [calls EXCEPT ![t][k].fate = "consulting", ![t][k].agent = c]
        BY <1>3, Zenon DEF Spawn
      <4> QED BY <3>1, <3>2, <4>1 DEF TypeOK
    <3> QED BY <3>4, <3>5 DEF TypeOK
  <2> QED BY <1>3, <2>8, <2>9 DEF Spawn, TypeOK
<1> QED BY <1>1, <1>2, <1>3

LEMMA EndTyped ==
  ASSUME TypeOK, moves' \in 0 .. MaxMoves,
         \/ \E t \in Turns : Placed /\ (Insert(t) \/ InsertFails(t) \/ Leave(t) \/ HangUp(t))
         \/ Operate \/ Restart
  PROVE  TypeOK'
<1> USE TurnAssumption DEF service, request, history, locals
<1>0. NoWork \in Counters
  <2>1. MaxBudget \in Nat BY DEF MaxBudget
  <2> QED BY <2>1 DEF NoWork, Counters
<1>1. ASSUME NEW t \in Turns, Placed, Insert(t) \/ InsertFails(t) PROVE TypeOK'
  <2>1. sess[t] \in Sessions /\ count[sess[t]] \in Nat
    BY <1>1 DEF Insert, InsertFails, Placed, InTurn, TypeOK
  <2>2. Row(t) \in [turn : Turns, session : Sessions, index : Nat] BY <2>1 DEF Row
  <2>3. rows' \subseteq [turn : Turns, session : Sessions, index : Nat]
    BY <1>1, <2>2, SMTT(30) DEF Insert, InsertFails, TypeOK
  <2>4. dirty' \in [Sessions -> Hows]
    <3>1. Worse(dirty[sess[t]], seen[t]) \in Hows BY DEF Worse, Foremost, Hows
    <3> QED BY <1>1, <3>1 DEF Insert, InsertFails, TypeOK
  <2>5. torn' \subseteq Turns BY <1>1 DEF Insert, InsertFails, TypeOK
  <2>6. CASE Insert(t)
    <3>1. count' \in [Sessions -> Nat \union {None}] BY <2>1, <2>6 DEF Insert, Bumped, TypeOK
    <3>2. pc' \in [Turns -> Places] BY <2>6 DEF Insert, Goto, TypeOK, Places
    <3> QED BY <2>3, <2>4, <2>5, <2>6, <3>1, <3>2 DEF Insert, TypeOK
  <2>7. CASE InsertFails(t)
    <3>1. Abort(t, "failed") BY <2>7, Zenon DEF InsertFails
    <3>2. pc' \in [Turns -> Places] /\ answer' \in [Turns -> {"none", "ok", "failed", "cancelled", "lost"}]
      BY <3>1, AbortTyped
    <3> QED BY <2>3, <2>4, <2>5, <2>7, <3>2 DEF InsertFails, TypeOK
  <2> QED BY <1>1, <2>6, <2>7
<1>2. ASSUME NEW D, EndTurn(D)
      PROVE  ask' \in [Turns -> Ask \union {None}] /\ sess' \in [Turns -> Sessions \union {None}]
             /\ root' \in [Turns -> Turns] /\ depth' \in [Turns -> 0 .. MaxDepth]
  BY <1>2 DEF EndTurn, Clean, TypeOK
<1>3. ASSUME NEW D, EndRun(D)
      PROVE  /\ holds' \in [Turns -> Turns \union {None}] /\ cred' \in [Turns -> Creds \union {None}]
             /\ rest' \in [Turns -> Seq(Creds)] /\ loop' \in [Turns -> Counters]
             /\ calls' \in [Turns -> Seq(Call)] /\ stopped' \subseteq Turns
  BY <1>0, <1>3 DEF EndRun, Clean, TypeOK
<1>4. ASSUME NEW S, Unguard(S)
      PROVE  /\ iso' \in [Sessions -> [depth : Nat, lanes : SUBSET Tools]]
             /\ taint' \subseteq Sessions /\ dirty' \in [Sessions -> Hows]
  BY <1>4 DEF Unguard, Operator, TypeOK, Hows
<1>5. ASSUME NEW t \in Turns, Placed, Leave(t) PROVE TypeOK'
  <2>1. pc' \in [Turns -> Places] BY <1>5 DEF Leave, Goto, TypeOK, Places
  <2>2. answer' \in [Turns -> {"none", "ok", "failed", "cancelled", "lost"}]
    BY <1>5 DEF Leave, TypeOK
  <2>3. flag' \in [Sessions -> Turns \union {None}] /\ murky' \subseteq Sessions
    BY <1>5 DEF Leave, Released, TypeOK
  <2>4. /\ iso' \in [Sessions -> [depth : Nat, lanes : SUBSET Tools]]
        /\ taint' \subseteq Sessions /\ dirty' \in [Sessions -> Hows]
    BY <1>4, <1>5, Zenon DEF Leave
  <2>5. /\ holds' \in [Turns -> Turns \union {None}] /\ cred' \in [Turns -> Creds \union {None}]
        /\ rest' \in [Turns -> Seq(Creds)] /\ loop' \in [Turns -> Counters]
        /\ calls' \in [Turns -> Seq(Call)] /\ stopped' \subseteq Turns
    BY <1>3, <1>5, Zenon DEF Leave
  <2>6. ask' \in [Turns -> Ask \union {None}] /\ sess' \in [Turns -> Sessions \union {None}]
        /\ root' \in [Turns -> Turns] /\ depth' \in [Turns -> 0 .. MaxDepth]
    <3>1. EndTurn({t}) \/ UNCHANGED request BY <1>5, Zenon DEF Leave
    <3> QED BY <1>2, <3>1 DEF TypeOK
  <2>7. seen' \in [Turns -> Hows] BY <1>5 DEF Leave, TypeOK, Hows
  <2>8. UNCHANGED <<count, rows, flipped, status, moves, gone, torn>> BY <1>5 DEF Leave
  <2> QED BY <2>1, <2>2, <2>3, <2>4, <2>5, <2>6, <2>7, <2>8 DEF TypeOK
<1>6. ASSUME NEW t \in Turns, Placed, HangUp(t) PROVE TypeOK'
  <2>1. pc' \in [Turns -> Places] /\ answer' \in [Turns -> {"none", "ok", "failed", "cancelled", "lost"}]
    BY <1>6 DEF HangUp, Clean, TypeOK, Places
  <2>2. /\ iso' \in [Sessions -> [depth : Nat, lanes : SUBSET Tools]]
        /\ taint' \subseteq Sessions /\ dirty' \in [Sessions -> Hows]
    BY <1>4, <1>6, Zenon DEF HangUp
  <2>3. /\ holds' \in [Turns -> Turns \union {None}] /\ cred' \in [Turns -> Creds \union {None}]
        /\ rest' \in [Turns -> Seq(Creds)] /\ loop' \in [Turns -> Counters]
        /\ calls' \in [Turns -> Seq(Call)] /\ stopped' \subseteq Turns
    BY <1>3, <1>6, Zenon DEF HangUp
  <2>4. ask' \in [Turns -> Ask \union {None}] /\ sess' \in [Turns -> Sessions \union {None}]
        /\ root' \in [Turns -> Turns] /\ depth' \in [Turns -> 0 .. MaxDepth]
    BY <1>2, <1>6, Zenon DEF HangUp
  <2>5. seen' \in [Turns -> Hows] BY <1>6 DEF HangUp, Clean, TypeOK, Hows
  <2>6. murky' \subseteq Sessions
    <3>1. \A v \in Turns : Running(v) => sess[v] \in Sessions
      BY <1>6 DEF Running, Placed, InTurn
    <3> QED BY <1>6, <3>1 DEF HangUp, Dropped, TypeOK
  <2>7. UNCHANGED <<count, rows, flag, flipped, status, gone, torn>> BY <1>6 DEF HangUp
  <2> QED BY <2>1, <2>2, <2>3, <2>4, <2>5, <2>6, <2>7 DEF TypeOK
<1>7. CASE Operate
  <2>1. ASSUME NEW s \in Sessions, Stop(s) PROVE TypeOK'
    <3>1. flipped' \subseteq Turns BY <2>1 DEF Stop, TypeOK
    <3>2. stopped' \subseteq Turns BY <2>1 DEF Stop, TypeOK
    <3> QED BY <2>1, <3>1, <3>2 DEF Stop, TypeOK
  <2>2. ASSUME NEW s \in Sessions, Clear(s) PROVE TypeOK'
    <3>1. taint' \subseteq Sessions /\ seen' \in [Turns -> Hows] /\ dirty' \in [Sessions -> Hows]
      BY <2>2 DEF Clear, TypeOK, Hows
    <3> QED BY <2>2, <3>1 DEF Clear, TypeOK
  <2>3. ASSUME NEW c \in Creds, NEW st \in {"enabled", "paused", "missing"}, SetStatus(c, st)
        PROVE  TypeOK'
    BY <2>3 DEF SetStatus, TypeOK
  <2> QED BY <1>7, <2>1, <2>2, <2>3 DEF Operate
<1>8. CASE Restart
  <2> DEFINE D == {t \in Turns : pc[t] # "idle"}
  <2>1. pc' \in [Turns -> Places] /\ answer' \in [Turns -> {"none", "ok", "failed", "cancelled", "lost"}]
    BY <1>8 DEF Restart, Clean, TypeOK, Places
  <2>2. /\ iso' \in [Sessions -> [depth : Nat, lanes : SUBSET Tools]]
        /\ taint' \subseteq Sessions /\ dirty' \in [Sessions -> Hows]
    BY <1>4, <1>8, Zenon DEF Restart
  <2>3. /\ holds' \in [Turns -> Turns \union {None}] /\ cred' \in [Turns -> Creds \union {None}]
        /\ rest' \in [Turns -> Seq(Creds)] /\ loop' \in [Turns -> Counters]
        /\ calls' \in [Turns -> Seq(Call)] /\ stopped' \subseteq Turns
    BY <1>3, <1>8, Zenon DEF Restart
  <2>4. ask' \in [Turns -> Ask \union {None}] /\ sess' \in [Turns -> Sessions \union {None}]
        /\ root' \in [Turns -> Turns] /\ depth' \in [Turns -> 0 .. MaxDepth]
    BY <1>2, <1>8, Zenon DEF Restart
  <2>5. seen' \in [Turns -> Hows] /\ flag' \in [Sessions -> Turns \union {None}]
        /\ flipped' \subseteq Turns /\ murky' \subseteq Sessions
    BY <1>8 DEF Restart, Hows
  <2>6. UNCHANGED <<count, rows, status, gone, torn>> BY <1>8 DEF Restart
  <2> QED BY <2>1, <2>2, <2>3, <2>4, <2>5, <2>6 DEF TypeOK
<1> QED BY <1>1, <1>5, <1>6, <1>7, <1>8
-----------------------------------------------------------------------------
(* Where a turn stands.                                                    *)

\* The steps of a turn that neither end it nor are about an agent.
Works(t) ==
  \/ ReadHistory(t) \/ Skip(t) \/ Unreadable(t) \/ Refuse(t)
  \/ Resolve(t) \/ NoCredential(t) \/ Stream(t)
  \/ Breaks(t) \/ CallFails(t) \/ Answered(t) \/ Silent(t)
  \/ \E b \in Batches : StartBatch(t, b)
  \/ \E k \in DOMAIN calls[t], fate \in {"ok", "failed"}, how \in Hows : Reply(t, k, fate, how)
  \/ Join(t) \/ Review(t) \/ Insert(t) \/ InsertFails(t)

\* A step of turn t that nothing but its own locals, taint and rows see.
Alone(t) ==
  /\ Running(t) /\ Running(t)'
  /\ \A u \in Turns \ {t} :
       /\ pc'[u] = pc[u] /\ cred'[u] = cred[u] /\ rest'[u] = rest[u] /\ loop'[u] = loop[u]
       /\ calls'[u] = calls[u] /\ answer'[u] = answer[u] /\ seen'[u] = seen[u]
  /\ UNCHANGED <<request, holds, iso, flag, flipped, status, stopped, murky>> /\ gone \subseteq gone'
  /\ \A s \in Sessions : count[s] # None => count'[s] # None
  /\ taint \subseteq taint'

LEMMA StepsAlone ==
  ASSUME TypeOK, Placed, NEW t \in Turns, Works(t)
  PROVE  Alone(t)
<1> USE TurnAssumption DEF service, request, history, locals, Running, Goto, Abort, AfterDraft
<1>0. /\ DOMAIN pc = Turns /\ DOMAIN cred = Turns /\ DOMAIN rest = Turns /\ DOMAIN loop = Turns
      /\ DOMAIN calls = Turns /\ DOMAIN answer = Turns /\ DOMAIN seen = Turns
  BY DEF TypeOK
<1>1. CASE ReadHistory(t) BY <1>0, <1>1 DEF ReadHistory, Alone
<1>2. CASE Skip(t) \/ Unreadable(t) BY <1>0, <1>2 DEF Skip, Unreadable, Alone
<1>3. CASE Refuse(t) \/ NoCredential(t) BY <1>0, <1>3 DEF Refuse, NoCredential, Alone
<1>4. CASE Breaks(t) \/ Answered(t) \/ Review(t)
  BY <1>0, <1>4 DEF Breaks, Answered, Review, Alone
<1>5. CASE Resolve(t)
  <2>1. \/ Goto(t, "stream") /\ UNCHANGED <<loop, answer>>
        \/ Iterate(t, [NoWork EXCEPT !.tools = ask[t].tools])
    BY <1>5, Zenon DEF Resolve
  <2>2. /\ pc[t] = "resolve" /\ cred' = [cred EXCEPT ![t] = Head(rest[t])]
        /\ rest' = [rest EXCEPT ![t] = Failover(t, Head(rest[t]))]
        /\ UNCHANGED <<service, status, request, holds, calls, moves, history>>
    BY <1>5, Zenon DEF Resolve
  <2> QED BY <1>0, <2>1, <2>2 DEF Iterate, Alone
<1>6. CASE Stream(t) BY <1>0, <1>6 DEF Stream, Iterate, Alone
<1>7. CASE CallFails(t)
  <2>1. CASE rest[t] = <<>> BY <1>0, <1>7, <2>1 DEF CallFails, Alone
  <2>2. CASE rest[t] # <<>> BY <1>0, <1>7, <2>2 DEF CallFails, Alone
  <2> QED BY <2>1, <2>2
<1>8. CASE Silent(t) BY <1>0, <1>8 DEF Silent, Iterate, Alone
<1>9. ASSUME NEW b \in Batches, StartBatch(t, b) PROVE Alone(t)
  <2>1. CASE Cancelled(t) BY <1>0, <1>9, <2>1 DEF StartBatch, Alone
  <2>2. CASE ~Cancelled(t) BY <1>0, <1>9, <2>2 DEF StartBatch, Alone
  <2> QED BY <2>1, <2>2
<1>10. ASSUME NEW k \in DOMAIN calls[t], NEW fate \in {"ok", "failed"}, NEW how \in Hows,
              Reply(t, k, fate, how)
       PROVE  Alone(t)
  BY <1>0, <1>10 DEF Reply, Settle, Alone
<1>11. CASE Join(t) BY <1>0, <1>11 DEF Join, Iterate, Alone
<1>12. CASE Insert(t)
  <2>1. count[sess[t]] \in Nat BY <1>12, ZenonT(30) DEF Insert, Placed, InTurn, TypeOK
  <2>2. \A s \in Sessions : count[s] # None => count'[s] # None
    <3>1. None \notin Nat OBVIOUS
    <3> QED BY <1>12, <2>1 DEF Insert, Bumped, TypeOK
  <2> QED BY <1>0, <1>12, <2>2 DEF Insert, Alone
<1>13. CASE InsertFails(t) BY <1>0, <1>13 DEF InsertFails, Alone
<1> QED
  BY <1>1, <1>2, <1>3, <1>4, <1>5, <1>6, <1>7, <1>8, <1>9, <1>10, <1>11, <1>12, <1>13 DEF Works

LEMMA PlacedAlone ==
  ASSUME TypeOK, Placed, NEW t \in Turns, Works(t)
  PROVE  Placed'
<1> USE TurnAssumption DEF service, request, history, locals, Goto, Abort, AfterDraft
<1>0. /\ DOMAIN pc = Turns /\ DOMAIN cred = Turns /\ DOMAIN loop = Turns
      /\ DOMAIN calls = Turns /\ DOMAIN ask = Turns /\ DOMAIN sess = Turns
  BY DEF TypeOK
<1>a. Alone(t) BY StepsAlone
<1> DEFINE Here == /\ pc'[t] # "batch" => calls'[t] = <<>>
                   /\ pc'[t] \in {"stream", "call", "batch"} => cred'[t] # None
                   /\ pc'[t] \in {"history", "resolve"} => cred'[t] = None
                   /\ pc'[t] = "batch" => loop'[t].iter <= Budget(t)
<1>b. Here
  <2>1. CASE ReadHistory(t) BY <1>0, <2>1 DEF ReadHistory, Placed
  <2>2. CASE Skip(t) \/ Unreadable(t) BY <1>0, <2>2 DEF Skip, Unreadable, Placed
  <2>3. CASE Refuse(t) \/ NoCredential(t) BY <1>0, <2>3 DEF Refuse, NoCredential, Placed
  <2>4. CASE Breaks(t) \/ Answered(t) \/ Review(t)
    BY <1>0, <2>4 DEF Breaks, Answered, Review, Placed
  <2>5. CASE Resolve(t)
    <3>1. \/ Goto(t, "stream") /\ UNCHANGED <<loop, answer>>
          \/ Iterate(t, [NoWork EXCEPT !.tools = ask[t].tools])
      BY <2>5, Zenon DEF Resolve
    <3>2. /\ pc[t] = "resolve" /\ rest[t] # <<>> /\ cred' = [cred EXCEPT ![t] = Head(rest[t])]
          /\ UNCHANGED calls
      BY <2>5, Zenon DEF Resolve
    <3>3. Head(rest[t]) \in Creds BY <3>2 DEF TypeOK
    <3>4. Head(rest[t]) # None BY <3>3
    <3>5. pc'[t] # "batch" BY <1>0, <3>1 DEF Iterate
    <3> QED BY <1>0, <3>1, <3>2, <3>4, <3>5 DEF Iterate, Placed
  <2>6. CASE Stream(t) BY <1>0, <2>6 DEF Stream, Iterate, Placed
  <2>7. CASE CallFails(t)
    <3>1. CASE rest[t] = <<>> BY <1>0, <2>7, <3>1 DEF CallFails, Placed
    <3>2. CASE rest[t] # <<>>
      <4>1. Head(rest[t]) \in Creds BY <3>2 DEF TypeOK
      <4>2. Head(rest[t]) # None BY <4>1
      <4> QED BY <1>0, <2>7, <3>2, <4>2 DEF CallFails, Placed
    <3> QED BY <3>1, <3>2
  <2>8. CASE Silent(t) BY <1>0, <2>8 DEF Silent, Iterate, Placed
  <2>9. ASSUME NEW b \in Batches, StartBatch(t, b) PROVE Here
    <3>1. CASE Cancelled(t) BY <1>0, <2>9, <3>1 DEF StartBatch, Placed
    <3>2. CASE ~Cancelled(t)
      <4>1. Goto(t, "batch") /\ UNCHANGED cred /\ pc[t] = "call" /\ loop[t].iter <= Budget(t)
            /\ loop' = [loop EXCEPT ![t].called = @ \union {b[k] : k \in DOMAIN b}]
        BY <2>9, <3>2, Zenon DEF StartBatch
      <4>2. loop[t] \in Counters BY DEF TypeOK
      <4>3. loop'[t].iter = loop[t].iter BY <1>0, <4>1, <4>2 DEF Counters
      <4> QED BY <1>0, <4>1, <4>3 DEF Placed
    <3> QED BY <3>1, <3>2
  <2>10. ASSUME NEW k \in DOMAIN calls[t], NEW fate \in {"ok", "failed"}, NEW how \in Hows,
                Reply(t, k, fate, how)
         PROVE  Here
    BY <1>0, <2>10 DEF Reply, Placed
  <2>11. CASE Join(t) BY <1>0, <2>11 DEF Join, Iterate, Placed
  <2>12. CASE Insert(t) \/ InsertFails(t) BY <1>0, <2>12 DEF Insert, InsertFails, Placed
  <2> QED
    BY <2>1, <2>2, <2>3, <2>4, <2>5, <2>6, <2>7, <2>8, <2>9, <2>10, <2>11, <2>12 DEF Works
<1> HIDE DEF Here
<1>c. \A u \in Turns \ {t} :
        /\ pc'[u] = pc[u] /\ cred'[u] = cred[u] /\ loop'[u] = loop[u] /\ calls'[u] = calls[u]
        /\ Budget(u)' = Budget(u)
  BY <1>a DEF Alone, Budget
<1>d. Budget(t)' = Budget(t) /\ UNCHANGED <<ask, sess, root>> BY <1>a DEF Alone, Budget
<1>e. pc[t] \notin {"idle", "over", "done"} /\ pc'[t] \notin {"idle", "over", "done"}
  BY <1>a DEF Alone, Running
<1>f. \A s \in Sessions : count[s] # None => count'[s] # None BY <1>a DEF Alone
<1> QED BY <1>b, <1>c, <1>d, <1>e, <1>f DEF Placed, InTurn, Here

LEMMA PlacedStart ==
  ASSUME TypeOK, Placed, NEW t \in Turns, NEW s \in Sessions, NEW a \in Ask, NEW top \in Turns,
         NEW d, NEW inherited, NEW how,
         Start(t, s, a, top, d, inherited, how), UNCHANGED <<cred, loop>>,
         \A u \in Turns : pc[u] # "batch" => calls'[u] = calls[u]
  PROVE  Placed'
<1>1. /\ pc[t] = "idle" /\ pc' = [pc EXCEPT ![t] = "history"] /\ ask' = [ask EXCEPT ![t] = a]
      /\ sess' = [sess EXCEPT ![t] = s] /\ root' = [root EXCEPT ![t] = top]
      /\ depth' = [depth EXCEPT ![t] = d]
      /\ count' = [count EXCEPT ![s] = IF @ = None THEN 0 ELSE @]
  BY DEF Start, Goto
<1>2. /\ DOMAIN pc = Turns /\ DOMAIN ask = Turns /\ DOMAIN sess = Turns /\ DOMAIN root = Turns
      /\ DOMAIN depth = Turns /\ DOMAIN count = Sessions
  BY DEF TypeOK
<1>3. count'[s] # None /\ \A z \in Sessions : count[z] # None => count'[z] # None
  <2>1. None \notin Nat BY TurnAssumption
  <2> QED BY <1>1, <1>2, <2>1
<1>4. \A u \in Turns \ {t} : pc'[u] = pc[u] /\ ask'[u] = ask[u] /\ sess'[u] = sess[u] /\ root'[u] = root[u]
                             /\ Budget(u)' = Budget(u)
  BY <1>1, <1>2 DEF Budget
<1>5. pc'[t] = "history" /\ ask'[t] = a /\ sess'[t] = s BY <1>1, <1>2
<1> QED BY <1>1, <1>3, <1>4, <1>5 DEF Placed, InTurn

LEMMA PlacedStep == ASSUME TypeOK, Placed, AgentsConsulted, [Next]_vars PROVE Placed'
<1> USE TurnAssumption DEF service, request, history, locals
<1>0. /\ DOMAIN pc = Turns /\ DOMAIN cred = Turns /\ DOMAIN loop = Turns
      /\ DOMAIN calls = Turns /\ DOMAIN ask = Turns /\ DOMAIN sess = Turns /\ DOMAIN root = Turns
  BY DEF TypeOK
<1>1. ASSUME NEW t \in Turns, Proceed(t) PROVE Placed'
  <2>1. ASSUME NEW k \in DOMAIN calls[t], Collect(t, k) PROVE Placed'
    <3> DEFINE c == calls[t][k].agent
    <3>1. c \in Turns BY <2>1 DEF Collect, AgentsConsulted
    <3>2. \A u \in Turns \ {c} : pc'[u] = pc[u] /\ ask'[u] = ask[u] /\ sess'[u] = sess[u]
                                 /\ root'[u] = root[u] /\ Budget(u)' = Budget(u)
      BY <1>0, <2>1 DEF Collect, EndTurn, Clean, Goto, Budget
    <3>3. pc[c] = "over" /\ pc'[c] = "done" /\ root'[c] = c /\ pc[t] = "batch"
          /\ UNCHANGED <<count, cred, loop>>
      BY <1>0, <2>1, <3>1 DEF Collect, EndTurn, Clean, Goto
    <3>4. \A u \in Turns \ {t} : calls'[u] = calls[u]
      BY <1>0, <2>1 DEF Collect, Settle
    <3> HIDE DEF c
    <3> QED BY <3>1, <3>2, <3>3, <3>4 DEF Placed, InTurn
  <2>2. ASSUME NEW k \in DOMAIN calls[t], NEW c \in Turns, NEW s \in Sessions, Spawn(t, k, c, s)
        PROVE  Placed'
    <3>1. PICK diagnostic \in {a.diagnostic : a \in Asks} :
            Start(c, s, ChildAsk(t, diagnostic), root[t], iso[sess[t]].depth + 1, Inherits(t), seen[t])
      BY <2>2 DEF Spawn
    <3>2. ChildAsk(t, diagnostic) \in Ask
      <4>1. sess[t] \in Sessions BY <2>2 DEF Spawn, Placed, InTurn
      <4>2. iso[sess[t]].lanes \subseteq Tools BY <4>1 DEF TypeOK
      <4>3. PICK a \in Asks : diagnostic = a.diagnostic BY <3>1
      <4>4. diagnostic \in BOOLEAN
        <5>1. a \in Ask OBVIOUS
        <5> QED BY <4>3, <5>1 DEF Ask
      <4> QED BY <4>2, <4>4 DEF ChildAsk, Ask
    <3>3. root[t] \in Turns /\ UNCHANGED <<cred, loop>> BY <2>2 DEF TypeOK, Spawn
    <3>4. \A u \in Turns : pc[u] # "batch" => calls'[u] = calls[u] BY <1>0, <2>2 DEF Spawn
    <3> QED BY <3>1, <3>2, <3>3, <3>4, PlacedStart
  <2>3. CASE Leave(t)
    <3>1. \A u \in Turns \ {t} : pc'[u] = pc[u] /\ ask'[u] = ask[u] /\ sess'[u] = sess[u]
            /\ root'[u] = root[u] /\ depth'[u] = depth[u] /\ cred'[u] = cred[u] /\ loop'[u] = loop[u]
            /\ calls'[u] = calls[u]
      BY <1>0, <2>3 DEF Leave, EndRun, EndTurn, Clean, Goto, TypeOK
    <3>2. pc[t] \in {"stored", "leaving"} /\ cred'[t] = None /\ calls'[t] = <<>> /\ UNCHANGED count
          /\ pc'[t] = IF root[t] = t THEN "done" ELSE "over"
      BY <1>0, <2>3 DEF Leave, EndRun, Clean, Goto
    <3>3. root[t] # t => ask'[t] = ask[t] /\ sess'[t] = sess[t] /\ root'[t] = root[t]
      BY <2>3 DEF Leave
    <3>4. root[t] = t => root'[t] = t BY <2>3 DEF Leave, EndTurn
    <3>5. \A u \in Turns \ {t} : Budget(u)' = Budget(u) BY <3>1 DEF Budget
    <3> QED BY <3>1, <3>2, <3>3, <3>4, <3>5 DEF Placed, InTurn
  <2>4. CASE Works(t)
    BY <2>4, PlacedAlone
  <2> QED BY <1>1, <2>1, <2>2, <2>3, <2>4 DEF Proceed, Works
<1>2. ASSUME NEW t \in Turns, NEW s \in Sessions, NEW a \in Asks, Open(t, s, a) PROVE Placed'
  <2>1. a \in Ask OBVIOUS
  <2>2. Start(t, s, a, t, a.depth, FALSE, "no") /\ UNCHANGED <<cred, loop, calls>> BY <1>2 DEF Open
  <2> QED BY <2>1, <2>2, PlacedStart
<1>3. ASSUME NEW t \in Turns, HangUp(t) PROVE Placed'
  <2> DEFINE D == Dropped(t)
  <2>1. \A u \in Turns \ D : pc'[u] = pc[u] /\ ask'[u] = ask[u] /\ sess'[u] = sess[u]
          /\ root'[u] = root[u] /\ depth'[u] = depth[u] /\ cred'[u] = cred[u] /\ loop'[u] = loop[u]
          /\ calls'[u] = calls[u]
    BY <1>0, <1>3 DEF HangUp, EndRun, EndTurn, Clean, TypeOK
  <2>2. \A u \in Turns : u \in D => pc'[u] = "done" /\ root'[u] = u /\ calls'[u] = <<>> /\ cred'[u] = None
    BY <1>0, <1>3 DEF HangUp, EndRun, EndTurn, Clean
  <2>3. UNCHANGED count BY <1>3 DEF HangUp
  <2> HIDE DEF D
  <2>4. \A u \in Turns \ D : Budget(u)' = Budget(u) BY <2>1 DEF Budget
  <2> QED BY <2>1, <2>2, <2>3, <2>4 DEF Placed, InTurn
<1>4. CASE Operate \/ UNCHANGED vars
  <2>1. UNCHANGED <<count, pc, ask, sess, root, depth, cred, loop, calls>>
    BY <1>4 DEF Operate, Stop, Clear, SetStatus, vars
  <2> QED BY <2>1 DEF Placed, InTurn, Budget
<1>5. CASE Restart
  <2>1. \A u \in Turns : pc'[u] \in {"idle", "done"} /\ UNCHANGED count
    BY <1>0, <1>5 DEF Restart, Clean
  <2>2. \A u \in Turns : root'[u] = u /\ calls'[u] = <<>> /\ cred'[u] = None
    BY <1>0, <1>5 DEF Restart, EndRun, EndTurn, Clean, Placed, InTurn
  <2> QED BY <2>1, <2>2 DEF Placed, InTurn
<1> QED BY <1>1, <1>2, <1>3, <1>4, <1>5 DEF Next
-----------------------------------------------------------------------------
(* Agents and the turns that consult them.                                 *)

\* A set of numbers has a least one.
LEMMA LeastNatural ==
  ASSUME NEW R \in SUBSET Nat, R # {}
  PROVE  \E n \in R : \A m \in R : ~(m < n)
<1> DEFINE Below == OpToRel(<, Nat)
<1>1. IsWellFoundedOn(Below, Nat) BY NatLessThanWellFounded
<1>2. \E n \in R : \A m \in R : ~(<<m, n>> \in Below)
  <2> HIDE DEF Below
  <2> QED BY <1>1, WFMin
<1>3. \A m, n \in Nat : m < n => <<m, n>> \in Below BY DEF OpToRel
<1> HIDE DEF Below
<1> QED BY <1>2, <1>3

\* While an agent lives, the turn at the top of its chain waits for one: of the
\* agents of a root, one at the least depth is consulted by the root itself.
LEMMA RootWaits ==
  ASSUME TypeOK, AgentsConsulted, NEW t \in Turns, root[t] # t
  PROVE  pc[root[t]] = "batch" /\ \E k \in DOMAIN calls[root[t]] : calls[root[t]][k].fate = "consulting"
<1> DEFINE r == root[t]
           Depths == {n \in Nat : \E u \in Turns : root[u] = r /\ u # r /\ depth[u] = n}
<1>1. \A u \in Turns : depth[u] \in Nat BY TurnAssumption DEF TypeOK
<1>2. depth[t] \in Depths BY <1>1
<1>3. PICK n \in Depths : \A m \in Depths : ~(m < n)
  <2>1. Depths \subseteq Nat /\ Depths # {} BY <1>2
  <2> HIDE DEF Depths
  <2> QED BY <2>1, LeastNatural
<1>4. PICK u \in Turns : root[u] = r /\ u # r /\ depth[u] = n BY <1>3
<1>5. PICK p \in Turns : \E k \in DOMAIN calls[p] :
        ConsultedBy(u, p, k) /\ root[p] = root[u] /\ depth[p] < depth[u]
  BY <1>4 DEF AgentsConsulted
<1>6. p = r
  <2> SUFFICES ASSUME p # r PROVE FALSE OBVIOUS
  <2>1. depth[p] \in Depths BY <1>1, <1>4, <1>5
  <2> QED BY <1>3, <1>4, <1>5, <2>1
<1> QED BY <1>5, <1>6 DEF ConsultedBy

LEMMA SettleAt ==
  ASSUME TypeOK, NEW t \in Turns, NEW k \in DOMAIN calls[t], NEW fate, NEW how, Settle(t, k, fate, how)
  PROVE  /\ DOMAIN calls'[t] = DOMAIN calls[t]
         /\ \A j \in DOMAIN calls[t] \ {k} : calls'[t][j] = calls[t][j]
         /\ calls'[t][k].tool = calls[t][k].tool /\ calls'[t][k].agent = calls[t][k].agent
         /\ calls'[t][k].fate = fate /\ calls'[t][k].how = how
         /\ \A u \in Turns \ {t} : calls'[u] = calls[u]
<1>1. calls \in [Turns -> Seq(Call)] BY DEF TypeOK
<1>2. calls[t] \in Seq(Call) BY <1>1
<1>3. calls[t][k] \in Call
  <2>1. k \in 1 .. Len(calls[t]) BY <1>2
  <2> QED BY <1>2, <2>1, ElementOfSeq
<1> QED BY <1>1, <1>2, <1>3 DEF Settle, Call

LEMMA SpawnAt ==
  ASSUME TypeOK, NEW t \in Turns, NEW k \in DOMAIN calls[t], NEW c \in Turns, NEW s, Spawn(t, k, c, s)
  PROVE  /\ DOMAIN calls'[t] = DOMAIN calls[t]
         /\ \A j \in DOMAIN calls[t] \ {k} : calls'[t][j] = calls[t][j]
         /\ calls'[t][k].tool = calls[t][k].tool /\ calls'[t][k].how = calls[t][k].how
         /\ calls'[t][k].fate = "consulting" /\ calls'[t][k].agent = c
         /\ \A u \in Turns \ {t} : calls'[u] = calls[u]
<1>1. calls \in [Turns -> Seq(Call)] BY DEF TypeOK
<1>2. calls[t] \in Seq(Call) BY <1>1
<1>3. calls[t][k] \in Call
  <2>1. k \in 1 .. Len(calls[t]) BY <1>2
  <2> QED BY <1>2, <2>1, ElementOfSeq
<1>4. calls' = [calls EXCEPT ![t][k].fate = "consulting", ![t][k].agent = c] BY Zenon DEF Spawn
<1> QED BY <1>1, <1>2, <1>3, <1>4 DEF Call

LEMMA BatchAt ==
  ASSUME TypeOK, NEW t \in Turns, NEW b \in Batches, StartBatch(t, b), ~Cancelled(t)
  PROVE  /\ pc[t] = "call" /\ pc'[t] = "batch" /\ DOMAIN calls'[t] = 1 .. Len(b)
         /\ \A k \in DOMAIN calls'[t] :
              calls'[t][k].tool = b[k] /\ calls'[t][k].fate = Fate(t, b, k) /\ calls'[t][k].how = "no"
<1>1. /\ pc[t] = "call" /\ Goto(t, "batch")
      /\ calls' = [calls EXCEPT ![t] = [k \in 1..Len(b) |-> NewCall(t, b, k)]]
  BY Zenon DEF StartBatch
<1>2. calls'[t] = [k \in 1..Len(b) |-> NewCall(t, b, k)]
  BY <1>1 DEF TypeOK
<1>3. pc'[t] = "batch" BY <1>1 DEF Goto, TypeOK
<1> QED BY <1>1, <1>2, <1>3 DEF NewCall

\* What a step of a turn by itself does to its calls.
LEMMA CallsAlone ==
  ASSUME TypeOK, Placed, NEW t \in Turns, Works(t)
  PROVE  \/ calls'[t] = <<>> /\ (pc[t] = "batch" => AllSettled(t) /\ Join(t))
         \/ \E k \in DOMAIN calls[t], fate \in {"ok", "failed"}, how \in Hows : Reply(t, k, fate, how)
         \/ \E b \in Batches : StartBatch(t, b) /\ ~Cancelled(t)
<1> USE DEF locals
<1>1. pc[t] # "batch" => calls[t] = <<>> BY DEF Placed
<1>2. CASE Join(t)
  <2>1. calls'[t] = <<>> BY <1>2 DEF Join, TypeOK
  <2> QED BY <1>2, <2>1, Zenon DEF Join
<1>3. CASE \E b \in Batches : StartBatch(t, b)
  <2>1. PICK b \in Batches : StartBatch(t, b) BY <1>3
  <2>2. CASE Cancelled(t)
    <3>1. pc[t] = "call" /\ UNCHANGED calls BY <2>1, <2>2 DEF StartBatch
    <3> QED BY <1>1, <3>1
  <2> QED BY <2>1, <2>2
<1>4. CASE \/ ReadHistory(t) \/ Skip(t) \/ Unreadable(t) \/ Refuse(t)
           \/ Resolve(t) \/ NoCredential(t) \/ Stream(t)
           \/ Breaks(t) \/ CallFails(t) \/ Answered(t) \/ Silent(t) \/ Review(t) \/ Insert(t)
           \/ InsertFails(t)
  <2>1. pc[t] # "batch" /\ UNCHANGED calls
    BY <1>4 DEF ReadHistory, Skip, Unreadable, Refuse, Resolve, NoCredential, Stream,
                Breaks, CallFails,
                Answered, Silent, Review, Insert, InsertFails
  <2> QED BY <1>1, <2>1
<1> QED BY <1>2, <1>3, <1>4 DEF Works

LEMMA AgentsStep ==
  ASSUME TypeOK, Placed, AgentsConsulted, Guarded, [Next]_vars PROVE AgentsConsulted'
<1> USE TurnAssumption DEF service, request, history, locals
<1>0. /\ DOMAIN pc = Turns /\ DOMAIN calls = Turns /\ DOMAIN root = Turns /\ DOMAIN depth = Turns
      /\ \A t \in Turns : root[t] \in Turns /\ depth[t] \in Nat
  BY DEF TypeOK
<1>r. \A t \in Turns : root[t] # t =>
        pc[root[t]] = "batch" /\ \E k \in DOMAIN calls[root[t]] : calls[root[t]][k].fate = "consulting"
  BY RootWaits
<1>1. ASSUME NEW t \in Turns, Works(t) PROVE AgentsConsulted'
  <2>1. /\ \A u \in Turns \ {t} : pc'[u] = pc[u] /\ calls'[u] = calls[u]
        /\ UNCHANGED <<root, depth>>
    BY <1>1, StepsAlone DEF Alone
  <2>2. /\ \A k \in DOMAIN calls[t] : pc[t] = "batch" /\ calls[t][k].fate = "consulting" =>
             pc'[t] = "batch" /\ k \in DOMAIN calls'[t] /\ calls'[t][k].fate = "consulting"
             /\ calls'[t][k].agent = calls[t][k].agent
        /\ \A k \in DOMAIN calls'[t] : calls'[t][k].fate = "consulting" =>
             k \in DOMAIN calls[t] /\ calls[t][k].fate = "consulting"
             /\ calls'[t][k].agent = calls[t][k].agent /\ calls'[t][k].tool = calls[t][k].tool
    <3>1. CASE calls'[t] = <<>> /\ (pc[t] = "batch" => AllSettled(t))
      BY <3>1 DEF AllSettled, Fates
    <3>2. ASSUME NEW k \in DOMAIN calls[t], NEW fate \in {"ok", "failed"}, NEW how \in Hows,
                 Reply(t, k, fate, how)
          PROVE  <2>2!1 /\ <2>2!2
      <4>1. Settle(t, k, fate, how) /\ calls[t][k].fate = "run" /\ UNCHANGED pc BY <3>2 DEF Reply
      <4>2. /\ DOMAIN calls'[t] = DOMAIN calls[t]
            /\ \A j \in DOMAIN calls[t] \ {k} : calls'[t][j] = calls[t][j]
            /\ calls'[t][k].fate = fate
        <5> QED BY <4>1, SettleAt
      <4> QED BY <4>1, <4>2
    <3>3. ASSUME NEW b \in Batches, StartBatch(t, b), ~Cancelled(t)
          PROVE  <2>2!1 /\ <2>2!2
      BY <3>3, BatchAt DEF Fate
    <3> QED BY <1>1, <3>1, <3>2, <3>3, CallsAlone
  <2> QED BY <2>1, <2>2 DEF AgentsConsulted, ConsultedBy
<1>2. ASSUME NEW t \in Turns, NEW k \in DOMAIN calls[t], Collect(t, k) PROVE AgentsConsulted'
  <2> DEFINE c == calls[t][k].agent
             fate == IF answer[c] = "ok" THEN "ok" ELSE "failed"
             how == IF answer[c] # "ok" THEN "no"
                    ELSE IF seen[c] = "direct" THEN "consult" ELSE seen[c]
  <2>1. c \in Turns /\ pc[c] = "over" /\ pc[t] = "batch" /\ pc' = [pc EXCEPT ![c] = "done"]
    BY <1>2 DEF Collect, AgentsConsulted, Goto
  <2>2. Settle(t, k, fate, how) /\ EndTurn({c}) BY <1>2 DEF Collect
  <2>3. /\ DOMAIN calls'[t] = DOMAIN calls[t]
        /\ \A j \in DOMAIN calls[t] \ {k} : calls'[t][j] = calls[t][j]
        /\ calls'[t][k].fate = fate
        /\ \A u \in Turns \ {t} : calls'[u] = calls[u]
    <3> HIDE DEF fate, how
    <3> QED BY <2>2, SettleAt
  <2>4. fate # "consulting" OBVIOUS
  <2>5. \A u \in Turns \ {c} : root'[u] = root[u] /\ depth'[u] = depth[u] /\ pc'[u] = pc[u]
    BY <1>0, <2>1, <2>2 DEF EndTurn, Clean
  <2>6. root'[c] = c BY <2>1, <2>2 DEF EndTurn
  <2>7. \A u \in Turns : pc[u] = "batch" => u # c BY <2>1
  <2>8. root[c] # c BY <2>1 DEF Placed
  <2>9. \A u \in Turns : root[u] # c BY <1>0, <2>8 DEF AgentsConsulted
  <2> HIDE DEF fate, how
  <2>10. \A u \in Turns \ {c} : root[u] # u =>
           \E p \in Turns : \E j \in DOMAIN calls[p] :
             ConsultedBy(u, p, j) /\ root[p] = root[u] /\ depth[p] < depth[u] /\ (p = t => j # k)
    BY DEF AgentsConsulted, ConsultedBy
  <2> HIDE DEF c
  <2>11. \A u \in Turns \ {c}, p \in Turns : \A j \in DOMAIN calls[p] :
           ConsultedBy(u, p, j) /\ (p = t => j # k) => j \in DOMAIN calls'[p] /\ ConsultedBy(u, p, j)'
    BY <2>1, <2>3, <2>5, <2>7 DEF ConsultedBy
  <2>12. \A u \in Turns : root'[u] # u =>
           \E p \in Turns : \E j \in DOMAIN calls'[p] :
             ConsultedBy(u, p, j)' /\ root'[p] = root'[u] /\ depth'[p] < depth'[u]
    <3>1. \A p \in Turns, u \in Turns : \A j : ConsultedBy(u, p, j) => p # c BY <2>7 DEF ConsultedBy
    <3> QED BY <2>5, <2>6, <2>10, <2>11, <3>1
  <2>13. \A u \in Turns : root'[root'[u]] = root'[u]
    BY <1>0, <2>5, <2>6, <2>9 DEF AgentsConsulted
  <2>14. \A u \in Turns : \A j \in DOMAIN calls'[u] : calls'[u][j].fate = "consulting" =>
           calls'[u][j].tool = Consult /\ calls'[u][j].agent \in Turns
    BY <2>3, <2>4 DEF AgentsConsulted
  <2> QED BY <2>12, <2>13, <2>14 DEF AgentsConsulted
<1>3. ASSUME NEW t \in Turns, NEW k \in DOMAIN calls[t], NEW c \in Turns, NEW s \in Sessions,
             Spawn(t, k, c, s)
      PROVE  AgentsConsulted'
  <2>1. PICK diagnostic \in {a.diagnostic : a \in Asks} :
          Start(c, s, ChildAsk(t, diagnostic), root[t], iso[sess[t]].depth + 1, Inherits(t), seen[t])
    BY <1>3 DEF Spawn
  <2>2. /\ pc[c] = "idle" /\ pc' = [pc EXCEPT ![c] = "history"] /\ root' = [root EXCEPT ![c] = root[t]]
        /\ depth' = [depth EXCEPT ![c] = iso[sess[t]].depth + 1]
    BY <2>1 DEF Start, Goto
  <2>3. /\ DOMAIN calls'[t] = DOMAIN calls[t]
        /\ \A j \in DOMAIN calls[t] \ {k} : calls'[t][j] = calls[t][j]
        /\ calls'[t][k].tool = calls[t][k].tool
        /\ calls'[t][k].fate = "consulting" /\ calls'[t][k].agent = c
        /\ \A u \in Turns \ {t} : calls'[u] = calls[u]
    BY <1>3, SpawnAt
  <2>4. pc[t] = "batch" /\ calls[t][k].tool = Consult /\ calls[t][k].fate = "run" BY <1>3 DEF Spawn
  <2>5. c # t /\ pc'[t] = "batch" /\ root'[t] = root[t] /\ root'[c] = root[t]
    BY <1>0, <2>2, <2>4
  <2>6. \A u \in Turns : root[u] # c \/ u = c
    <3> SUFFICES ASSUME NEW u \in Turns, root[u] = c, u # c PROVE FALSE OBVIOUS
    <3>1. pc[c] = "batch" BY <1>r
    <3> QED BY <2>2, <3>1
  <2>7. \A u \in Turns \ {c} : root'[u] = root[u] /\ depth'[u] = depth[u] /\ pc'[u] = pc[u]
    BY <1>0, <2>2
  <2>8. depth'[t] < depth'[c]
    <3>1. depth[t] <= iso[sess[t]].depth /\ iso[sess[t]].depth \in Nat
      <4>1. sess[t] \in Sessions BY <2>4 DEF Placed, InTurn
      <4>2. iso[sess[t]].depth \in Nat BY <4>1 DEF TypeOK
      <4> QED BY <1>0, <2>4, <4>2 DEF Guarded, Running
    <3> QED BY <1>0, <2>2, <2>5, <2>7, <3>1
  <2>9. root[t] # c /\ root[root[t]] = root[t] /\ root[t] \in Turns
    BY <1>0, <2>5, <2>6 DEF AgentsConsulted
  <2>10. \A u \in Turns, p \in Turns : \A j \in DOMAIN calls[p] : ConsultedBy(u, p, j) =>
           p # c /\ j \in DOMAIN calls'[p] /\ ConsultedBy(u, p, j)'
    BY <2>2, <2>3, <2>4, <2>7 DEF ConsultedBy
  <2>11. ConsultedBy(c, t, k)' /\ k \in DOMAIN calls'[t] BY <2>3, <2>5 DEF ConsultedBy
  <2>12. \A u \in Turns : root'[u] # u =>
           \E p \in Turns : \E j \in DOMAIN calls'[p] :
             ConsultedBy(u, p, j)' /\ root'[p] = root'[u] /\ depth'[p] < depth'[u]
    <3>1. ASSUME NEW u \in Turns \ {c}, root'[u] # u
          PROVE  \E p \in Turns : \E j \in DOMAIN calls'[p] :
                   ConsultedBy(u, p, j)' /\ root'[p] = root'[u] /\ depth'[p] < depth'[u]
      <4>1. PICK p \in Turns : \E j \in DOMAIN calls[p] :
              ConsultedBy(u, p, j) /\ root[p] = root[u] /\ depth[p] < depth[u]
        BY <2>7, <3>1 DEF AgentsConsulted
      <4> QED BY <2>7, <2>10, <4>1
    <3>2. \E p \in Turns : \E j \in DOMAIN calls'[p] :
            ConsultedBy(c, p, j)' /\ root'[p] = root'[c] /\ depth'[p] < depth'[c]
      BY <2>5, <2>8, <2>11
    <3> QED BY <3>1, <3>2
  <2>13. \A u \in Turns : root'[root'[u]] = root'[u]
    BY <1>0, <2>5, <2>6, <2>7, <2>9 DEF AgentsConsulted
  <2>14. \A u \in Turns : \A j \in DOMAIN calls'[u] : calls'[u][j].fate = "consulting" =>
           calls'[u][j].tool = Consult /\ calls'[u][j].agent \in Turns
    BY <2>3, <2>4 DEF AgentsConsulted
  <2> QED BY <2>12, <2>13, <2>14 DEF AgentsConsulted
<1>4. ASSUME NEW t \in Turns, NEW s \in Sessions, NEW a \in Asks, Open(t, s, a)
      PROVE  AgentsConsulted'
  <2>1. /\ pc[t] = "idle" /\ pc' = [pc EXCEPT ![t] = "history"] /\ root' = [root EXCEPT ![t] = t]
        /\ depth' = [depth EXCEPT ![t] = a.depth] /\ UNCHANGED calls
    BY <1>4 DEF Open, Start, Goto
  <2>2. root[t] = t BY <2>1 DEF Placed, InTurn
  <2>3. \A u \in Turns : root'[u] = root[u] BY <1>0, <2>1, <2>2
  <2>4. \A u \in Turns \ {t} : pc'[u] = pc[u] /\ depth'[u] = depth[u] BY <1>0, <2>1
  <2>5. \A u \in Turns, p \in Turns : \A j \in DOMAIN calls[p] : ConsultedBy(u, p, j) =>
          p # t /\ ConsultedBy(u, p, j)'
    BY <2>1, <2>4 DEF ConsultedBy
  <2>6. \A u \in Turns : root'[u] # u =>
          \E p \in Turns : \E j \in DOMAIN calls'[p] :
            ConsultedBy(u, p, j)' /\ root'[p] = root'[u] /\ depth'[p] < depth'[u]
    <3> SUFFICES ASSUME NEW u \in Turns, root'[u] # u
                 PROVE  \E p \in Turns : \E j \in DOMAIN calls'[p] :
                          ConsultedBy(u, p, j)' /\ root'[p] = root'[u] /\ depth'[p] < depth'[u]
      OBVIOUS
    <3>1. root[u] # u /\ u # t BY <2>2, <2>3
    <3>2. PICK p \in Turns : \E j \in DOMAIN calls[p] :
            ConsultedBy(u, p, j) /\ root[p] = root[u] /\ depth[p] < depth[u]
      BY <3>1 DEF AgentsConsulted
    <3> QED BY <2>1, <2>3, <2>4, <2>5, <3>1, <3>2
  <2>7. \A u \in Turns : root'[root'[u]] = root'[u] BY <1>0, <2>3 DEF AgentsConsulted
  <2>8. \A u \in Turns : \A j \in DOMAIN calls'[u] : calls'[u][j].fate = "consulting" =>
          calls'[u][j].tool = Consult /\ calls'[u][j].agent \in Turns
    BY <2>1 DEF AgentsConsulted
  <2> QED BY <2>6, <2>7, <2>8 DEF AgentsConsulted
<1>5. ASSUME NEW t \in Turns, Leave(t) PROVE AgentsConsulted'
  <2>1. pc[t] # "batch" /\ calls[t] = <<>> BY <1>5 DEF Leave, Placed
  <2>2. \A u \in Turns \ {t} : pc'[u] = pc[u] /\ root'[u] = root[u] /\ depth'[u] = depth[u]
                               /\ calls'[u] = calls[u]
    BY <1>0, <1>5 DEF Leave, EndRun, EndTurn, Clean, Goto
  <2>3. calls'[t] = <<>> /\ root'[t] = root[t] BY <1>0, <1>5 DEF Leave, EndRun, EndTurn, Clean
  <2>4. root[t] # t => depth'[t] = depth[t] BY <1>5 DEF Leave
  <2>5. \A u \in Turns, p \in Turns : \A j \in DOMAIN calls[p] : ConsultedBy(u, p, j) =>
          p # t /\ j \in DOMAIN calls'[p] /\ ConsultedBy(u, p, j)'
    BY <2>1, <2>2 DEF ConsultedBy
  <2>6. \A u \in Turns : root'[u] # u =>
          \E p \in Turns : \E j \in DOMAIN calls'[p] :
            ConsultedBy(u, p, j)' /\ root'[p] = root'[u] /\ depth'[p] < depth'[u]
    <3> SUFFICES ASSUME NEW u \in Turns, root'[u] # u
                 PROVE  \E p \in Turns : \E j \in DOMAIN calls'[p] :
                          ConsultedBy(u, p, j)' /\ root'[p] = root'[u] /\ depth'[p] < depth'[u]
      OBVIOUS
    <3>1. root[u] # u BY <2>2, <2>3
    <3>2. PICK p \in Turns : \E j \in DOMAIN calls[p] :
            ConsultedBy(u, p, j) /\ root[p] = root[u] /\ depth[p] < depth[u]
      BY <3>1 DEF AgentsConsulted
    <3>3. depth'[u] = depth[u] /\ root'[u] = root[u] BY <2>2, <2>3, <2>4, <3>1
    <3> QED BY <2>2, <2>5, <3>2, <3>3
  <2>7. \A u \in Turns : root'[root'[u]] = root'[u] BY <1>0, <2>2, <2>3 DEF AgentsConsulted
  <2>8. \A u \in Turns : \A j \in DOMAIN calls'[u] : calls'[u][j].fate = "consulting" =>
          calls'[u][j].tool = Consult /\ calls'[u][j].agent \in Turns
    BY <2>2, <2>3 DEF AgentsConsulted
  <2> QED BY <2>6, <2>7, <2>8 DEF AgentsConsulted
<1>6. ASSUME NEW t \in Turns, HangUp(t) PROVE AgentsConsulted'
  <2> DEFINE D == Dropped(t)
  <2>1. \A u \in Turns \ D : pc'[u] = pc[u] /\ root'[u] = root[u] /\ depth'[u] = depth[u]
                             /\ calls'[u] = calls[u]
    BY <1>0, <1>6 DEF HangUp, EndRun, EndTurn, Clean
  <2>2. \A u \in Turns : u \in D => root'[u] = u /\ calls'[u] = <<>>
    BY <1>0, <1>6 DEF HangUp, EndRun, EndTurn, Clean
  <2>3. \A u \in Turns : root[u] = t => u \in D
    BY <1>6 DEF HangUp, Dropped, Placed, InTurn, Running
  <2>4. \A u \in Turns : u \in D => root[u] = t BY DEF Dropped
  <2> HIDE DEF D
  <2>5. \A u \in Turns : root'[u] # u =>
          \E p \in Turns : \E j \in DOMAIN calls'[p] :
            ConsultedBy(u, p, j)' /\ root'[p] = root'[u] /\ depth'[p] < depth'[u]
    <3> SUFFICES ASSUME NEW u \in Turns, root'[u] # u
                 PROVE  \E p \in Turns : \E j \in DOMAIN calls'[p] :
                          ConsultedBy(u, p, j)' /\ root'[p] = root'[u] /\ depth'[p] < depth'[u]
      OBVIOUS
    <3>1. u \notin D /\ root[u] # u BY <2>1, <2>2
    <3>2. PICK p \in Turns : \E j \in DOMAIN calls[p] :
            ConsultedBy(u, p, j) /\ root[p] = root[u] /\ depth[p] < depth[u]
      BY <3>1 DEF AgentsConsulted
    <3>3. p \notin D BY <2>3, <2>4, <3>1, <3>2
    <3> QED BY <2>1, <3>1, <3>2, <3>3 DEF ConsultedBy
  <2>6. \A u \in Turns : root'[root'[u]] = root'[u]
    <3> SUFFICES ASSUME NEW u \in Turns PROVE root'[root'[u]] = root'[u] OBVIOUS
    <3>1. CASE u \in D BY <2>2, <3>1
    <3>2. CASE u \notin D
      <4>1. root[root[u]] = root[u] BY DEF AgentsConsulted
      <4>2. root[u] \notin D BY <1>0, <2>3, <2>4, <3>2, <4>1
      <4> QED BY <1>0, <2>1, <3>2, <4>1, <4>2
    <3> QED BY <3>1, <3>2
  <2>7. \A u \in Turns : \A j \in DOMAIN calls'[u] : calls'[u][j].fate = "consulting" =>
          calls'[u][j].tool = Consult /\ calls'[u][j].agent \in Turns
    BY <2>1, <2>2 DEF AgentsConsulted
  <2> QED BY <2>5, <2>6, <2>7 DEF AgentsConsulted
<1>7. CASE Operate \/ UNCHANGED vars
  <2>1. UNCHANGED <<pc, root, depth, calls>>
    BY <1>7 DEF Operate, Stop, Clear, SetStatus, vars
  <2> QED BY <2>1 DEF AgentsConsulted, ConsultedBy
<1>8. CASE Restart
  <2>1. \A u \in Turns : root'[u] = u /\ calls'[u] = <<>>
    BY <1>0, <1>8 DEF Restart, EndRun, EndTurn, Clean, Placed, InTurn
  <2> QED BY <2>1 DEF AgentsConsulted
<1>9. ASSUME NEW t \in Turns, Proceed(t) PROVE AgentsConsulted'
  BY <1>1, <1>2, <1>3, <1>5, <1>9 DEF Proceed, Works
<1> QED BY <1>4, <1>6, <1>7, <1>8, <1>9 DEF Next

LEMMA GuardStart ==
  ASSUME TypeOK, Placed, Guarded, LanesHold, NEW c \in Turns, NEW s \in Sessions, NEW a \in Ask,
         NEW top \in Turns, NEW d \in 0 .. MaxDepth, NEW inherited, NEW how,
         Start(c, s, a, top, d, inherited, how),
         \A u \in Turns : root[u] = c => u = c,
         d > 0 => count[s] = None /\ (top = c \/ a.lanes \subseteq ask[top].lanes),
         d = 0 => top = c /\ a.lanes = Tools,
         \A u \in Turns : DOMAIN calls'[u] = DOMAIN calls[u],
         \A u \in Turns : \A k \in DOMAIN calls[u] :
           calls'[u][k] = calls[u][k] \/ (calls'[u][k].fate = "consulting")
  PROVE  Guarded' /\ LanesHold'
<1>1. /\ pc[c] = "idle" /\ pc' = [pc EXCEPT ![c] = "history"] /\ ask' = [ask EXCEPT ![c] = a]
      /\ sess' = [sess EXCEPT ![c] = s] /\ root' = [root EXCEPT ![c] = top]
      /\ depth' = [depth EXCEPT ![c] = d]
      /\ iso' = [iso EXCEPT ![s] = IF d > 0 THEN [depth |-> d, lanes |-> a.lanes] ELSE @]
  BY DEF Start, Goto
<1>2. /\ DOMAIN pc = Turns /\ DOMAIN ask = Turns /\ DOMAIN sess = Turns /\ DOMAIN root = Turns
      /\ DOMAIN depth = Turns /\ DOMAIN iso = Sessions /\ \A u \in Turns : root[u] \in Turns
      /\ MaxDepth \in Nat /\ \A z \in Sessions : iso[z].depth \in Nat
  BY TurnAssumption DEF TypeOK
<1>3. \A u \in Turns \ {c} : pc'[u] = pc[u] /\ ask'[u] = ask[u] /\ sess'[u] = sess[u] /\ root'[u] = root[u]
                             /\ depth'[u] = depth[u] /\ ask'[root'[u]] = ask[root[u]]
  BY <1>1, <1>2
<1>4. pc'[c] = "history" /\ ask'[c] = a /\ sess'[c] = s /\ root'[c] = top /\ depth'[c] = d
      /\ calls[c] = <<>>
  BY <1>1, <1>2 DEF Placed
<1>5. \A z \in Sessions : iso'[z] = IF z = s /\ d > 0 THEN [depth |-> d, lanes |-> a.lanes] ELSE iso[z]
  BY <1>1, <1>2
<1>6. \A u \in Turns \ {c} : d > 0 /\ InTurn(u) => sess[u] # s /\ sess[u] \in Sessions
  BY DEF Placed
<1>7. \A u \in Turns \ {c} : InTurn(u) => sess[u] \in Sessions /\ iso'[sess[u]] = iso[sess[u]]
  BY <1>5, <1>6 DEF Placed
<1>8. iso'[s].depth <= MaxDepth /\ (d > 0 => iso'[s].depth = d /\ iso'[s].lanes = a.lanes)
  BY <1>2, <1>5 DEF Guarded
<1>9. top = c \/ ask'[top] = ask[top] BY <1>1, <1>2
<1>10. \A u \in Turns : Running(u)' <=> Running(u) \/ u = c BY <1>1, <1>3, <1>4 DEF Running
<1>11. \A u \in Turns : InTurn(u)' <=> InTurn(u) \/ u = c BY <1>1, <1>3, <1>4 DEF InTurn
<1>12. \A u \in Turns : Running(u) => InTurn(u) BY DEF Running, InTurn
<1>13. \A u \in Turns : InTurn(u)' /\ depth'[u] = 0 => root'[u] = u /\ ask'[u].lanes = Tools
  BY <1>3, <1>4, <1>11 DEF Guarded
<1>14. \A u \in Turns : Running(u)' /\ depth'[u] > 0 =>
         iso'[sess'[u]].depth = depth'[u] /\ iso'[sess'[u]].lanes \subseteq ask'[root'[u]].lanes
  <2>1. ASSUME NEW u \in Turns \ {c}, Running(u)', depth'[u] > 0
        PROVE  iso'[sess'[u]].depth = depth'[u] /\ iso'[sess'[u]].lanes \subseteq ask'[root'[u]].lanes
    <3>1. Running(u) /\ InTurn(u) BY <1>10, <1>12, <2>1
    <3>2. /\ sess'[u] = sess[u] /\ depth'[u] = depth[u] /\ iso'[sess[u]] = iso[sess[u]]
          /\ ask'[root'[u]] = ask[root[u]]
      BY <1>3, <1>7, <3>1
    <3>3. iso[sess[u]].depth = depth[u] /\ iso[sess[u]].lanes \subseteq ask[root[u]].lanes
      BY <2>1, <3>1, <3>2 DEF Guarded
    <3> QED BY <3>2, <3>3
  <2>2. depth'[c] > 0 =>
          iso'[sess'[c]].depth = depth'[c] /\ iso'[sess'[c]].lanes \subseteq ask'[root'[c]].lanes
    BY <1>4, <1>8, <1>9
  <2> QED BY <2>1, <2>2
<1>15. \A u, v \in Turns : Running(u)' /\ Running(v)' /\ depth'[u] > 0 /\ depth'[v] > 0
                           /\ sess'[u] = sess'[v] => u = v
  BY <1>3, <1>4, <1>6, <1>10, <1>12 DEF Guarded
<1>16. \A z \in Sessions : iso'[z].depth <= MaxDepth BY <1>5, <1>8 DEF Guarded
<1>17. \A u \in Turns : \A k \in DOMAIN calls'[u] :
         /\ u # c /\ InTurn(u)
         /\ calls'[u][k] = calls[u][k] \/ calls'[u][k].fate = "consulting"
  BY <1>4 DEF Placed, InTurn
<1>18. \A u \in Turns : \A k \in DOMAIN calls'[u] :
         calls'[u][k].tool = Consult /\ calls'[u][k].fate = "run" => iso'[sess'[u]].depth < MaxDepth
  BY <1>3, <1>7, <1>17 DEF Guarded
<1>19. LanesHold' BY <1>3, <1>17 DEF LanesHold
<1> QED BY <1>13, <1>14, <1>15, <1>16, <1>18, <1>19 DEF Guarded

LEMMA GuardAlone ==
  ASSUME TypeOK, Placed, Guarded, LanesHold, NEW t \in Turns, Works(t)
  PROVE  Guarded' /\ LanesHold'
<1>1. /\ \A u \in Turns \ {t} : pc'[u] = pc[u] /\ calls'[u] = calls[u]
      /\ Running(t) /\ Running(t)' /\ UNCHANGED <<request, iso>>
  BY StepsAlone DEF Alone
<1>2. \A u \in Turns : (Running(u)' <=> Running(u)) /\ (InTurn(u)' <=> InTurn(u))
  BY <1>1 DEF Running, InTurn
<1>3. \A k \in DOMAIN calls'[t] :
        /\ calls'[t][k].tool = Consult /\ calls'[t][k].fate = "run" => iso[sess[t]].depth < MaxDepth
        /\ calls'[t][k].fate \in {"run", "ok"} /\ calls'[t][k].tool # Consult =>
             calls'[t][k].tool \in ask[root[t]].lanes
  <2>1. ASSUME NEW j \in DOMAIN calls[t], NEW fate \in {"ok", "failed"}, NEW how \in Hows,
               Reply(t, j, fate, how)
        PROVE  <1>3
    <3>1. Settle(t, j, fate, how) /\ calls[t][j].fate = "run" BY <2>1 DEF Reply
    <3>2. /\ DOMAIN calls'[t] = DOMAIN calls[t]
          /\ \A i \in DOMAIN calls[t] \ {j} : calls'[t][i] = calls[t][i]
          /\ calls'[t][j].fate = fate /\ calls'[t][j].tool = calls[t][j].tool
      <4> QED BY <3>1, SettleAt
    <3> QED BY <3>1, <3>2 DEF Guarded, LanesHold
  <2>2. ASSUME NEW b \in Batches, StartBatch(t, b), ~Cancelled(t) PROVE <1>3
    <3>1. /\ DOMAIN calls'[t] = 1 .. Len(b)
          /\ \A k \in DOMAIN calls'[t] : calls'[t][k].tool = b[k] /\ calls'[t][k].fate = Fate(t, b, k)
      BY <2>2, BatchAt
    <3>2. sess[t] \in Sessions /\ InTurn(t) BY <1>1 DEF Placed, Running, InTurn
    <3>3. iso[sess[t]].depth \in Nat BY <3>2 DEF TypeOK
    <3>4. \A k \in 1 .. Len(b) : b[k] \in Tools
      <4>1. b \in Seq(Tools) BY TurnAssumption
      <4> QED BY <4>1
    <3>5. iso[sess[t]].lanes \subseteq ask[root[t]].lanes
          \/ (root[t] = t /\ ask[t].lanes = Tools)
      <4>1. depth[t] \in Nat BY TurnAssumption DEF TypeOK
      <4> QED BY <1>1, <3>2, <4>1 DEF Guarded
    <3> SUFFICES ASSUME NEW k \in DOMAIN calls'[t], Fate(t, b, k) \in {"run", "ok"}
                 PROVE  /\ b[k] = Consult => iso[sess[t]].depth < MaxDepth
                        /\ b[k] # Consult => b[k] \in ask[root[t]].lanes
      BY <3>1
    <3>6. ~OffLane(t, b[k]) /\ ~TooDeep(t, b[k]) BY DEF Fate
    <3>7. b[k] = Consult => iso[sess[t]].depth < MaxDepth
      BY <3>3, <3>6, TurnAssumption DEF TooDeep
    <3>8. b[k] # Consult => b[k] \in iso[sess[t]].lanes BY <3>6 DEF OffLane
    <3> QED BY <3>1, <3>4, <3>5, <3>7, <3>8
  <2>3. CASE calls'[t] = <<>> BY <2>3
  <2> QED BY <2>1, <2>2, <2>3, CallsAlone
<1>4. LanesHold' BY <1>1, <1>3 DEF LanesHold, request
<1>5. \A u \in Turns : \A k \in DOMAIN calls'[u] :
        calls'[u][k].tool = Consult /\ calls'[u][k].fate = "run" => iso'[sess'[u]].depth < MaxDepth
  BY <1>1, <1>3 DEF Guarded, request
<1> QED BY <1>1, <1>2, <1>4, <1>5 DEF Guarded, request

LEMMA GuardStep ==
  ASSUME TypeOK, Placed, Family, [Next]_vars PROVE Guarded' /\ LanesHold'
<1> USE TurnAssumption DEF Family
<1>0. /\ DOMAIN pc = Turns /\ DOMAIN calls = Turns /\ DOMAIN root = Turns /\ DOMAIN depth = Turns
      /\ DOMAIN ask = Turns /\ DOMAIN sess = Turns /\ DOMAIN iso = Sessions
      /\ \A t \in Turns : root[t] \in Turns /\ depth[t] \in 0 .. MaxDepth
  BY DEF TypeOK
<1>r. \A t \in Turns : root[t] # t => pc[root[t]] = "batch" BY RootWaits
<1>1. ASSUME NEW t \in Turns, Works(t) PROVE Guarded' /\ LanesHold' BY <1>1, GuardAlone
<1>2. ASSUME NEW t \in Turns, NEW k \in DOMAIN calls[t], Collect(t, k) PROVE Guarded' /\ LanesHold'
  <2> DEFINE c == calls[t][k].agent
             fate == IF answer[c] = "ok" THEN "ok" ELSE "failed"
             how == IF answer[c] # "ok" THEN "no"
                    ELSE IF seen[c] = "direct" THEN "consult" ELSE seen[c]
  <2>1. c \in Turns /\ pc[c] = "over" /\ calls[t][k].tool = Consult /\ pc' = [pc EXCEPT ![c] = "done"]
    BY <1>2 DEF Collect, AgentsConsulted, Goto
  <2>2. Settle(t, k, fate, how) /\ EndTurn({c}) /\ UNCHANGED iso BY <1>2 DEF Collect
  <2>3. /\ DOMAIN calls'[t] = DOMAIN calls[t]
        /\ \A j \in DOMAIN calls[t] \ {k} : calls'[t][j] = calls[t][j]
        /\ calls'[t][k].fate # "run" /\ calls'[t][k].tool = calls[t][k].tool
        /\ \A u \in Turns \ {t} : calls'[u] = calls[u]
    <3>1. fate # "run" OBVIOUS
    <3> HIDE DEF fate, how
    <3> QED BY <2>2, <3>1, SettleAt
  <2>4. \A u \in Turns : root[u] # c
    <3>1. root[c] # c BY <2>1 DEF Placed
    <3> QED BY <1>0, <3>1 DEF AgentsConsulted
  <2>5. \A u \in Turns \ {c} : pc'[u] = pc[u] /\ ask'[u] = ask[u] /\ sess'[u] = sess[u]
          /\ root'[u] = root[u] /\ depth'[u] = depth[u] /\ ask'[root'[u]] = ask[root[u]]
    BY <1>0, <2>1, <2>2, <2>4 DEF EndTurn, Clean
  <2>6. pc'[c] = "done" /\ calls'[c] = <<>>
    <3>1. pc'[c] = "done" /\ calls[c] = <<>> BY <1>0, <2>1 DEF Placed
    <3>2. c # t BY <1>2, <2>1 DEF Collect
    <3> QED BY <2>1, <2>3, <3>1, <3>2
  <2> HIDE DEF c, fate, how
  <2>7. PICK z \in Turns : z = c BY <2>1
  <2>8. /\ ~Running(z)' /\ ~InTurn(z)'
        /\ \A u \in Turns \ {z} : (Running(u)' <=> Running(u)) /\ (InTurn(u)' <=> InTurn(u))
    BY <2>5, <2>6, <2>7 DEF Running, InTurn
  <2>9. LanesHold' BY <2>1, <2>3, <2>5, <2>6 DEF LanesHold
  <2>10. \A u \in Turns : \A j \in DOMAIN calls'[u] :
           calls'[u][j].tool = Consult /\ calls'[u][j].fate = "run" => iso'[sess'[u]].depth < MaxDepth
    BY <2>2, <2>3, <2>5, <2>6 DEF Guarded
  <2>11. \A u \in Turns : InTurn(u)' /\ depth'[u] = 0 => root'[u] = u /\ ask'[u].lanes = Tools
    BY <2>2, <2>5, <2>7, <2>8 DEF Guarded
  <2>12. \A u \in Turns : Running(u)' /\ depth'[u] > 0 =>
           iso'[sess'[u]].depth = depth'[u] /\ iso'[sess'[u]].lanes \subseteq ask'[root'[u]].lanes
    BY <2>2, <2>5, <2>7, <2>8, SMTT(60) DEF Guarded
  <2>13. \A u, v \in Turns : Running(u)' /\ Running(v)' /\ depth'[u] > 0 /\ depth'[v] > 0
                            /\ sess'[u] = sess'[v] => u = v
    BY <2>2, <2>5, <2>7, <2>8 DEF Guarded
  <2>14. \A s \in Sessions : iso'[s].depth <= MaxDepth BY <2>2 DEF Guarded
  <2> QED BY <2>9, <2>10, <2>11, <2>12, <2>13, <2>14 DEF Guarded
<1>3. ASSUME NEW t \in Turns, NEW k \in DOMAIN calls[t], NEW c \in Turns, NEW s \in Sessions,
             Spawn(t, k, c, s)
      PROVE  Guarded' /\ LanesHold'
  <2>1. PICK diagnostic \in {a.diagnostic : a \in Asks} :
          Start(c, s, ChildAsk(t, diagnostic), root[t], iso[sess[t]].depth + 1, Inherits(t), seen[t])
    BY <1>3 DEF Spawn
  <2>2. pc[t] = "batch" /\ count[s] = None /\ calls[t][k].tool = Consult /\ calls[t][k].fate = "run"
    BY <1>3 DEF Spawn
  <2>3. sess[t] \in Sessions /\ InTurn(t) /\ Running(t) BY <2>2 DEF Placed, InTurn, Running
  <2>4. iso[sess[t]] \in [depth : Nat, lanes : SUBSET Tools] BY <2>3 DEF TypeOK
  <2>5. ChildAsk(t, diagnostic) \in Ask /\ ChildAsk(t, diagnostic).lanes = iso[sess[t]].lanes
    <3>1. PICK a \in Asks : diagnostic = a.diagnostic BY <2>1
    <3>2. diagnostic \in BOOLEAN
      <4>1. a \in Ask OBVIOUS
      <4> QED BY <3>1, <4>1 DEF Ask
    <3> QED BY <2>4, <3>2 DEF ChildAsk, Ask
  <2>6. iso[sess[t]].depth + 1 \in 0 .. MaxDepth /\ iso[sess[t]].depth + 1 > 0
    BY <2>2, <2>4 DEF Guarded
  <2>7. iso[sess[t]].lanes \subseteq ask[root[t]].lanes BY <1>0, <2>3, <2>4 DEF Guarded
  <2>8. /\ DOMAIN calls'[t] = DOMAIN calls[t]
        /\ \A j \in DOMAIN calls[t] \ {k} : calls'[t][j] = calls[t][j]
        /\ calls'[t][k].fate = "consulting"
        /\ \A u \in Turns \ {t} : calls'[u] = calls[u]
    BY <1>3, SpawnAt
  <2>9. \A u \in Turns : root[u] = c => u = c
    <3>1. pc[c] = "idle" BY <2>1 DEF Start
    <3> QED BY <1>r, <3>1
  <2>10. ~(iso[sess[t]].depth + 1 = 0) BY <2>6
  <2>11. \A u \in Turns : DOMAIN calls'[u] = DOMAIN calls[u] BY <2>8
  <2>12. \A u \in Turns : \A j \in DOMAIN calls[u] :
           calls'[u][j] = calls[u][j] \/ (calls'[u][j].fate = "consulting")
    BY <2>8
  <2>13. root[t] \in Turns BY <1>0
  <2>14. ChildAsk(t, diagnostic).lanes \subseteq ask[root[t]].lanes BY <2>5, <2>7
  <2> DEFINE a == ChildAsk(t, diagnostic)
             d == iso[sess[t]].depth + 1
             top == root[t]
             inherited == Inherits(t)
             how == seen[t]
  <2>15. Start(c, s, a, top, d, inherited, how) BY <2>1
  <2>16. a \in Ask /\ a.lanes \subseteq ask[top].lanes /\ d \in 0 .. MaxDepth /\ top \in Turns
         /\ ~(d = 0)
    BY <2>5, <2>6, <2>10, <2>13, <2>14
  <2> HIDE DEF a, d, top, inherited, how
  <2> QED BY <2>2, <2>9, <2>11, <2>12, <2>15, <2>16, GuardStart
<1>4. ASSUME NEW t \in Turns, NEW s \in Sessions, NEW a \in Asks, Open(t, s, a)
      PROVE  Guarded' /\ LanesHold'
  <2>1. a \in Ask /\ (a.depth = 0 => a.lanes = Tools) OBVIOUS
  <2>2. a.depth \in 0 .. MaxDepth /\ (a.depth > 0 => a.depth = 1)
    <3>1. a.depth \in {0, 1} BY <2>1 DEF Ask
    <3> QED BY <3>1
  <2>3. Start(t, s, a, t, a.depth, FALSE, "no") /\ UNCHANGED calls /\ (a.depth = 1 => count[s] = None)
    BY <1>4 DEF Open
  <2>4. \A u \in Turns : root[u] = t => u = t
    <3>1. pc[t] = "idle" BY <2>3 DEF Start
    <3> QED BY <1>r, <3>1
  <2> QED BY <2>1, <2>2, <2>3, <2>4, GuardStart
<1>5. ASSUME NEW t \in Turns, Leave(t) PROVE Guarded' /\ LanesHold'
  <2>1. pc[t] \in {"stored", "leaving"} /\ calls[t] = <<>> BY <1>5 DEF Leave, Placed
  <2>2. \A u \in Turns : u # t => root[u] # t BY <1>r, <2>1
  <2>3. \A u \in Turns \ {t} : pc'[u] = pc[u] /\ ask'[u] = ask[u] /\ sess'[u] = sess[u]
          /\ root'[u] = root[u] /\ depth'[u] = depth[u] /\ calls'[u] = calls[u]
    BY <1>0, <1>5 DEF Leave, EndRun, EndTurn, Clean, Goto, request
  <2>4. \A u \in Turns \ {t} : ask'[root'[u]] = ask[root[u]] BY <1>0, <2>2, <2>3
  <2>5. calls'[t] = <<>> /\ pc'[t] = (IF root[t] = t THEN "done" ELSE "over")
    BY <1>0, <1>5 DEF Leave, EndRun, Clean, Goto
  <2>6. root[t] # t => ask'[t] = ask[t] /\ root'[t] = root[t] /\ depth'[t] = depth[t]
    BY <1>5 DEF Leave, request
  <2>7. \A s \in Sessions : iso'[s] = IF s = sess[t] /\ depth[t] > 0 THEN Operator ELSE iso[s]
    BY <1>5 DEF Leave, Unguard
  <2>8. ~Running(t)' /\ Running(t) /\ (InTurn(t)' => root[t] # t /\ InTurn(t))
    BY <2>1, <2>5 DEF Running, InTurn
  <2>9. \A u \in Turns \ {t} : (Running(u)' <=> Running(u)) /\ (InTurn(u)' <=> InTurn(u))
    BY <2>3 DEF Running, InTurn
  <2>10. \A u \in Turns \ {t} : Running(u) /\ depth[u] > 0 =>
           sess[u] \in Sessions /\ iso'[sess[u]] = iso[sess[u]]
    BY <2>7, <2>8 DEF Guarded, Placed, Running, InTurn
  <2>11. Operator.depth = 0 BY DEF Operator
  <2>12. \A s \in Sessions : iso'[s].depth <= MaxDepth BY <2>7, <2>11 DEF Guarded
  <2>13. \A u \in Turns : \A k \in DOMAIN calls'[u] :
           calls'[u][k].tool = Consult /\ calls'[u][k].fate = "run" => iso'[sess'[u]].depth < MaxDepth
    <3> SUFFICES ASSUME NEW u \in Turns \ {t}, NEW k \in DOMAIN calls[u],
                        calls[u][k].tool = Consult, calls[u][k].fate = "run"
                 PROVE  iso'[sess[u]].depth < MaxDepth
      BY <2>3, <2>5
    <3>1. sess[u] \in Sessions BY DEF Placed, InTurn
    <3> QED BY <2>7, <2>11, <3>1 DEF Guarded
  <2>14. LanesHold' BY <2>3, <2>4, <2>5 DEF LanesHold
  <2>15. \A u \in Turns : InTurn(u)' /\ depth'[u] = 0 => root'[u] = u /\ ask'[u].lanes = Tools
    BY <2>3, <2>4, <2>6, <2>8, <2>9, <2>10 DEF Guarded
  <2>16. \A u \in Turns : Running(u)' /\ depth'[u] > 0 =>
           iso'[sess'[u]].depth = depth'[u] /\ iso'[sess'[u]].lanes \subseteq ask'[root'[u]].lanes
    BY <2>3, <2>4, <2>6, <2>8, <2>9, <2>10, SMTT(30) DEF Guarded
  <2>17. \A u, v \in Turns : Running(u)' /\ Running(v)' /\ depth'[u] > 0 /\ depth'[v] > 0
                            /\ sess'[u] = sess'[v] => u = v
    BY <2>3, <2>4, <2>6, <2>8, <2>9, <2>10 DEF Guarded
  <2> QED BY <2>12, <2>13, <2>14, <2>15, <2>16, <2>17 DEF Guarded
<1>6. ASSUME NEW t \in Turns, HangUp(t) PROVE Guarded' /\ LanesHold'
  <2> DEFINE D == Dropped(t)
             S == {sess[u] : u \in {v \in D : Running(v) /\ depth[v] > 0}}
  <2>1. \A u \in Turns \ D : pc'[u] = pc[u] /\ ask'[u] = ask[u] /\ sess'[u] = sess[u]
          /\ root'[u] = root[u] /\ depth'[u] = depth[u] /\ calls'[u] = calls[u]
    BY <1>0, <1>6 DEF HangUp, EndRun, EndTurn, Clean
  <2>2. \A u \in Turns : u \in D => pc'[u] = "done" /\ calls'[u] = <<>>
    BY <1>0, <1>6 DEF HangUp, EndRun, EndTurn, Clean
  <2>3. \A s \in Sessions : iso'[s] = IF s \in S THEN Operator ELSE iso[s]
    BY <1>6 DEF HangUp, Unguard
  <2>4. \A u \in Turns \ D : root[u] \in Turns \ D
    <3>1. \A u \in Turns : root[u] = t => u \in D
      BY <1>6 DEF HangUp, Dropped, Placed, InTurn, Running
    <3> QED BY <1>0, <3>1 DEF Dropped, AgentsConsulted
  <2>5. \A u \in Turns \ D : ask'[root'[u]] = ask[root[u]] BY <2>1, <2>4
  <2>6. \A u \in Turns \ D : Running(u) /\ depth[u] > 0 =>
          sess[u] \in Sessions /\ sess[u] \notin S
    BY DEF Guarded, Placed, Running, InTurn, Dropped
  <2> HIDE DEF D, S
  <2>7. \A u \in Turns : u \in D => ~Running(u)' /\ ~InTurn(u)' BY <2>2 DEF Running, InTurn
  <2>8. \A u \in Turns \ D : (Running(u)' <=> Running(u)) /\ (InTurn(u)' <=> InTurn(u))
    BY <2>1 DEF Running, InTurn
  <2>9. Operator.depth = 0 BY DEF Operator
  <2>10. \A s \in Sessions : iso'[s].depth <= MaxDepth BY <2>3, <2>9 DEF Guarded
  <2>11. \A u \in Turns : \A k \in DOMAIN calls'[u] :
           calls'[u][k].tool = Consult /\ calls'[u][k].fate = "run" => iso'[sess'[u]].depth < MaxDepth
    <3> SUFFICES ASSUME NEW u \in Turns \ D, NEW k \in DOMAIN calls[u],
                        calls[u][k].tool = Consult, calls[u][k].fate = "run"
                 PROVE  iso'[sess[u]].depth < MaxDepth
      BY <2>1, <2>2
    <3>1. sess[u] \in Sessions BY DEF Placed, InTurn
    <3> QED BY <2>3, <2>9, <3>1 DEF Guarded
  <2>12. LanesHold' BY <2>1, <2>2, <2>5 DEF LanesHold
  <2>13. \A u \in Turns \ D : Running(u) /\ depth[u] > 0 => iso'[sess[u]] = iso[sess[u]]
    BY <2>3, <2>6
  <2>14. \A u \in Turns : InTurn(u)' /\ depth'[u] = 0 => root'[u] = u /\ ask'[u].lanes = Tools
    BY <2>1, <2>5, <2>7, <2>8, <2>13 DEF Guarded
  <2>15. \A u \in Turns : Running(u)' /\ depth'[u] > 0 =>
           iso'[sess'[u]].depth = depth'[u] /\ iso'[sess'[u]].lanes \subseteq ask'[root'[u]].lanes
    BY <2>1, <2>5, <2>7, <2>8, <2>13 DEF Guarded
  <2>16. \A u, v \in Turns : Running(u)' /\ Running(v)' /\ depth'[u] > 0 /\ depth'[v] > 0
                            /\ sess'[u] = sess'[v] => u = v
    BY <2>1, <2>5, <2>7, <2>8, <2>13 DEF Guarded
  <2> QED BY <2>10, <2>11, <2>12, <2>14, <2>15, <2>16 DEF Guarded
<1>7. CASE Operate \/ UNCHANGED vars
  <2>1. UNCHANGED <<pc, request, calls, iso>>
    BY <1>7 DEF Operate, Stop, Clear, SetStatus, vars, locals, service
  <2> QED BY <2>1 DEF Guarded, LanesHold, InTurn, Running, request
<1>8. CASE Restart
  <2>1. \A u \in Turns : pc'[u] \in {"idle", "done"} /\ calls'[u] = <<>>
    BY <1>0, <1>8 DEF Restart, EndRun, Clean, Placed
  <2>2. \A s \in Sessions : iso'[s].depth = 0 BY <1>8 DEF Restart, Unguard, Operator
  <2> QED BY <2>1, <2>2 DEF Guarded, LanesHold, InTurn, Running
<1>9. ASSUME NEW t \in Turns, Proceed(t) PROVE Guarded' /\ LanesHold'
  BY <1>1, <1>2, <1>3, <1>5, <1>9 DEF Proceed, Works
<1> QED BY <1>4, <1>6, <1>7, <1>8, <1>9 DEF Next
-----------------------------------------------------------------------------
(* Credentials.                                                            *)

LEMMA ServingAlone ==
  ASSUME TypeOK, Placed, Serving, NEW t \in Turns, Works(t) PROVE Serving'
<1> USE TurnAssumption DEF service, request, history, locals, Goto, Abort, AfterDraft
<1>0. DOMAIN pc = Turns /\ DOMAIN cred = Turns /\ DOMAIN rest = Turns BY DEF TypeOK
<1>1. /\ \A u \in Turns \ {t} : pc'[u] = pc[u] /\ cred'[u] = cred[u] /\ rest'[u] = rest[u]
      /\ UNCHANGED <<ask, status>> /\ gone \subseteq gone' /\ Running(t)
  BY StepsAlone DEF Alone
<1>2. ask[t] \in Ask BY <1>1 DEF Placed, Running, InTurn
<1> DEFINE Here ==
      /\ pc'[t] = "resolve" /\ ask[t].cred # None /\ ask[t].cred \notin gone' =>
           rest'[t] # <<>> /\ Head(rest'[t]) = ask[t].cred
      /\ cred'[t] # None /\ (ask[t].cred # None \/ ask[t].diagnostic) => rest'[t] = <<>>
      /\ cred'[t] # None => /\ ask[t].cred \in {None, cred'[t]} \union gone'
                            /\ ask[t].diagnostic => cred'[t] \in Local
<1>3. Here
  <2>1. CASE ReadHistory(t)
    <3>1. PICK q \in Candidates(ask[t]) : rest' = [rest EXCEPT ![t] = q] BY <2>1 DEF ReadHistory
    <3>2. pc[t] = "history" /\ UNCHANGED cred BY <2>1 DEF ReadHistory
    <3>3. cred[t] = None BY <3>2 DEF Placed
    <3> QED BY <1>0, <3>1, <3>2, <3>3 DEF Candidates
  <2>2. CASE Skip(t) \/ Unreadable(t)
    <3>1. /\ pc[t] = "resolve" /\ rest[t] # <<>> /\ UNCHANGED cred
          /\ \/ status[Head(rest[t])] = "missing" \/ Head(rest[t]) # ask[t].cred
             \/ {Head(rest[t])} \intersect {ask[t].cred} \subseteq gone'
      BY <2>2 DEF Skip, Unreadable
    <3>2. Head(rest[t]) \in Creds BY <3>1 DEF TypeOK
    <3>3. ask[t].cred # None => ask[t].cred \in gone' BY <1>1, <3>1, <3>2 DEF Serving
    <3> QED BY <3>1, <3>3 DEF Placed
  <2>3. CASE Resolve(t)
    <3>1. /\ pc[t] = "resolve" /\ rest[t] # <<>> /\ ~Unfit(t, Head(rest[t]))
          /\ cred' = [cred EXCEPT ![t] = Head(rest[t])]
          /\ rest' = [rest EXCEPT ![t] = Failover(t, Head(rest[t]))]
      BY <2>3, Zenon DEF Resolve
    <3>2. \/ Goto(t, "stream") /\ UNCHANGED <<loop, answer>>
          \/ Iterate(t, [NoWork EXCEPT !.tools = ask[t].tools])
      BY <2>3, Zenon DEF Resolve
    <3>3. pc'[t] # "resolve" BY <1>0, <3>2 DEF Iterate
    <3>4. cred'[t] = Head(rest[t]) /\ rest'[t] = Failover(t, Head(rest[t])) BY <1>0, <3>1
    <3>5. ask[t].diagnostic => Head(rest[t]) \in Local BY <3>1 DEF Unfit
    <3>6. ask[t].cred \in {None, Head(rest[t])} \union gone' BY <1>1, <3>1 DEF Serving
    <3> QED BY <3>3, <3>4, <3>5, <3>6 DEF Failover
  <2>4. CASE CallFails(t)
    <3>1. CASE rest[t] = <<>>
      <4>1. pc'[t] # "resolve" /\ UNCHANGED <<cred, rest>> BY <1>0, <2>4, <3>1 DEF CallFails
      <4> QED BY <1>1, <4>1 DEF Serving, ServedAsAsked
    <3>2. CASE rest[t] # <<>>
      <4>1. /\ pc[t] = "call" /\ UNCHANGED pc
            /\ UNCHANGED cred \/ cred' = [cred EXCEPT ![t] = Head(rest[t])]
        BY <2>4, <3>2, Zenon DEF CallFails
      <4>2. cred[t] # None BY <4>1 DEF Placed
      <4>3. ask[t].cred = None /\ ~ask[t].diagnostic BY <3>2, <4>2 DEF Serving
      <4> QED BY <1>1, <4>1, <4>3
    <3> QED BY <3>1, <3>2
  <2>5. CASE \/ Refuse(t) \/ NoCredential(t) \/ Breaks(t) \/ Answered(t) \/ Review(t)
             \/ Stream(t) \/ Silent(t) \/ Join(t) \/ Insert(t) \/ InsertFails(t)
    <3>1. UNCHANGED <<cred, rest>>
      BY <2>5 DEF Refuse, NoCredential, Breaks, Answered, Review, Stream, Silent, Join, Insert, InsertFails
    <3>2. pc'[t] # "resolve"
      <4>1. CASE Refuse(t) \/ NoCredential(t) BY <1>0, <4>1 DEF Refuse, NoCredential
      <4>2. CASE Breaks(t) \/ Answered(t) \/ Review(t) BY <1>0, <4>2 DEF Breaks, Answered, Review
      <4>3. CASE Stream(t) \/ Silent(t) \/ Join(t) BY <1>0, <4>3 DEF Stream, Silent, Join, Iterate
      <4>4. CASE Insert(t) \/ InsertFails(t) BY <1>0, <4>4 DEF Insert, InsertFails
      <4> QED BY <2>5, <4>1, <4>2, <4>3, <4>4
    <3> QED BY <1>1, <3>1, <3>2 DEF Serving, ServedAsAsked
  <2>6. ASSUME NEW b \in Batches, StartBatch(t, b) PROVE Here
    <3>1. UNCHANGED <<cred, rest>> BY <2>6 DEF StartBatch
    <3>2. pc'[t] # "resolve"
      <4>1. Abort(t, "cancelled") \/ Goto(t, "batch") BY <2>6, Zenon DEF StartBatch
      <4> QED BY <1>0, <4>1
    <3> QED BY <1>1, <3>1, <3>2 DEF Serving, ServedAsAsked
  <2>7. ASSUME NEW k \in DOMAIN calls[t], NEW fate \in {"ok", "failed"}, NEW how \in Hows,
               Reply(t, k, fate, how)
        PROVE  Here
    <3>1. UNCHANGED <<cred, rest, pc>> /\ pc[t] = "batch" BY <2>7 DEF Reply
    <3> QED BY <1>1, <3>1 DEF Serving, ServedAsAsked
  <2> QED BY <2>1, <2>2, <2>3, <2>4, <2>5, <2>6, <2>7 DEF Works
<1> HIDE DEF Here
<1>4. \A u \in Turns : pc'[u] = "resolve" /\ ask'[u].cred # None /\ ask'[u].cred \notin gone' =>
        rest'[u] # <<>> /\ Head(rest'[u]) = ask'[u].cred
  BY <1>1, <1>3 DEF Here, Serving
<1>5. \A u \in Turns : cred'[u] # None /\ (ask'[u].cred # None \/ ask'[u].diagnostic) => rest'[u] = <<>>
  BY <1>1, <1>3 DEF Here, Serving
<1>6. ServedAsAsked' BY <1>1, <1>3 DEF Here, Serving, ServedAsAsked
<1> QED BY <1>1, <1>4, <1>5, <1>6 DEF Serving

\* Only the turns of D change what they were asked and how they are served, and
\* they are not served.
OthersServed(D) ==
  /\ D \subseteq Turns /\ gone \subseteq gone'
  /\ \A c \in Creds : status'[c] = "missing" => c \in gone'
  /\ \A u \in Turns \ D : pc'[u] = pc[u] /\ ask'[u] = ask[u] /\ cred'[u] = cred[u] /\ rest'[u] = rest[u]
  /\ \A u \in D : pc'[u] # "resolve" /\ cred'[u] = None

LEMMA ServingOthers == ASSUME Serving, NEW D, OthersServed(D) PROVE Serving'
<1>1. \A u \in Turns : pc'[u] = "resolve" /\ ask'[u].cred # None /\ ask'[u].cred \notin gone' =>
        rest'[u] # <<>> /\ Head(rest'[u]) = ask'[u].cred
  BY DEF Serving, OthersServed
<1>2. \A u \in Turns : cred'[u] # None /\ (ask'[u].cred # None \/ ask'[u].diagnostic) => rest'[u] = <<>>
  BY DEF Serving, OthersServed
<1>3. ServedAsAsked' BY DEF Serving, ServedAsAsked, OthersServed
<1> QED BY <1>1, <1>2, <1>3 DEF Serving, OthersServed

LEMMA ServingStep ==
  ASSUME TypeOK, Placed, AgentsConsulted, Serving, [Next]_vars PROVE Serving'
<1> USE DEF service, request, history, locals
<1>0. /\ DOMAIN pc = Turns /\ DOMAIN cred = Turns /\ DOMAIN rest = Turns /\ DOMAIN ask = Turns
      /\ DOMAIN status = Creds /\ \A c \in Creds : status[c] = "missing" => c \in gone
  BY DEF TypeOK, Serving
<1>1. ASSUME NEW c \in Turns, pc[c] \in {"idle", "over"}, UNCHANGED <<status, gone, cred, rest>>,
             pc'[c] # "resolve", \A u \in Turns \ {c} : pc'[u] = pc[u] /\ ask'[u] = ask[u]
      PROVE  Serving'
  <2>1. cred'[c] = None BY <1>1 DEF Placed
  <2>2. OthersServed({c}) BY <1>0, <1>1, <2>1 DEF OthersServed
  <2> QED BY <2>2, ServingOthers
<1>2. ASSUME NEW t \in Turns, Proceed(t) PROVE Serving'
  <2>1. ASSUME NEW k \in DOMAIN calls[t], Collect(t, k) PROVE Serving'
    <3>1. PICK c \in Turns : c = calls[t][k].agent BY <2>1 DEF Collect, AgentsConsulted
    <3>2. /\ pc[c] = "over" /\ pc'[c] = "done" /\ UNCHANGED <<status, gone, cred, rest>>
          /\ \A u \in Turns \ {c} : pc'[u] = pc[u] /\ ask'[u] = ask[u]
      BY <1>0, <2>1, <3>1 DEF Collect, Goto, EndTurn, Clean
    <3> QED BY <1>1, <3>2
  <2>2. ASSUME NEW k \in DOMAIN calls[t], NEW c \in Turns, NEW s \in Sessions, Spawn(t, k, c, s)
        PROVE  Serving'
    <3>1. /\ pc[c] = "idle" /\ pc'[c] = "history" /\ UNCHANGED <<status, gone, cred, rest>>
          /\ \A u \in Turns \ {c} : pc'[u] = pc[u] /\ ask'[u] = ask[u]
      BY <1>0, <2>2 DEF Spawn, Start, Goto
    <3> QED BY <1>1, <3>1
  <2>3. CASE Leave(t)
    <3>1. /\ \A u \in Turns \ {t} : pc'[u] = pc[u] /\ ask'[u] = ask[u] /\ cred'[u] = cred[u]
                                   /\ rest'[u] = rest[u]
          /\ pc'[t] # "resolve" /\ cred'[t] = None /\ UNCHANGED <<status, gone>>
      BY <1>0, <2>3 DEF Leave, EndRun, EndTurn, Clean, Goto
    <3>2. OthersServed({t}) BY <1>0, <3>1 DEF OthersServed
    <3> QED BY <3>2, ServingOthers
  <2> QED BY <1>2, <2>1, <2>2, <2>3, ServingAlone DEF Proceed, Works
<1>3. ASSUME NEW t \in Turns, NEW s \in Sessions, NEW a \in Asks, Open(t, s, a) PROVE Serving'
  <2>1. /\ pc[t] = "idle" /\ pc'[t] = "history" /\ UNCHANGED <<status, gone, cred, rest>>
        /\ \A u \in Turns \ {t} : pc'[u] = pc[u] /\ ask'[u] = ask[u]
    BY <1>0, <1>3 DEF Open, Start, Goto
  <2> QED BY <1>1, <2>1
<1>4. ASSUME NEW t \in Turns, HangUp(t) PROVE Serving'
  <2>1. OthersServed(Dropped(t))
    BY <1>0, <1>4 DEF HangUp, EndRun, EndTurn, Clean, Dropped, OthersServed
  <2> QED BY <2>1, ServingOthers
<1>5. CASE Operate
  <2>1. ASSUME NEW c \in Creds, NEW st \in {"enabled", "paused", "missing"}, SetStatus(c, st)
        PROVE  Serving'
    <3>1. OthersServed({}) BY <1>0, <2>1 DEF SetStatus, OthersServed
    <3> QED BY <3>1, ServingOthers
  <2>2. ASSUME NEW s \in Sessions, Stop(s) \/ Clear(s) PROVE Serving'
    <3>1. OthersServed({}) BY <1>0, <2>2 DEF Stop, Clear, OthersServed
    <3> QED BY <3>1, ServingOthers
  <2> QED BY <1>5, <2>1, <2>2 DEF Operate
<1>6. CASE UNCHANGED vars
  <2>1. OthersServed({}) BY <1>0, <1>6 DEF vars, OthersServed
  <2> QED BY <2>1, ServingOthers
<1>7. CASE Restart
  <2>1. \A u \in Turns : pc'[u] # "resolve" /\ cred'[u] = None
    BY <1>0, <1>7 DEF Restart, EndRun, Clean, Placed
  <2>2. OthersServed(Turns) BY <1>0, <1>7, <2>1 DEF Restart, OthersServed
  <2> QED BY <2>2, ServingOthers
<1> QED BY <1>2, <1>3, <1>4, <1>5, <1>6, <1>7 DEF Next
-----------------------------------------------------------------------------
(* Flags and stops.                                                        *)

\* Steps that start, end and stop no turn.
LEMMA FlaggedKept ==
  ASSUME Flagged, UNCHANGED <<holds, flag, flipped, stopped, murky>>,
         \A u \in Turns : /\ Running(u)' <=> Running(u)
                          /\ pc[u] # "idle" => pc'[u] # "idle"
                          /\ Running(u) => sess'[u] = sess[u],
         TypeOK
  PROVE  Flagged'
<1>1. \A s \in Sessions : flag'[s] # None =>
        pc'[flag'[s]] # "idle" /\ (Running(flag[s])' => sess'[flag'[s]] = s)
  <2>1. \A s \in Sessions : flag[s] # None => flag[s] \in Turns BY DEF TypeOK
  <2> QED BY <2>1 DEF Flagged, Running
<1>2. \A t \in flipped' : pc'[t] # "idle" BY DEF Flagged, TypeOK
<1>3. \A t \in stopped' : Running(t)' BY DEF Flagged, TypeOK
<1>4. \A s \in Sessions \ murky' :
        /\ \A t, u \in Turns : Running(t)' /\ Running(u)' /\ sess'[t] = s /\ sess'[u] = s => t = u
        /\ (\A t \in Turns : Running(t)' => sess'[t] # s) => flag'[s] = None
  BY DEF Flagged
<1>5. \A t \in Turns : Running(t)' /\ sess'[t] \notin murky' =>
        holds'[t] = t /\ flag'[sess'[t]] = t /\ (t \in flipped' <=> t \in stopped')
  BY DEF Flagged
<1> QED BY <1>1, <1>2, <1>3, <1>4, <1>5 DEF Flagged

LEMMA FlaggedStart ==
  ASSUME TypeOK, Flagged, NEW t \in Turns, NEW s \in Sessions, NEW a, NEW top, NEW d, NEW inherited,
         NEW how, Start(t, s, a, top, d, inherited, how), UNCHANGED <<flipped, stopped>>
  PROVE  Flagged'
<1>1. /\ DOMAIN pc = Turns /\ DOMAIN sess = Turns /\ DOMAIN holds = Turns /\ DOMAIN flag = Sessions
      /\ t # None
  BY TurnAssumption DEF TypeOK
<1>2. /\ pc[t] = "idle" /\ pc'[t] = "history" /\ sess'[t] = s
      /\ flag' = [flag EXCEPT ![s] = IF flag[s] = None THEN t ELSE flag[s]]
      /\ holds'[t] = flag'[s]
      /\ murky' = IF \E u \in Turns : Running(u) /\ sess[u] = s THEN murky \union {s} ELSE murky
      /\ \A u \in Turns \ {t} : pc'[u] = pc[u] /\ sess'[u] = sess[u] /\ holds'[u] = holds[u]
  BY <1>1 DEF Start, Goto
<1>3. /\ ~Running(t) /\ Running(t)' /\ \A u \in Turns \ {t} : Running(u)' <=> Running(u)
  BY <1>2 DEF Running
<1>4. t \notin flipped /\ t \notin stopped /\ \A z \in Sessions : flag[z] # t
  BY <1>1, <1>2, <1>3 DEF Flagged
<1>5. \A z \in Sessions : flag[z] # None => flag[z] \in Turns BY DEF TypeOK
<1>6. \A z \in Sessions : flag'[z] # None =>
        pc'[flag'[z]] # "idle" /\ (Running(flag[z])' => sess'[flag'[z]] = z)
  <2>1. \A z \in Sessions : flag'[z] # None => (flag'[z] = t /\ z = s) \/ flag'[z] = flag[z]
    BY <1>1, <1>2
  <2> QED BY <1>2, <1>3, <1>4, <1>5, <2>1 DEF Flagged
<1>7. \A u \in flipped' : pc'[u] # "idle" BY <1>2, <1>4 DEF Flagged, TypeOK
<1>8. \A u \in stopped' : Running(u)' BY <1>3, <1>4 DEF Flagged, TypeOK
<1>9. s \notin murky' => /\ flag[s] = None /\ s \notin murky
                         /\ \A u \in Turns : Running(u) => sess[u] # s
  BY <1>2 DEF Flagged
<1>10. \A z \in Sessions \ murky' :
         /\ \A v, u \in Turns : Running(v)' /\ Running(u)' /\ sess'[v] = z /\ sess'[u] = z => v = u
         /\ (\A v \in Turns : Running(v)' => sess'[v] # z) => flag'[z] = None
  <2>1. \A z \in Sessions \ murky' : z # s => flag'[z] = flag[z] /\ z \notin murky BY <1>1, <1>2
  <2> QED BY <1>2, <1>3, <1>9, <2>1 DEF Flagged
<1>11. \A u \in Turns : Running(u)' /\ sess'[u] \notin murky' =>
         holds'[u] = u /\ flag'[sess'[u]] = u /\ (u \in flipped' <=> u \in stopped')
  <2>1. s \notin murky' => flag'[s] = t BY <1>1, <1>2, <1>9
  <2>2. ASSUME NEW u \in Turns \ {t}, Running(u), sess[u] \notin murky'
        PROVE  holds[u] = u /\ flag'[sess[u]] = u /\ (u \in flipped <=> u \in stopped)
    <3>1. sess[u] # s BY <1>9, <2>2
    <3>2. sess[u] \notin murky BY <1>2, <2>2
    <3>3. flag[sess[u]] = u /\ holds[u] = u /\ (u \in flipped <=> u \in stopped)
      BY <2>2, <3>2 DEF Flagged
    <3> QED BY <1>2, <3>1, <3>3
  <2> QED BY <1>2, <1>3, <1>4, <2>1, <2>2
<1> QED BY <1>6, <1>7, <1>8, <1>10, <1>11 DEF Flagged

\* A turn that ends takes the flag of its session with it.
LEMMA FlaggedLeave ==
  ASSUME TypeOK, Placed, Flagged, NEW t \in Turns, Leave(t) PROVE Flagged'
<1> DEFINE s == sess[t]
<1>1. /\ DOMAIN pc = Turns /\ DOMAIN sess = Turns /\ DOMAIN holds = Turns /\ DOMAIN flag = Sessions
      /\ None \notin Turns
  BY TurnAssumption DEF TypeOK
<1>2. /\ pc[t] \in {"stored", "leaving"} /\ pc'[t] \in {"over", "done"}
      /\ flag' = [flag EXCEPT ![s] = None] /\ stopped' = stopped \ {t} /\ UNCHANGED flipped
      /\ murky' = IF \E u \in Turns \ {t} : Running(u) /\ sess[u] = s THEN murky ELSE murky \ {s}
      /\ \A u \in Turns \ {t} : pc'[u] = pc[u] /\ sess'[u] = sess[u] /\ holds'[u] = holds[u]
  BY <1>1 DEF Leave, Goto, Released, EndRun, EndTurn, Clean, request
<1>3. s \in Sessions BY <1>2 DEF Placed, InTurn
<1>4. Running(t) /\ ~Running(t)' /\ \A u \in Turns \ {t} : Running(u)' <=> Running(u)
  BY <1>2 DEF Running
<1>5. flag'[s] = None /\ \A z \in Sessions \ {s} : flag'[z] = flag[z] BY <1>1, <1>2, <1>3
<1> HIDE DEF s
<1>6. \A z \in Sessions : flag[z] # None => flag[z] \in Turns BY DEF TypeOK
<1>7. \A z \in Sessions : flag'[z] # None =>
        pc'[flag'[z]] # "idle" /\ (Running(flag[z])' => sess'[flag'[z]] = z)
  BY <1>2, <1>4, <1>5, <1>6 DEF Flagged
<1>8. \A u \in flipped' : pc'[u] # "idle" BY <1>2 DEF Flagged, TypeOK
<1>9. \A u \in stopped' : Running(u)' BY <1>2, <1>4 DEF Flagged, TypeOK
<1>10. s \notin murky' => \A u \in Turns \ {t} : Running(u) => sess[u] # s
  <2>1. ASSUME NEW u \in Turns \ {t}, Running(u), sess[u] = s PROVE s \in murky'
    <3>1. murky' = murky BY <1>2, <2>1
    <3>2. sess[t] = s BY DEF s
    <3> QED BY <1>3, <1>4, <2>1, <3>1, <3>2 DEF Flagged
  <2> QED BY <2>1
<1>11. \A z \in Sessions \ {s} : z \in murky' <=> z \in murky BY <1>2
<1>12. \A z \in Sessions \ murky' :
         /\ \A v, u \in Turns : Running(v)' /\ Running(u)' /\ sess'[v] = z /\ sess'[u] = z => v = u
         /\ (\A v \in Turns : Running(v)' => sess'[v] # z) => flag'[z] = None
  <2>2. ASSUME NEW z \in Sessions \ murky', z # s
        PROVE  /\ \A v, u \in Turns : Running(v)' /\ Running(u)' /\ sess'[v] = z /\ sess'[u] = z => v = u
               /\ (\A v \in Turns : Running(v)' => sess'[v] # z) => flag'[z] = None
    <3>1. z \notin murky /\ flag'[z] = flag[z] /\ sess[t] # z BY <1>5, <1>11, <2>2 DEF s
    <3> QED BY <1>2, <1>4, <3>1 DEF Flagged
  <2> QED BY <1>2, <1>4, <1>5, <1>10, <2>2
<1>13. \A u \in Turns : Running(u)' /\ sess'[u] \notin murky' =>
         holds'[u] = u /\ flag'[sess'[u]] = u /\ (u \in flipped' <=> u \in stopped')
  <2>1. ASSUME NEW u \in Turns \ {t}, Running(u), sess[u] \notin murky'
        PROVE  holds[u] = u /\ flag'[sess[u]] = u /\ (u \in flipped <=> u \in stopped)
    <3>1. sess[u] # s BY <1>10, <2>1
    <3>2. sess[u] \in Sessions \ {s} /\ sess[u] \notin murky
      BY <1>2, <2>1, <3>1 DEF Flagged, Placed, Running, InTurn
    <3> QED BY <1>5, <2>1, <3>2 DEF Flagged
  <2> QED BY <1>2, <1>4, <2>1
<1> QED BY <1>7, <1>8, <1>9, <1>12, <1>13 DEF Flagged

LEMMA FlaggedStep ==
  ASSUME TypeOK, Placed, AgentsConsulted, Flagged, [Next]_vars PROVE Flagged'
<1> USE DEF service, request, history, locals
<1>0. /\ DOMAIN pc = Turns /\ DOMAIN sess = Turns /\ DOMAIN holds = Turns /\ DOMAIN flag = Sessions
  BY DEF TypeOK
<1>1. ASSUME NEW t \in Turns, Proceed(t) PROVE Flagged'
  <2>1. ASSUME NEW k \in DOMAIN calls[t], Collect(t, k) PROVE Flagged'
    <3>1. PICK c \in Turns : c = calls[t][k].agent BY <2>1 DEF Collect, AgentsConsulted
    <3>2. /\ pc[c] = "over" /\ pc'[c] = "done"
          /\ UNCHANGED <<holds, flag, flipped, stopped, murky>>
          /\ \A u \in Turns \ {c} : pc'[u] = pc[u] /\ sess'[u] = sess[u]
      BY <1>0, <2>1, <3>1 DEF Collect, Goto, EndTurn, Clean
    <3>3. \A u \in Turns : /\ Running(u)' <=> Running(u)
                           /\ pc[u] # "idle" => pc'[u] # "idle"
                           /\ Running(u) => sess'[u] = sess[u]
      BY <3>1, <3>2 DEF Running
    <3> QED BY <3>2, <3>3, FlaggedKept
  <2>2. ASSUME NEW k \in DOMAIN calls[t], NEW c \in Turns, NEW s \in Sessions, Spawn(t, k, c, s)
        PROVE  Flagged'
    <3>1. PICK diagnostic \in {a.diagnostic : a \in Asks} :
            Start(c, s, ChildAsk(t, diagnostic), root[t], iso[sess[t]].depth + 1, Inherits(t), seen[t])
      BY <2>2 DEF Spawn
    <3>2. UNCHANGED <<flipped, stopped>> BY <2>2 DEF Spawn
    <3> QED BY <3>1, <3>2, FlaggedStart
  <2>3. CASE Works(t)
    <3>1. Alone(t) BY <2>3, StepsAlone
    <3>2. UNCHANGED <<holds, flag, flipped, stopped, murky>> BY <3>1 DEF Alone
    <3>3. \A u \in Turns : /\ Running(u)' <=> Running(u)
                           /\ pc[u] # "idle" => pc'[u] # "idle"
                           /\ Running(u) => sess'[u] = sess[u]
      BY <3>1 DEF Alone, Running
    <3> QED BY <3>2, <3>3, FlaggedKept
  <2> QED BY <1>1, <2>1, <2>2, <2>3, FlaggedLeave DEF Proceed, Works
<1>2. ASSUME NEW t \in Turns, NEW s \in Sessions, NEW a \in Asks, Open(t, s, a) PROVE Flagged'
  <2>1. Start(t, s, a, t, a.depth, FALSE, "no") /\ UNCHANGED <<flipped, stopped>> BY <1>2 DEF Open
  <2> QED BY <2>1, FlaggedStart
<1>3. ASSUME NEW t \in Turns, HangUp(t) PROVE Flagged'
  <2> DEFINE D == Dropped(t)
             M == {sess[u] : u \in {v \in D : Running(v)}}
  <2>1. /\ \A u \in Turns \ D : pc'[u] = pc[u] /\ sess'[u] = sess[u] /\ holds'[u] = holds[u]
        /\ \A u \in Turns : u \in D => pc'[u] = "done"
        /\ UNCHANGED <<flag, flipped>> /\ stopped' = stopped \ D /\ murky' = murky \union M
    BY <1>0, <1>3 DEF HangUp, EndRun, EndTurn, Clean
  <2>2. \A u \in Turns : u \in D /\ Running(u) => sess[u] \in M OBVIOUS
  <2> HIDE DEF D, M
  <2>3. /\ \A u \in Turns : u \in D => ~Running(u)'
        /\ \A u \in Turns \ D : Running(u)' <=> Running(u)
    BY <2>1 DEF Running
  <2>4. \A z \in Sessions : flag[z] # None => flag[z] \in Turns BY DEF TypeOK
  <2>5. \A z \in Sessions : flag'[z] # None =>
          pc'[flag'[z]] # "idle" /\ (Running(flag[z])' => sess'[flag'[z]] = z)
    BY <2>1, <2>3, <2>4 DEF Flagged
  <2>6. \A u \in flipped' : pc'[u] # "idle" BY <2>1 DEF Flagged, TypeOK
  <2>7. \A u \in stopped' : Running(u)' BY <2>1, <2>3 DEF Flagged, TypeOK
  <2>8. \A z \in Sessions \ murky' :
          /\ \A v, u \in Turns : Running(v)' /\ Running(u)' /\ sess'[v] = z /\ sess'[u] = z => v = u
          /\ (\A v \in Turns : Running(v)' => sess'[v] # z) => flag'[z] = None
    <3> SUFFICES ASSUME NEW z \in Sessions, z \notin murky'
                 PROVE  /\ \A v, u \in Turns : Running(v)' /\ Running(u)' /\ sess'[v] = z
                                               /\ sess'[u] = z => v = u
                        /\ (\A v \in Turns : Running(v)' => sess'[v] # z) => flag'[z] = None
      OBVIOUS
    <3>1. z \notin murky /\ \A u \in Turns : Running(u) /\ sess[u] = z => u \notin D BY <2>1, <2>2
    <3>2. \A u \in Turns : Running(u) /\ sess[u] = z <=> Running(u)' /\ sess'[u] = z
      BY <2>1, <2>3, <3>1
    <3> QED BY <2>1, <3>1, <3>2 DEF Flagged
  <2>9. \A u \in Turns : Running(u)' /\ sess'[u] \notin murky' =>
          holds'[u] = u /\ flag'[sess'[u]] = u /\ (u \in flipped' <=> u \in stopped')
    BY <2>1, <2>3 DEF Flagged
  <2> QED BY <2>5, <2>6, <2>7, <2>8, <2>9 DEF Flagged
<1>4. ASSUME NEW s \in Sessions, Stop(s) PROVE Flagged'
  <2>1. /\ flag[s] # None /\ flipped' = flipped \union {flag[s]}
        /\ stopped' = stopped \union {t \in Turns : Running(t) /\ sess[t] = s}
        /\ UNCHANGED <<pc, sess, holds, flag, murky>>
    BY <1>4 DEF Stop
  <2>2. pc[flag[s]] # "idle" /\ (Running(flag[s]) => sess[flag[s]] = s) BY <2>1 DEF Flagged
  <2>3. \A u \in flipped' : pc'[u] # "idle" BY <2>1, <2>2 DEF Flagged
  <2>4. \A u \in stopped' : Running(u)' BY <2>1 DEF Flagged, Running
  <2>5. \A u \in Turns : Running(u) /\ sess[u] \notin murky =>
          holds[u] = u /\ flag[sess[u]] = u /\ (u \in flipped' <=> u \in stopped')
    BY <2>1, <2>2 DEF Flagged
  <2> QED BY <2>1, <2>3, <2>4, <2>5 DEF Flagged, Running
<1>5. CASE (\E s \in Sessions : Clear(s)) \/ UNCHANGED vars
           \/ \E c \in Creds, st \in {"enabled", "paused", "missing"} : SetStatus(c, st)
  <2>1. UNCHANGED <<pc, sess, holds, flag, flipped, stopped, murky>>
    BY <1>5 DEF Clear, SetStatus, vars
  <2> QED BY <2>1 DEF Flagged, Running
<1>6. CASE Restart
  <2>1. /\ \A u \in Turns : pc'[u] \in {"idle", "done"}
        /\ \A s \in Sessions : flag'[s] = None
        /\ flipped' = {} /\ stopped' = stopped \ {t \in Turns : pc[t] # "idle"}
    BY <1>0, <1>6 DEF Restart, EndRun, Clean
  <2>2. stopped' = {} BY <2>1 DEF Flagged, Running, TypeOK
  <2> QED BY <2>1, <2>2 DEF Flagged, Running
<1> QED BY <1>1, <1>2, <1>3, <1>4, <1>5, <1>6 DEF Next, Operate
-----------------------------------------------------------------------------
(* Taint.                                                                  *)

\* What a turn by itself reads marks its session before anything else is run.
LEMMA TaintedAlone ==
  ASSUME TypeOK, Placed, Tainted, NEW t \in Turns, Works(t) PROVE Tainted'
<1> USE DEF service, request, history, locals
<1>0. /\ DOMAIN pc = Turns /\ DOMAIN seen = Turns /\ DOMAIN dirty = Sessions /\ DOMAIN calls = Turns
  BY DEF TypeOK
<1>1. /\ \A u \in Turns \ {t} : pc'[u] = pc[u] /\ seen'[u] = seen[u] /\ calls'[u] = calls[u]
      /\ UNCHANGED sess /\ taint \subseteq taint' /\ Running(t)
  BY StepsAlone DEF Alone
<1>2. sess[t] \in Sessions BY <1>1 DEF Placed, Running, InTurn
<1>3. seen'[t] = "direct" => sess[t] \in taint'
  <2>1. CASE ReadHistory(t)
    <3>1. seen'[t] = Worse(seen[t], dirty[sess[t]]) BY <1>0, <2>1 DEF ReadHistory
    <3>2. seen'[t] = "direct" => "direct" \in {seen[t], dirty[sess[t]]} BY <3>1 DEF Worse, Foremost
    <3> QED BY <1>1, <1>2, <3>2 DEF Tainted
  <2>2. CASE Join(t)
    <3>1. /\ seen' = [seen EXCEPT ![t] = Worse(seen[t], Foremost(Content(t)))]
          /\ taint' = IF "direct" \in Content(t) THEN taint \union {sess[t]} ELSE taint
      BY <2>2, Zenon DEF Join
    <3>2. \A W : Foremost(W) = "direct" => "direct" \in W BY DEF Foremost
    <3>3. seen'[t] = "direct" => seen[t] = "direct" \/ "direct" \in Content(t)
      BY <1>0, <3>1, <3>2 DEF Worse
    <3> QED BY <1>1, <3>1, <3>3 DEF Tainted
  <2>3. CASE \/ Skip(t) \/ Unreadable(t) \/ Refuse(t)
             \/ Resolve(t) \/ NoCredential(t) \/ Stream(t) \/ Breaks(t)
             \/ CallFails(t) \/ Answered(t) \/ Silent(t) \/ Review(t) \/ Insert(t) \/ InsertFails(t)
             \/ (\E b \in Batches : StartBatch(t, b))
             \/ \E k \in DOMAIN calls[t], fate \in {"ok", "failed"}, how \in Hows : Reply(t, k, fate, how)
    <3>1. UNCHANGED seen
      BY <2>3 DEF Skip, Unreadable, Refuse, Resolve, NoCredential, Stream,
                  Breaks, CallFails, Answered, Silent,
                  Review, Insert, InsertFails, StartBatch, Reply
    <3> QED BY <1>1, <3>1 DEF Tainted
  <2> QED BY <2>1, <2>2, <2>3 DEF Works
<1>4. \A s \in Sessions : dirty'[s] = "direct" => s \in taint'
  <2>1. CASE Insert(t) \/ InsertFails(t)
    <3>1. UNCHANGED dirty \/ dirty' = [dirty EXCEPT ![sess[t]] = Worse(dirty[sess[t]], seen[t])]
      BY <2>1 DEF Insert, InsertFails
    <3>2. \A s \in Sessions : dirty'[s] = "direct" =>
            dirty[s] = "direct" \/ (s = sess[t] /\ seen[t] = "direct")
      BY <1>0, <1>2, <3>1 DEF Worse, Foremost
    <3> QED BY <1>1, <3>2 DEF Tainted
  <2>2. CASE \/ ReadHistory(t) \/ Skip(t) \/ Unreadable(t) \/ Refuse(t)
             \/ Resolve(t) \/ NoCredential(t) \/ Stream(t)
             \/ Breaks(t) \/ CallFails(t) \/ Answered(t) \/ Silent(t) \/ Review(t) \/ Join(t)
             \/ (\E b \in Batches : StartBatch(t, b))
             \/ \E k \in DOMAIN calls[t], fate \in {"ok", "failed"}, how \in Hows : Reply(t, k, fate, how)
    <3>1. UNCHANGED dirty
      BY <2>2 DEF ReadHistory, Skip, Unreadable, Refuse, Resolve, NoCredential, Stream,
                  Breaks, CallFails,
                  Answered, Silent, Review, Join, StartBatch, Reply
    <3> QED BY <1>1, <3>1 DEF Tainted
  <2> QED BY <2>1, <2>2 DEF Works
<1>5. \A u \in Turns : Running(u)' /\ seen'[u] = "direct" => sess'[u] \in taint'
  BY <1>1, <1>3 DEF Tainted, Running
<1> QED BY <1>4, <1>5 DEF Tainted

LEMMA TaintedStart ==
  ASSUME TypeOK, Tainted, NEW t \in Turns, NEW s \in Sessions, NEW a, NEW top, NEW d,
         NEW inherited \in BOOLEAN, NEW how, Start(t, s, a, top, d, inherited, how),
         how = "direct" => inherited, UNCHANGED dirty
  PROVE  /\ \A u \in Turns : Running(u)' /\ seen'[u] = "direct" => sess'[u] \in taint'
         /\ \A z \in Sessions : dirty'[z] = "direct" => z \in taint'
<1>1. DOMAIN pc = Turns /\ DOMAIN seen = Turns /\ DOMAIN sess = Turns BY DEF TypeOK
<1>2. /\ sess'[t] = s /\ taint' = Mark(s, a, inherited)
      /\ seen'[t] = IF a.web THEN "direct" ELSE how
      /\ \A u \in Turns \ {t} : pc'[u] = pc[u] /\ sess'[u] = sess[u] /\ seen'[u] = seen[u]
  BY <1>1 DEF Start, Goto
<1>3. taint \subseteq taint' BY <1>2 DEF Mark
<1>4. seen'[t] = "direct" => s \in taint' BY <1>2 DEF Mark
<1>5. \A u \in Turns : Running(u)' /\ seen'[u] = "direct" => sess'[u] \in taint'
  BY <1>2, <1>3, <1>4 DEF Tainted, Running
<1> QED BY <1>3, <1>5 DEF Tainted

\* Where taint is shed, what was read is forgotten, too.
LEMMA TaintedShed ==
  ASSUME Tainted, NEW S \in SUBSET Sessions, taint' = taint \ S,
         \A u \in Turns : Running(u)' =>
           Running(u) /\ sess'[u] = sess[u] /\ seen'[u] = IF sess[u] \in S THEN "no" ELSE seen[u],
         \A s \in Sessions : dirty'[s] = IF s \in S THEN "no" ELSE dirty[s]
  PROVE  Tainted'
<1>1. \A u \in Turns : Running(u)' /\ seen'[u] = "direct" => sess'[u] \in taint' BY DEF Tainted
<1>2. \A s \in Sessions : dirty'[s] = "direct" => s \in taint' BY DEF Tainted
<1> QED BY <1>1, <1>2 DEF Tainted

LEMMA TaintedStep ==
  ASSUME TypeOK, Placed, AgentsConsulted, Tainted, [Next]_vars PROVE Tainted'
<1> USE DEF service, request, history, locals
<1>0. /\ DOMAIN pc = Turns /\ DOMAIN sess = Turns /\ DOMAIN seen = Turns /\ DOMAIN calls = Turns
      /\ DOMAIN dirty = Sessions
  BY DEF TypeOK
<1>1. ASSUME NEW t \in Turns, Proceed(t) PROVE Tainted'
  <2>1. ASSUME NEW k \in DOMAIN calls[t], Collect(t, k) PROVE Tainted'
    <3>1. PICK c \in Turns : c = calls[t][k].agent BY <2>1 DEF Collect, AgentsConsulted
    <3>2. /\ pc'[c] = "done" /\ taint \subseteq taint' /\ UNCHANGED dirty
          /\ \A u \in Turns \ {c} : pc'[u] = pc[u] /\ sess'[u] = sess[u] /\ seen'[u] = seen[u]
      <4>1. pc'[c] = "done" /\ taint \subseteq taint' /\ UNCHANGED dirty
        BY <1>0, <2>1, <3>1 DEF Collect, Goto
      <4>2. \A u \in Turns \ {c} : pc'[u] = pc[u] /\ sess'[u] = sess[u] /\ seen'[u] = seen[u]
        BY <1>0, <2>1, <3>1 DEF Collect, Goto, EndTurn, Clean
      <4> QED BY <4>1, <4>2
    <3>3. \A u \in Turns : Running(u)' /\ seen'[u] = "direct" => sess'[u] \in taint'
      BY <3>2 DEF Tainted, Running
    <3> QED BY <3>2, <3>3 DEF Tainted
  <2>2. ASSUME NEW k \in DOMAIN calls[t], NEW c \in Turns, NEW s \in Sessions, Spawn(t, k, c, s)
        PROVE  Tainted'
    <3>1. PICK diagnostic \in {a.diagnostic : a \in Asks} :
            Start(c, s, ChildAsk(t, diagnostic), root[t], iso[sess[t]].depth + 1, Inherits(t), seen[t])
      BY <2>2 DEF Spawn
    <3>2. UNCHANGED dirty /\ pc[t] = "batch" BY <2>2 DEF Spawn
    <3>3. seen[t] = "direct" => Inherits(t) BY <3>2 DEF Tainted, Running, Inherits
    <3>4. Inherits(t) \in BOOLEAN BY DEF Inherits
    <3>5. /\ \A u \in Turns : Running(u)' /\ seen'[u] = "direct" => sess'[u] \in taint'
          /\ \A z \in Sessions : dirty'[z] = "direct" => z \in taint'
      <4> HIDE DEF Start, Inherits
      <4> QED BY <3>1, <3>2, <3>3, <3>4, TaintedStart
    <3> QED BY <3>5 DEF Tainted
  <2>3. CASE Leave(t)
    <3> DEFINE S == IF depth[t] > 0 THEN {sess[t]} ELSE {}
    <3>1. pc[t] \in {"stored", "leaving"} /\ pc'[t] \in {"over", "done"} BY <1>0, <2>3 DEF Leave, Goto
    <3>2. sess[t] \in Sessions BY <3>1 DEF Placed, InTurn
    <3>3. /\ \A u \in Turns \ {t} : pc'[u] = pc[u] /\ sess'[u] = sess[u]
               /\ seen'[u] = IF sess[u] \in S THEN "no" ELSE seen[u]
          /\ taint' = taint \ S /\ \A s \in Sessions : dirty'[s] = IF s \in S THEN "no" ELSE dirty[s]
      BY <1>0, <2>3 DEF Leave, Unguard, EndRun, EndTurn, Clean, Goto
    <3>4. \A u \in Turns : Running(u)' => Running(u) /\ sess'[u] = sess[u]
                                          /\ seen'[u] = IF sess[u] \in S THEN "no" ELSE seen[u]
      BY <3>1, <3>3 DEF Running
    <3>5. S \in SUBSET Sessions BY <3>2
    <3> HIDE DEF S
    <3> QED BY <3>3, <3>4, <3>5, TaintedShed
  <2> QED BY <1>1, <2>1, <2>2, <2>3, TaintedAlone DEF Proceed, Works
<1>2. ASSUME NEW t \in Turns, NEW s \in Sessions, NEW a \in Asks, Open(t, s, a) PROVE Tainted'
  <2>1. Start(t, s, a, t, a.depth, FALSE, "no") /\ UNCHANGED dirty BY <1>2 DEF Open
  <2>2. PICK none \in BOOLEAN : none = FALSE OBVIOUS
  <2>3. /\ \A u \in Turns : Running(u)' /\ seen'[u] = "direct" => sess'[u] \in taint'
        /\ \A z \in Sessions : dirty'[z] = "direct" => z \in taint'
    <3>1. Start(t, s, a, t, a.depth, none, "no") BY <2>1, <2>2, Zenon
    <3>2. "no" = "direct" => none OBVIOUS
    <3> QED BY <2>1, <2>2, <3>1, <3>2, TaintedStart
  <2> QED BY <2>3 DEF Tainted
<1>3. ASSUME NEW t \in Turns, HangUp(t) PROVE Tainted'
  <2> DEFINE D == Dropped(t)
             S == {sess[u] : u \in {v \in D : Running(v) /\ depth[v] > 0}}
  <2>1. /\ \A u \in Turns \ D : pc'[u] = pc[u] /\ sess'[u] = sess[u]
             /\ seen'[u] = IF sess[u] \in S THEN "no" ELSE seen[u]
        /\ \A u \in Turns : u \in D => pc'[u] = "done"
        /\ taint' = taint \ S /\ \A s \in Sessions : dirty'[s] = IF s \in S THEN "no" ELSE dirty[s]
    BY <1>0, <1>3 DEF HangUp, Unguard, EndRun, EndTurn, Clean
  <2>2. S \in SUBSET Sessions BY DEF Placed, Running, InTurn, Dropped
  <2> HIDE DEF D, S
  <2>3. \A u \in Turns : Running(u)' => Running(u) /\ sess'[u] = sess[u]
                                        /\ seen'[u] = IF sess[u] \in S THEN "no" ELSE seen[u]
    BY <2>1 DEF Running
  <2> QED BY <2>1, <2>2, <2>3, TaintedShed
<1>4. ASSUME NEW s \in Sessions, Clear(s) PROVE Tainted'
  <2>1. taint' = taint \ {s} /\ UNCHANGED <<pc, sess>> BY <1>4 DEF Clear
  <2>2. \A u \in Turns : Running(u)' => Running(u) /\ sess'[u] = sess[u]
                                        /\ seen'[u] = IF sess[u] \in {s} THEN "no" ELSE seen[u]
    BY <1>4, <2>1 DEF Clear, Running
  <2>3. \A z \in Sessions : dirty'[z] = IF z \in {s} THEN "no" ELSE dirty[z] BY <1>0, <1>4 DEF Clear
  <2> QED BY <2>1, <2>2, <2>3, TaintedShed
<1>5. CASE (\E s \in Sessions : Stop(s)) \/ UNCHANGED vars
           \/ \E c \in Creds, st \in {"enabled", "paused", "missing"} : SetStatus(c, st)
  <2>1. UNCHANGED <<pc, sess, taint, seen, dirty>> BY <1>5 DEF Stop, SetStatus, vars
  <2> QED BY <2>1 DEF Tainted, Running
<1>6. CASE Restart
  <2>1. /\ \A u \in Turns : pc'[u] \in {"idle", "done"}
        /\ \A s \in Sessions : dirty'[s] = "no"
    BY <1>0, <1>6 DEF Restart, Unguard, Clean
  <2> QED BY <2>1 DEF Tainted, Running
<1> QED BY <1>1, <1>2, <1>3, <1>4, <1>5, <1>6 DEF Next, Operate

\* A batch is started by the turn itself, with the taint of its session before it.
LEMMA GatedStep ==
  ASSUME TypeOK, Placed, AgentsConsulted, Tainted, [Next]_vars,
         NEW t \in Turns, pc[t] = "call", pc'[t] = "batch", seen[t] = "direct"
  PROVE  \A k \in DOMAIN calls'[t] :
           calls'[t][k].tool \in Sensitive => calls'[t][k].fate # "run"
<1> USE DEF service, request, history, locals
<1>0. DOMAIN pc = Turns /\ Running(t) /\ sess[t] \in taint BY DEF TypeOK, Running, Tainted
<1>1. CASE Works(t)
  <2>1. ASSUME NEW b \in Batches, StartBatch(t, b), ~Cancelled(t)
        PROVE  \A k \in DOMAIN calls'[t] :
                 calls'[t][k].tool \in Sensitive => calls'[t][k].fate # "run"
    <3>1. \A k \in DOMAIN calls'[t] : calls'[t][k].tool = b[k] /\ calls'[t][k].fate = Fate(t, b, k)
      BY <2>1, BatchAt
    <3>2. \A k : b[k] \in Sensitive => Fate(t, b, k) \in {"repeated", "gated"}
      BY <1>0 DEF Fate, Gated
    <3> QED BY <3>1, <3>2
  <2>2. ASSUME NEW k \in DOMAIN calls[t], NEW fate \in {"ok", "failed"}, NEW how \in Hows,
               Reply(t, k, fate, how)
        PROVE  FALSE
    BY <2>2 DEF Reply
  <2> QED BY <1>1, <2>1, <2>2, CallsAlone
<1>2. ASSUME NEW u \in Turns, u # t, Works(u) PROVE FALSE
  <2>1. Alone(u) BY <1>2, StepsAlone
  <2> QED BY <1>2, <2>1 DEF Alone
<1>3. ASSUME NEW u \in Turns, NEW k \in DOMAIN calls[u], Collect(u, k) PROVE FALSE
  <2>1. PICK c \in Turns : c = calls[u][k].agent BY <1>3 DEF Collect, AgentsConsulted
  <2> QED BY <1>0, <1>3, <2>1 DEF Collect, Goto
<1>4. ASSUME NEW u \in Turns, NEW k \in DOMAIN calls[u], NEW c \in Turns, NEW s \in Sessions,
             Spawn(u, k, c, s)
      PROVE  FALSE
  BY <1>0, <1>4 DEF Spawn, Start, Goto
<1>5. ASSUME NEW u \in Turns, Leave(u) PROVE FALSE BY <1>0, <1>5 DEF Leave, Goto
<1>6. ASSUME NEW u \in Turns, HangUp(u) PROVE FALSE BY <1>0, <1>6 DEF HangUp, Clean
<1>7. ASSUME NEW u \in Turns, NEW s \in Sessions, NEW a \in Asks, Open(u, s, a) PROVE FALSE
  BY <1>0, <1>7 DEF Open, Start, Goto
<1>8. CASE Operate \/ UNCHANGED vars
  <2>1. UNCHANGED pc BY <1>8 DEF Operate, Stop, Clear, SetStatus, vars
  <2> QED BY <2>1
<1>9. CASE Restart BY <1>0, <1>9 DEF Restart, Clean
<1> QED BY <1>1, <1>2, <1>3, <1>4, <1>5, <1>6, <1>7, <1>8, <1>9 DEF Next, Proceed, Works
-----------------------------------------------------------------------------
(* Rows.                                                                   *)

Early == {"idle", "history", "resolve", "stream", "call", "batch", "review", "insert"}

\* What becomes of turn t while no row is written.
Moved(t) ==
  \/ pc'[t] = pc[t] /\ answer'[t] = answer[t]
  \/ pc[t] \in Early /\ pc'[t] \in Early /\ answer'[t] = answer[t]
  \/ pc[t] \in Early /\ pc'[t] = "leaving" /\ answer'[t] \in {"failed", "cancelled"}
  \/ pc[t] = "stored" /\ pc'[t] \in {"over", "done"} /\ answer'[t] = "ok"
  \/ pc[t] = "leaving" /\ pc'[t] \in {"over", "done"} /\ answer'[t] = answer[t]
  \/ pc[t] = "over" /\ pc'[t] = "done" /\ answer'[t] = answer[t]
  \/ pc'[t] = "done" /\ answer'[t] = "lost"

LEMMA RowsKept ==
  ASSUME RowsPlaced, UNCHANGED <<rows, torn>>, \A t \in Turns : Moved(t),
         \A s \in Sessions : count[s] # None => count'[s] = count[s], TypeOK
  PROVE  RowsPlaced'
<1>1. \A t \in Turns : pc'[t] \in Early => answer'[t] = "none" /\ \A r \in rows' : r.turn # t
  BY DEF RowsPlaced, Moved, Early
<1>2. \A t \in Turns : pc'[t] = "stored" =>
        answer'[t] = "none" /\ \E r \in rows' : {q \in rows' : q.turn = t} = {r}
  BY DEF RowsPlaced, Moved, Early
<1>3. \A t \in Turns : answer'[t] = "ok" => \E r \in rows' : {q \in rows' : q.turn = t} = {r}
  BY DEF RowsPlaced, Moved, Early
<1>4. \A t \in Turns : pc'[t] = "leaving" => answer'[t] \in {"failed", "cancelled"}
  BY DEF RowsPlaced, Moved, Early
<1>5. \A t \in Turns : answer'[t] \in {"failed", "cancelled"} /\ t \notin torn' =>
        \A r \in rows' : r.turn # t
  BY DEF RowsPlaced, Moved, Early
<1>6. \A r \in rows : r.session \in Sessions /\ count[r.session] # None
  BY DEF RowsPlaced, TypeOK
<1>7. \A r \in rows' : count'[r.session] # None BY <1>6
<1>8. \A r \in rows' : count'[r.session] <= r.index =>
        \E o \in rows' : o.session = r.session /\ o.turn \in torn'
  BY <1>6 DEF RowsPlaced
<1>9. OneRowPerAnswer'
  <2>1. ASSUME NEW t \in Turns, answer'[t] = "ok" PROVE Cardinality({r \in rows' : r.turn = t}) = 1
    <3>1. PICK r \in rows' : {q \in rows' : q.turn = t} = {r} BY <1>3, <2>1
    <3> QED BY <3>1, FS_Singleton
  <2> QED BY <1>5, <2>1 DEF RowsPlaced, OneRowPerAnswer
<1> QED BY <1>1, <1>2, <1>3, <1>4, <1>5, <1>7, <1>8, <1>9 DEF RowsPlaced, Early

\* The row of turn t is written, and is the only one of t: its turn_count follows,
\* or the insert breaks off before it does.
LEMMA RowsInsert ==
  ASSUME TypeOK, Placed, RowsPlaced, NEW t \in Turns,
         \/ Insert(t)
         \/ InsertFails(t) /\ ~UNCHANGED <<rows, torn, dirty>>
  PROVE  RowsPlaced'
<1> DEFINE r == Row(t)
           s == sess[t]
<1> USE DEF locals
<1>0. DOMAIN pc = Turns /\ DOMAIN answer = Turns BY DEF TypeOK
<1>1. pc[t] = "insert" BY DEF Insert, InsertFails
<1>2. s \in Sessions /\ count[s] \in Nat BY <1>1 DEF Placed, InTurn, TypeOK
<1>3. r.turn = t /\ r.session = s /\ r.index = count[s] BY DEF Row
<1>4. rows' = rows \union {r} BY Zenon DEF Insert, InsertFails
<1>5. answer[t] = "none" /\ \A q \in rows : q.turn # t BY <1>1 DEF RowsPlaced
<1>6. \/ /\ pc'[t] = "stored" /\ answer'[t] = "none" /\ UNCHANGED torn
         /\ count' = [count EXCEPT ![s] = count[s] + 1]
      \/ /\ pc'[t] = "leaving" /\ answer'[t] = "failed" /\ torn' = torn \union {t}
         /\ UNCHANGED count
  <2>1. CASE Insert(t) BY <1>0, <1>5, <2>1 DEF Insert, Bumped, Goto
  <2>2. CASE InsertFails(t) /\ ~UNCHANGED <<rows, torn, dirty>>
    BY <1>0, <2>2 DEF InsertFails, Abort, Goto
  <2> QED BY <2>1, <2>2
<1>7. \A u \in Turns \ {t} : pc'[u] = pc[u] /\ answer'[u] = answer[u]
  BY <1>0 DEF Insert, InsertFails, Abort, Goto
<1>8. \A q \in rows : q.session \in Sessions /\ q.index \in Nat /\ count[q.session] # None
  BY DEF RowsPlaced, TypeOK
<1>9. count'[s] \in Nat /\ count[s] <= count'[s] /\ (r.index < count'[s] \/ t \in torn')
      /\ \A z \in Sessions \ {s} : count'[z] = count[z]
  BY <1>2, <1>3, <1>6 DEF TypeOK
<1> HIDE DEF r, s
<1>10. torn \subseteq torn' /\ \A u \in Turns \ {t} : u \in torn' <=> u \in torn BY <1>6
<1>11. {q \in rows' : q.turn = t} = {r} BY <1>3, <1>4, <1>5
<1>12. \A u \in Turns \ {t} : {q \in rows' : q.turn = u} = {q \in rows : q.turn = u} BY <1>3, <1>4
<1>13. \A u \in Turns : pc'[u] \in Early => answer'[u] = "none" /\ \A q \in rows' : q.turn # u
  BY <1>3, <1>4, <1>6, <1>7 DEF RowsPlaced, Early
<1>14. \A u \in Turns : pc'[u] = "stored" =>
         answer'[u] = "none" /\ \E o \in rows' : {q \in rows' : q.turn = u} = {o}
  <2>1. pc'[t] = "stored" => answer'[t] = "none" BY <1>6
  <2> QED BY <1>4, <1>7, <1>11, <1>12, <2>1 DEF RowsPlaced
<1>15. \A u \in Turns : answer'[u] = "ok" => \E o \in rows' : {q \in rows' : q.turn = u} = {o}
  <2>1. answer'[t] # "ok" BY <1>6
  <2> QED BY <1>4, <1>7, <1>12, <2>1 DEF RowsPlaced
<1>16. \A u \in Turns : pc'[u] = "leaving" => answer'[u] \in {"failed", "cancelled"}
  BY <1>6, <1>7 DEF RowsPlaced
<1>17. \A u \in Turns : answer'[u] \in {"failed", "cancelled"} /\ u \notin torn' =>
         \A q \in rows' : q.turn # u
  <2>1. answer'[t] \in {"failed", "cancelled"} => t \in torn' BY <1>6
  <2> QED BY <1>3, <1>4, <1>7, <1>10, <2>1 DEF RowsPlaced
<1>18. \A q \in rows' : count'[q.session] # None
  <2>1. None \notin Nat BY TurnAssumption
  <2> QED BY <1>3, <1>4, <1>8, <1>9, <2>1
<1>19. ASSUME NEW q \in rows, count[q.session] <= q.index
       PROVE  \E o \in rows' : o.session = q.session /\ o.turn \in torn'
  <2>1. PICK o \in rows : o.session = q.session /\ o.turn \in torn BY <1>19 DEF RowsPlaced
  <2> QED BY <1>4, <1>10, <2>1
<1>20. \A q \in rows' : count'[q.session] <= q.index =>
         \E o \in rows' : o.session = q.session /\ o.turn \in torn'
  <2>1. ASSUME NEW q \in rows, count'[q.session] <= q.index PROVE count[q.session] <= q.index
    <3>1. CASE q.session = s BY <1>2, <1>8, <1>9, <2>1, <3>1
    <3>2. CASE q.session # s BY <1>8, <1>9, <2>1, <3>2
    <3> QED BY <3>1, <3>2
  <2>2. count'[s] <= r.index => t \in torn' BY <1>2, <1>3, <1>9
  <2> QED BY <1>3, <1>4, <1>19, <2>1, <2>2
<1>21. OneRowPerAnswer'
  <2>1. ASSUME NEW u \in Turns, answer'[u] = "ok" PROVE Cardinality({q \in rows' : q.turn = u}) = 1
    <3>1. PICK o \in rows' : {q \in rows' : q.turn = u} = {o} BY <1>15, <2>1
    <3> QED BY <3>1, FS_Singleton
  <2>2. ASSUME NEW p \in rows', NEW q \in rows', p # q, p.session = q.session, p.index = q.index
        PROVE  \E o \in rows' : o.session = p.session /\ o.turn \in torn'
    <3>1. CASE p \in rows /\ q \in rows
      <4>1. PICK o \in rows : o.session = p.session /\ o.turn \in torn
        BY <2>2, <3>1 DEF RowsPlaced, OneRowPerAnswer
      <4> QED BY <1>4, <1>10, <4>1
    <3>2. ASSUME NEW z \in rows, z.session = s, z.index = r.index
          PROVE  \E o \in rows' : o.session = s /\ o.turn \in torn'
      <4>1. count[z.session] <= z.index BY <1>2, <1>3, <3>2
      <4> QED BY <1>19, <3>2, <4>1
    <3> QED BY <1>3, <1>4, <2>2, <3>1, <3>2
  <2> QED BY <1>17, <2>1, <2>2 DEF OneRowPerAnswer
<1> QED
  BY <1>13, <1>14, <1>15, <1>16, <1>17, <1>18, <1>20, <1>21 DEF RowsPlaced, Early

LEMMA RowsAlone ==
  ASSUME TypeOK, Placed, RowsPlaced, NEW t \in Turns, Works(t) PROVE RowsPlaced'
<1> USE DEF service, request, history, locals, Goto, Abort, AfterDraft, Early
<1>0. DOMAIN pc = Turns /\ DOMAIN answer = Turns BY DEF TypeOK
<1>1. \A u \in Turns \ {t} : pc'[u] = pc[u] /\ answer'[u] = answer[u] BY StepsAlone DEF Alone
<1>2. CASE Insert(t) BY <1>2, RowsInsert
<1>3. CASE InsertFails(t)
  <2>1. CASE UNCHANGED <<rows, torn, dirty>>
    <3>1. /\ pc[t] = "insert" /\ pc'[t] = "leaving" /\ answer'[t] = "failed" /\ UNCHANGED count
      BY <1>0, <1>3 DEF InsertFails
    <3>2. \A u \in Turns : Moved(u) BY <1>1, <3>1 DEF Moved
    <3> QED BY <2>1, <3>1, <3>2, RowsKept
  <2> QED BY <1>3, <2>1, RowsInsert
<1>4. CASE ~Insert(t) /\ ~InsertFails(t)
  <2>1. Moved(t)
    <3>1. CASE ReadHistory(t) BY <1>0, <3>1 DEF ReadHistory, Moved
    <3>2. CASE Skip(t) \/ Unreadable(t) BY <3>2 DEF Skip, Unreadable, Moved
    <3>3. CASE Refuse(t) \/ NoCredential(t) BY <1>0, <3>3 DEF Refuse, NoCredential, Moved
    <3>4. CASE Breaks(t) \/ Answered(t) \/ Review(t)
      BY <1>0, <3>4 DEF Breaks, Answered, Review, Moved
    <3>5. CASE Resolve(t)
      <4>1. pc[t] = "resolve" BY <3>5, Zenon DEF Resolve
      <4>2. \/ Goto(t, "stream") /\ UNCHANGED <<loop, answer>>
            \/ Iterate(t, [NoWork EXCEPT !.tools = ask[t].tools])
        BY <3>5, Zenon DEF Resolve
      <4> QED BY <1>0, <4>1, <4>2 DEF Iterate, Moved
    <3>6. CASE Stream(t) BY <1>0, <3>6 DEF Stream, Iterate, Moved
    <3>7. CASE Silent(t) BY <1>0, <3>7 DEF Silent, Iterate, Moved
    <3>8. CASE Join(t) BY <1>0, <3>8 DEF Join, Iterate, Moved
    <3>9. CASE CallFails(t)
      <4>1. pc[t] = "call" /\ (Abort(t, "failed") \/ UNCHANGED <<pc, answer>>)
        BY <3>9, Zenon DEF CallFails
      <4> QED BY <1>0, <4>1 DEF Moved
    <3>10. ASSUME NEW b \in Batches, StartBatch(t, b) PROVE Moved(t)
      <4>1. pc[t] = "call" /\ (Abort(t, "cancelled") \/ (Goto(t, "batch") /\ UNCHANGED answer))
        BY <3>10, Zenon DEF StartBatch
      <4> QED BY <1>0, <4>1 DEF Moved
    <3>11. ASSUME NEW k \in DOMAIN calls[t], NEW fate \in {"ok", "failed"}, NEW how \in Hows,
                  Reply(t, k, fate, how)
           PROVE  Moved(t)
      BY <3>11 DEF Reply, Moved
    <3> QED BY <1>4, <3>1, <3>2, <3>3, <3>4, <3>5, <3>6, <3>7, <3>8, <3>9, <3>10, <3>11 DEF Works
  <2>2. UNCHANGED <<rows, torn, count>>
    BY <1>4 DEF Works, ReadHistory, Skip, Unreadable, Refuse, Resolve, NoCredential, Stream,
                Breaks, CallFails,
                Answered, Silent, Review, Join, StartBatch, Reply
  <2>3. \A u \in Turns : Moved(u) BY <1>1, <2>1 DEF Moved
  <2> QED BY <2>2, <2>3, RowsKept
<1> QED BY <1>2, <1>3, <1>4

LEMMA RowsStep ==
  ASSUME TypeOK, Placed, AgentsConsulted, RowsPlaced, [Next]_vars PROVE RowsPlaced'
<1> USE DEF service, request, history, locals, Early
<1>0. DOMAIN pc = Turns /\ DOMAIN answer = Turns /\ DOMAIN count = Sessions BY DEF TypeOK
<1>1. ASSUME NEW t \in Turns, NEW s \in Sessions, NEW a, NEW top, NEW d, NEW inherited, NEW how,
             Start(t, s, a, top, d, inherited, how), UNCHANGED <<rows, torn, answer>>
      PROVE  RowsPlaced'
  <2>1. \A u \in Turns : Moved(u) BY <1>0, <1>1 DEF Start, Goto, Moved
  <2>2. \A z \in Sessions : count[z] # None => count'[z] = count[z] BY <1>0, <1>1 DEF Start
  <2> QED BY <1>1, <2>1, <2>2, RowsKept
<1>2. ASSUME NEW t \in Turns, Proceed(t) PROVE RowsPlaced'
  <2>1. ASSUME NEW k \in DOMAIN calls[t], Collect(t, k) PROVE RowsPlaced'
    <3>1. PICK c \in Turns : c = calls[t][k].agent BY <2>1 DEF Collect, AgentsConsulted
    <3>2. \A u \in Turns : Moved(u) BY <1>0, <2>1, <3>1 DEF Collect, Goto, Moved
    <3>3. UNCHANGED <<rows, torn, count>> BY <2>1 DEF Collect
    <3> QED BY <3>2, <3>3, RowsKept
  <2>2. ASSUME NEW k \in DOMAIN calls[t], NEW c \in Turns, NEW s \in Sessions, Spawn(t, k, c, s)
        PROVE  RowsPlaced'
    <3>1. PICK diagnostic \in {a.diagnostic : a \in Asks} :
            Start(c, s, ChildAsk(t, diagnostic), root[t], iso[sess[t]].depth + 1, Inherits(t), seen[t])
      BY <2>2 DEF Spawn
    <3>2. UNCHANGED <<rows, torn, answer>> BY <2>2 DEF Spawn
    <3> QED BY <1>1, <3>1, <3>2
  <2>3. CASE Leave(t)
    <3>1. \A u \in Turns : Moved(u)
      <4>1. pc[t] = "leaving" => answer[t] # "none" BY DEF RowsPlaced
      <4> QED BY <1>0, <2>3, <4>1 DEF Leave, Goto, Moved
    <3>2. UNCHANGED <<rows, torn, count>> BY <2>3 DEF Leave
    <3> QED BY <3>1, <3>2, RowsKept
  <2> QED BY <1>2, <2>1, <2>2, <2>3, RowsAlone DEF Proceed, Works
<1>3. ASSUME NEW t \in Turns, NEW s \in Sessions, NEW a \in Asks, Open(t, s, a) PROVE RowsPlaced'
  <2>1. Start(t, s, a, t, a.depth, FALSE, "no") /\ UNCHANGED <<rows, torn, answer>> BY <1>3 DEF Open
  <2> QED BY <1>1, <2>1
<1>4. ASSUME NEW t \in Turns, HangUp(t) PROVE RowsPlaced'
  <2>1. \A u \in Turns : Moved(u) BY <1>0, <1>4 DEF HangUp, Clean, Moved
  <2>2. UNCHANGED <<rows, torn, count>> BY <1>4 DEF HangUp
  <2> QED BY <2>1, <2>2, RowsKept
<1>5. CASE Operate \/ UNCHANGED vars
  <2>1. UNCHANGED <<rows, torn, count, pc, answer>>
    BY <1>5 DEF Operate, Stop, Clear, SetStatus, vars
  <2>2. \A u \in Turns : Moved(u) BY <2>1 DEF Moved
  <2> QED BY <2>1, <2>2, RowsKept
<1>6. CASE Restart
  <2>1. \A u \in Turns : Moved(u) BY <1>0, <1>6 DEF Restart, Clean, Moved
  <2>2. UNCHANGED <<rows, torn, count>> BY <1>6 DEF Restart
  <2> QED BY <2>1, <2>2, RowsKept
<1> QED BY <1>2, <1>3, <1>4, <1>5, <1>6 DEF Next
-----------------------------------------------------------------------------
(* The theorems.                                                           *)

LEMMA InitInv == Init => IInv
<1> SUFFICES ASSUME Init PROVE IInv OBVIOUS
<1>1. TypeOK BY InitTyped
<1>2. /\ \A t \in Turns : pc[t] = "idle" /\ root[t] = t /\ calls[t] = <<>> /\ cred[t] = None
                          /\ answer[t] = "none" /\ seen[t] = "no"
      /\ \A s \in Sessions : iso[s].depth = 0 /\ flag[s] = None /\ dirty[s] = "no"
      /\ \A c \in Creds : status[c] # "missing"
      /\ rows = {} /\ flipped = {} /\ stopped = {}
  BY DEF Init, Operator
<1>3. Placed BY <1>2 DEF Placed, InTurn
<1>4. AgentsConsulted /\ LanesHold BY <1>2 DEF AgentsConsulted, LanesHold
<1>5. Guarded BY <1>2, TurnAssumption DEF Guarded, InTurn, Running
<1>6. Serving BY <1>2 DEF Serving, ServedAsAsked
<1>7. Flagged BY <1>2 DEF Flagged, Running
<1>8. Tainted BY <1>2 DEF Tainted, Running
<1>9. RowsPlaced BY <1>2 DEF RowsPlaced, OneRowPerAnswer
<1> QED BY <1>1, <1>3, <1>4, <1>5, <1>6, <1>7, <1>8, <1>9 DEF IInv, Shape, Family

LEMMA TypeStep == ASSUME Shape, Family, [Next]_vars PROVE TypeOK'
<1> USE DEF Shape, Family
<1>1. moves' \in 0 .. MaxMoves BY MovesTyped
<1>2. ASSUME NEW t \in Turns, Proceed(t) PROVE TypeOK'
  <2>1. CASE \/ ReadHistory(t) \/ Skip(t) \/ Unreadable(t) \/ Refuse(t)
             \/ Resolve(t) \/ NoCredential(t) \/ Stream(t)
             \/ Breaks(t) \/ CallFails(t) \/ Answered(t) \/ Silent(t)
             \/ (\E b \in Batches : StartBatch(t, b))
             \/ Join(t) \/ Review(t)
    BY <1>1, <2>1, LoopTyped
  <2>2. ASSUME NEW k \in DOMAIN calls[t],
               \/ \E fate \in {"ok", "failed"}, how \in Hows : Reply(t, k, fate, how)
               \/ Collect(t, k)
               \/ \E c \in Turns, s \in Sessions : Spawn(t, k, c, s)
        PROVE  TypeOK'
    BY <1>1, <2>2, ToolsTyped
  <2>3. CASE Insert(t) \/ InsertFails(t) \/ Leave(t) BY <1>1, <2>3, EndTyped
  <2> QED BY <1>2, <2>1, <2>2, <2>3 DEF Proceed
<1>3. ASSUME NEW t \in Turns, NEW s \in Sessions, NEW a \in Asks, Open(t, s, a) PROVE TypeOK'
  BY <1>1, <1>3, OpenTyped
<1>4. CASE (\E t \in Turns : HangUp(t)) \/ Operate \/ Restart BY <1>1, <1>4, EndTyped
<1>5. CASE UNCHANGED vars
  BY <1>5 DEF vars, service, request, history, locals, TypeOK
<1> QED BY <1>2, <1>3, <1>4, <1>5 DEF Next

\* Where a turn stands, who consults it, what guards its session, how it is served,
\* which flag stops it, what it has read and which row it left, in one invariant.
THEOREM Inductive == Spec => []IInv
<1>1. IInv /\ [Next]_vars => IInv'
  <2> SUFFICES ASSUME IInv, [Next]_vars PROVE IInv' OBVIOUS
  <2> USE DEF IInv, Shape, Family
  <2>1. TypeOK' BY TypeStep
  <2>2. Placed' BY PlacedStep
  <2>3. AgentsConsulted' BY AgentsStep
  <2>4. Guarded' /\ LanesHold' BY GuardStep
  <2>5. Serving' BY ServingStep
  <2>6. Flagged' BY FlaggedStep
  <2>7. Tainted' BY TaintedStep
  <2>8. RowsPlaced' BY RowsStep
  <2> QED BY <2>1, <2>2, <2>3, <2>4, <2>5, <2>6, <2>7, <2>8
<1> QED BY <1>1, InitInv, PTL DEF Spec

\* The service's maps and the turns' locals keep their types: no turn asks the
\* model more often than its budget and once more, and no agent is too deep.
THEOREM TypeCorrect == Spec => []TypeOK
<1>1. IInv => TypeOK BY DEF IInv, Shape
<1> QED BY <1>1, Inductive, PTL

\* However far down an agent is consulted, it runs only tools that the agent at the
\* top of its chain was given.
THEOREM LanesCorrect == Spec => []LanesHold
<1>1. IInv => LanesHold BY DEF IInv, Family
<1> QED BY <1>1, Inductive, PTL

\* Failover and the operators' changes never lead a turn off this machine where its
\* mode forbids it, nor to another credential than the one it named, unless that one
\* was missing or could not be read.
THEOREM ServedCorrect == Spec => []ServedAsAsked
<1>1. IInv => ServedAsAsked BY DEF IInv, Serving
<1> QED BY <1>1, Inductive, PTL

\* On a session with one turn at a time a stop reaches that turn, and only it.
THEOREM StopCorrect == Spec => []StopIsExact
<1>1. IInv => StopIsExact BY DEF IInv, Flagged, StopIsExact, Cancelled
<1> QED BY <1>1, Inductive, PTL

\* A turn leaves the row of its answer and no other, numbered apart from the rest.
THEOREM RowsCorrect == Spec => []OneRowPerAnswer
<1>1. IInv => OneRowPerAnswer BY DEF IInv, RowsPlaced
<1> QED BY <1>1, Inductive, PTL

\* No sensitive tool is run for a turn that has read content the service knows to be
\* untrusted, until its session is cleared: whichever turn of the session, stored or
\* running, read it first, and also in the agents it consults from then on.
THEOREM GatedCorrect == Spec => UntrustedIsGated
<1> DEFINE Kept == \A t \in Turns : pc[t] = "call" /\ pc'[t] = "batch" /\ seen[t] = "direct" =>
                     \A k \in DOMAIN calls'[t] :
                       calls'[t][k].tool \in Sensitive => calls'[t][k].fate # "run"
<1>1. IInv /\ [Next]_vars => [Kept]_vars
  <2> SUFFICES ASSUME IInv, [Next]_vars PROVE Kept OBVIOUS
  <2> QED BY GatedStep DEF IInv, Shape, Family
<1> QED BY <1>1, Inductive, PTL DEF Spec, UntrustedIsGated
-----------------------------------------------------------------------------
(* What TurnsEnd needs besides fairness: no dead end, and a variant.       *)

\* A call that consults an agent waits for one that is under way, of its own
\* root and deeper, and nobody else waits for that one.
Awaited ==
  /\ \A c, t \in Turns : \A k \in DOMAIN calls[t] : ConsultedBy(c, t, k) =>
       InTurn(c) /\ root[c] = root[t] /\ depth[t] < depth[c]
  /\ \A c, t, u \in Turns : \A k \in DOMAIN calls[t], j \in DOMAIN calls[u] :
       ConsultedBy(c, t, k) /\ ConsultedBy(c, u, j) => t = u /\ k = j

\* Turn t can take a step by itself.
CanProceed(t) ==
  /\ Running(t)
  /\ pc[t] = "batch" =>
       \/ AllSettled(t)
       \/ \E k \in DOMAIN calls[t] :
            \/ calls[t][k].fate = "run"
            \/ calls[t][k].fate = "consulting" /\ pc[calls[t][k].agent] = "over"

\* A turn that runs goes on, or one of its agents does.
NoTurnHangs ==
  \A t \in Turns : Running(t) =>
    \/ CanProceed(t)
    \/ \E c \in Turns : root[c] = root[t] /\ depth[t] < depth[c] /\ CanProceed(c)

\* An agent that somebody waits for is not its own root.
LEMMA AwaitedHasRoot ==
  ASSUME TypeOK, Placed, AgentsConsulted, Awaited, NEW c \in Turns, NEW t \in Turns,
         NEW k \in DOMAIN calls[t], ConsultedBy(c, t, k), pc[c] # "batch"
  PROVE  root[c] # c /\ root[t] # c /\ t # c
<1>1. root[c] = root[t] /\ pc[t] = "batch" BY DEF Awaited, ConsultedBy
<1>2. root[t] # t => pc[root[t]] = "batch" BY RootWaits
<1> QED BY <1>1, <1>2

LEMMA AwaitedStep ==
  ASSUME TypeOK, Placed, AgentsConsulted, Guarded, Awaited, [Next]_vars PROVE Awaited'
<1> USE TurnAssumption DEF service, request, history, locals
<1>0. /\ DOMAIN pc = Turns /\ DOMAIN calls = Turns /\ DOMAIN root = Turns /\ DOMAIN depth = Turns
      /\ \A t \in Turns : root[t] \in Turns /\ depth[t] \in Nat
  BY DEF TypeOK
<1>1. ASSUME NEW t \in Turns, Works(t) PROVE Awaited'
  <2>1. /\ \A u \in Turns \ {t} : pc'[u] = pc[u] /\ calls'[u] = calls[u]
        /\ UNCHANGED <<root, depth>> /\ Running(t)'
    BY <1>1, StepsAlone DEF Alone
  <2>2. \A k \in DOMAIN calls'[t] : calls'[t][k].fate = "consulting" =>
          pc[t] = "batch" /\ k \in DOMAIN calls[t] /\ calls[t][k].fate = "consulting"
          /\ calls'[t][k].agent = calls[t][k].agent
    <3>1. CASE calls'[t] = <<>> BY <3>1
    <3>2. ASSUME NEW k \in DOMAIN calls[t], NEW fate \in {"ok", "failed"}, NEW how \in Hows,
                 Reply(t, k, fate, how)
          PROVE  <2>2
      <4>1. Settle(t, k, fate, how) /\ pc[t] = "batch" BY <3>2 DEF Reply
      <4>2. /\ DOMAIN calls'[t] = DOMAIN calls[t]
            /\ \A j \in DOMAIN calls[t] \ {k} : calls'[t][j] = calls[t][j]
            /\ calls'[t][k].fate = fate
        <5> QED BY <4>1, SettleAt
      <4> QED BY <4>1, <4>2
    <3>3. ASSUME NEW b \in Batches, StartBatch(t, b), ~Cancelled(t) PROVE <2>2
      BY <3>3, BatchAt DEF Fate
    <3> QED BY <1>1, <3>1, <3>2, <3>3, CallsAlone
  <2>3. \A c, p \in Turns : \A k \in DOMAIN calls'[p] : ConsultedBy(c, p, k)' =>
          k \in DOMAIN calls[p] /\ ConsultedBy(c, p, k)
    BY <2>1, <2>2 DEF ConsultedBy
  <2>4. \A c \in Turns : InTurn(c) => InTurn(c)' BY <2>1 DEF InTurn, Running
  <2> QED BY <2>1, <2>3, <2>4 DEF Awaited
<1>2. ASSUME NEW t \in Turns, NEW k \in DOMAIN calls[t], Collect(t, k) PROVE Awaited'
  <2> DEFINE a == calls[t][k].agent
             fate == IF answer[a] = "ok" THEN "ok" ELSE "failed"
             how == IF answer[a] # "ok" THEN "no"
                    ELSE IF seen[a] = "direct" THEN "consult" ELSE seen[a]
  <2>1. /\ a \in Turns /\ pc[a] = "over" /\ pc' = [pc EXCEPT ![a] = "done"]
        /\ ConsultedBy(a, t, k)
    BY <1>2 DEF Collect, AgentsConsulted, Goto, ConsultedBy
  <2>2. Settle(t, k, fate, how) /\ EndTurn({a}) BY <1>2 DEF Collect
  <2>3. /\ DOMAIN calls'[t] = DOMAIN calls[t]
        /\ \A j \in DOMAIN calls[t] \ {k} : calls'[t][j] = calls[t][j]
        /\ calls'[t][k].fate = fate
        /\ \A u \in Turns \ {t} : calls'[u] = calls[u]
    <3> HIDE DEF fate, how
    <3> QED BY <2>2, SettleAt
  <2>4. fate # "consulting" OBVIOUS
  <2>5. \A u \in Turns \ {a} : root'[u] = root[u] /\ depth'[u] = depth[u] /\ pc'[u] = pc[u]
    BY <1>0, <2>1, <2>2 DEF EndTurn, Clean
  <2>6. pc'[a] = "done" BY <1>0, <2>1
  <2> HIDE DEF fate, how, a
  <2>7. \A c, p \in Turns : \A j \in DOMAIN calls'[p] : ConsultedBy(c, p, j)' =>
          p # a /\ j \in DOMAIN calls[p] /\ ConsultedBy(c, p, j) /\ ~(p = t /\ j = k)
    BY <2>3, <2>4, <2>5, <2>6 DEF ConsultedBy
  <2>8. \A c, p \in Turns : \A j \in DOMAIN calls'[p] : ConsultedBy(c, p, j)' => c # a
    BY <2>1, <2>7 DEF Awaited
  <2>9. \A c \in Turns \ {a} : InTurn(c) => InTurn(c)' BY <2>5 DEF InTurn
  <2> QED BY <2>5, <2>7, <2>8, <2>9 DEF Awaited
<1>3. ASSUME NEW t \in Turns, NEW k \in DOMAIN calls[t], NEW a \in Turns, NEW s \in Sessions,
             Spawn(t, k, a, s)
      PROVE  Awaited'
  <2>1. PICK diagnostic \in {q.diagnostic : q \in Asks} :
          Start(a, s, ChildAsk(t, diagnostic), root[t], iso[sess[t]].depth + 1, Inherits(t), seen[t])
    BY <1>3 DEF Spawn
  <2>2. /\ pc[a] = "idle" /\ pc' = [pc EXCEPT ![a] = "history"] /\ root' = [root EXCEPT ![a] = root[t]]
        /\ depth' = [depth EXCEPT ![a] = iso[sess[t]].depth + 1]
    BY <2>1 DEF Start, Goto
  <2>3. /\ DOMAIN calls'[t] = DOMAIN calls[t]
        /\ \A j \in DOMAIN calls[t] \ {k} : calls'[t][j] = calls[t][j]
        /\ calls'[t][k].agent = a
        /\ \A u \in Turns \ {t} : calls'[u] = calls[u]
    BY <1>3, SpawnAt
  <2>4. pc[t] = "batch" /\ t # a BY <1>3, <2>2 DEF Spawn
  <2>5. /\ \A u \in Turns \ {a} : root'[u] = root[u] /\ depth'[u] = depth[u] /\ pc'[u] = pc[u]
        /\ pc'[a] = "history" /\ root'[a] = root[t] /\ depth'[a] = iso[sess[t]].depth + 1
    BY <1>0, <2>2
  <2>6. depth[t] < iso[sess[t]].depth + 1
    <3>1. depth[t] <= iso[sess[t]].depth /\ iso[sess[t]].depth \in Nat
      <4>1. sess[t] \in Sessions BY <2>4 DEF Placed, InTurn
      <4>2. iso[sess[t]].depth \in Nat BY <4>1 DEF TypeOK
      <4> QED BY <1>0, <2>4, <4>2 DEF Guarded, Running
    <3> QED BY <1>0, <3>1
  <2>7. \A p \in Turns : \A j \in DOMAIN calls[p] : ~ConsultedBy(a, p, j)
    BY <2>2 DEF Awaited, InTurn
  <2>8. \A c, p \in Turns : \A j \in DOMAIN calls'[p] : ConsultedBy(c, p, j)' =>
          /\ p # a
          /\ \/ c = a /\ p = t /\ j = k
             \/ c # a /\ j \in DOMAIN calls[p] /\ ConsultedBy(c, p, j)
    <3> SUFFICES ASSUME NEW c \in Turns, NEW p \in Turns, NEW j \in DOMAIN calls'[p],
                        ConsultedBy(c, p, j)'
                 PROVE  /\ p # a
                        /\ \/ c = a /\ p = t /\ j = k
                           \/ c # a /\ j \in DOMAIN calls[p] /\ ConsultedBy(c, p, j)
      OBVIOUS
    <3>1. p # a /\ pc[p] = "batch" BY <2>5 DEF ConsultedBy
    <3>2. CASE p = t /\ j = k BY <2>3, <3>1, <3>2 DEF ConsultedBy
    <3>3. CASE ~(p = t /\ j = k)
      <4>1. j \in DOMAIN calls[p] /\ ConsultedBy(c, p, j)
        BY <2>3, <3>1, <3>3 DEF ConsultedBy
      <4> QED BY <2>7, <3>1, <4>1
    <3> QED BY <3>2, <3>3
  <2>9. \A c \in Turns \ {a} : InTurn(c) => InTurn(c)' BY <2>5 DEF InTurn
  <2>10. InTurn(a)' BY <2>5 DEF InTurn
  <2> QED BY <2>4, <2>5, <2>6, <2>8, <2>9, <2>10 DEF Awaited
<1>4. ASSUME NEW t \in Turns, NEW s \in Sessions, NEW q \in Asks, Open(t, s, q) PROVE Awaited'
  <2>1. /\ pc[t] = "idle" /\ pc' = [pc EXCEPT ![t] = "history"] /\ root' = [root EXCEPT ![t] = t]
        /\ depth' = [depth EXCEPT ![t] = q.depth] /\ UNCHANGED calls
    BY <1>4 DEF Open, Start, Goto
  <2>2. \A u \in Turns \ {t} : root'[u] = root[u] /\ depth'[u] = depth[u] /\ pc'[u] = pc[u]
    BY <1>0, <2>1
  <2>3. pc'[t] = "history" BY <1>0, <2>1
  <2>4. \A c, p \in Turns : \A j \in DOMAIN calls'[p] : ConsultedBy(c, p, j)' =>
          p # t /\ c # t /\ ConsultedBy(c, p, j)
    BY <2>1, <2>2, <2>3 DEF Awaited, ConsultedBy, InTurn
  <2>5. \A c \in Turns \ {t} : InTurn(c) => InTurn(c)' BY <2>2 DEF InTurn
  <2> QED BY <2>1, <2>2, <2>4, <2>5 DEF Awaited
<1>5. ASSUME NEW t \in Turns, Leave(t) PROVE Awaited'
  <2>1. pc[t] # "batch" /\ InTurn(t) BY <1>5 DEF Leave, InTurn
  <2>2. \A u \in Turns \ {t} : pc'[u] = pc[u] /\ root'[u] = root[u] /\ depth'[u] = depth[u]
                               /\ calls'[u] = calls[u]
    BY <1>0, <1>5 DEF Leave, EndRun, EndTurn, Clean, Goto
  <2>3. calls'[t] = <<>> BY <1>0, <1>5 DEF Leave, EndRun, Clean
  <2>4. root[t] # t => root'[t] = root[t] /\ depth'[t] = depth[t] /\ pc'[t] = "over"
    BY <1>0, <1>5 DEF Leave, Goto
  <2>5. \A c, p \in Turns : \A j \in DOMAIN calls'[p] : ConsultedBy(c, p, j)' =>
          p # t /\ j \in DOMAIN calls[p] /\ ConsultedBy(c, p, j)
    BY <2>2, <2>3 DEF ConsultedBy
  <2>6. \A p \in Turns : \A j \in DOMAIN calls[p] : ConsultedBy(t, p, j) => root[t] # t
    BY <2>1, AwaitedHasRoot
  <2>7. \A c \in Turns : (c # t \/ root[t] # t) /\ InTurn(c) => InTurn(c)'
    BY <2>2, <2>4 DEF InTurn
  <2> QED BY <2>2, <2>4, <2>5, <2>6, <2>7 DEF Awaited
<1>6. ASSUME NEW t \in Turns, HangUp(t) PROVE Awaited'
  <2> DEFINE D == Dropped(t)
  <2>1. \A u \in Turns \ D : pc'[u] = pc[u] /\ root'[u] = root[u] /\ depth'[u] = depth[u]
                             /\ calls'[u] = calls[u]
    BY <1>0, <1>6 DEF HangUp, EndRun, EndTurn, Clean
  <2>2. \A u \in Turns : u \in D => calls'[u] = <<>>
    BY <1>0, <1>6 DEF HangUp, EndRun, Clean
  <2>3. \A u \in Turns : root[u] = t => u \in D
    BY <1>6 DEF HangUp, Dropped, Placed, InTurn, Running
  <2>4. \A u \in Turns : u \in D => root[u] = t BY DEF Dropped
  <2> HIDE DEF D
  <2>5. \A c, p \in Turns : \A j \in DOMAIN calls'[p] : ConsultedBy(c, p, j)' =>
          p \notin D /\ j \in DOMAIN calls[p] /\ ConsultedBy(c, p, j)
    BY <2>1, <2>2 DEF ConsultedBy
  <2>6. \A c, p \in Turns : \A j \in DOMAIN calls'[p] : ConsultedBy(c, p, j)' => c \notin D
    BY <2>3, <2>4, <2>5 DEF Awaited
  <2>7. \A c \in Turns \ D : InTurn(c) => InTurn(c)' BY <2>1 DEF InTurn
  <2> QED BY <2>1, <2>5, <2>6, <2>7 DEF Awaited
<1>7. CASE Operate \/ UNCHANGED vars
  <2>1. UNCHANGED <<pc, root, depth, calls>>
    BY <1>7 DEF Operate, Stop, Clear, SetStatus, vars
  <2> QED BY <2>1 DEF Awaited, ConsultedBy, InTurn
<1>8. CASE Restart
  <2>1. \A u \in Turns : calls'[u] = <<>>
    BY <1>0, <1>8 DEF Restart, EndRun, Clean, Placed
  <2> QED BY <2>1 DEF Awaited
<1>9. ASSUME NEW t \in Turns, Proceed(t) PROVE Awaited'
  BY <1>1, <1>2, <1>3, <1>5, <1>9 DEF Proceed, Works
<1> QED BY <1>4, <1>6, <1>7, <1>8, <1>9 DEF Next

\* A turn that cannot go on waits for an agent that is not over.
LEMMA WaitsForAgent ==
  ASSUME TypeOK, AgentsConsulted, Awaited, NEW t \in Turns, Running(t), ~CanProceed(t)
  PROVE  \E c \in Turns : Running(c) /\ root[c] = root[t] /\ depth[t] < depth[c]
<1>1. PICK k \in DOMAIN calls[t] : calls[t][k].fate \in {"run", "consulting"}
  BY DEF CanProceed, AllSettled, Fates
<1>2. /\ pc[t] = "batch" /\ calls[t][k].fate = "consulting" /\ calls[t][k].agent \in Turns
      /\ pc[calls[t][k].agent] # "over"
  BY <1>1 DEF CanProceed, AgentsConsulted
<1>3. ConsultedBy(calls[t][k].agent, t, k) BY <1>2 DEF ConsultedBy
<1>4. InTurn(calls[t][k].agent) /\ root[calls[t][k].agent] = root[t]
      /\ depth[t] < depth[calls[t][k].agent]
  BY <1>2, <1>3 DEF Awaited
<1> QED BY <1>2, <1>4 DEF InTurn, Running

\* The deepest agent that runs can go on.
LEMMA SomebodyProceeds ==
  ASSUME TypeOK, AgentsConsulted, Awaited PROVE NoTurnHangs
<1> SUFFICES ASSUME NEW t \in Turns, Running(t), ~CanProceed(t)
             PROVE  \E c \in Turns : root[c] = root[t] /\ depth[t] < depth[c] /\ CanProceed(c)
  BY DEF NoTurnHangs
<1> DEFINE Below == {c \in Turns : Running(c) /\ root[c] = root[t] /\ depth[t] < depth[c]}
           Rooms == {MaxDepth - depth[c] : c \in Below}
<1>1. \A c \in Turns : depth[c] \in Nat /\ MaxDepth - depth[c] \in Nat
  BY TurnAssumption DEF TypeOK
<1>2. Rooms \subseteq Nat /\ Rooms # {}
  <2>1. Below # {} BY WaitsForAgent
  <2> QED BY <1>1, <2>1
<1>3. PICK n \in Rooms : \A m \in Rooms : ~(m < n) BY <1>2, LeastNatural
<1>4. PICK c \in Below : n = MaxDepth - depth[c] BY <1>3
<1>5. CASE ~CanProceed(c)
  <2>1. PICK d \in Turns : Running(d) /\ root[d] = root[c] /\ depth[c] < depth[d]
    BY <1>5, WaitsForAgent
  <2>2. d \in Below BY <1>1, <2>1
  <2>3. MaxDepth - depth[d] < n /\ MaxDepth - depth[d] \in Rooms
    <3>1. MaxDepth \in Nat /\ depth[c] \in Nat /\ depth[d] \in Nat BY <1>1, TurnAssumption
    <3>2. MaxDepth - depth[d] < n BY ONLY <1>4, <2>1, <3>1
    <3>3. MaxDepth - depth[d] \in Rooms BY <2>2
    <3> QED BY <3>2, <3>3
  <2> QED BY <1>3, <2>3
<1> QED BY <1>5

\* No deadlock between turns and the agents they consult, also after hang-ups,
\* stops and restarts: a turn that runs goes on, or one of its agents does.
THEOREM TurnsGoOn == Spec => [](Awaited /\ NoTurnHangs)
<1>1. Init => Awaited BY DEF Init, Awaited
<1>2. IInv /\ Awaited /\ [Next]_vars => Awaited' BY AwaitedStep DEF IInv, Shape, Family
<1>3. IInv /\ Awaited => NoTurnHangs BY SomebodyProceeds DEF IInv, Shape, Family
<1> QED BY <1>1, <1>2, <1>3, Inductive, PTL DEF Spec
-----------------------------------------------------------------------------
(* The variant of a turn.                                                  *)

\* What is left of a turn, in the order in which a step counts: where it stands,
\* the calls of the model that its budget has, the candidates left to try, the
\* calls of the batch under way that nobody has settled.
Stage(place) ==
  CASE place = "idle" -> 9
    [] place = "history" -> 8
    [] place = "resolve" -> 7
    [] place = "stream" -> 6
    [] place \in {"call", "batch"} -> 5
    [] place = "review" -> 4
    [] place = "insert" -> 3
    [] place \in {"stored", "leaving"} -> 2
    [] place = "over" -> 1
    [] OTHER -> 0
Iterations(t) == IF pc[t] \in {"call", "batch"} THEN MaxBudget + 1 - loop[t].iter ELSE 0
Tries(t) ==
  IF pc[t] \in {"resolve", "call", "batch"}
  THEN 2 * Len(rest[t]) + (IF pc[t] = "call" THEN 1 ELSE 0) ELSE 0
Unsettled(t) == IF pc[t] = "batch" THEN 2 * Number(t, "run") + Number(t, "consulting") ELSE 0
Work(t) == <<Stage(pc[t]), Iterations(t), Tries(t), Unsettled(t)>>

LessWork == LexProductOrdering(OpToRel(<, Nat), Nat, 4)
Shrinks(t) == <<Work(t)', Work(t)>> \in LessWork

\* Nothing can shrink for ever.
THEOREM WorkEnds == IsWellFoundedOn(LessWork, [1..4 -> Nat])
BY NatLessThanWellFounded, WFLexProductOrdering DEF LessWork

LEMMA Lexicographic ==
  ASSUME NEW a \in Nat, NEW b \in Nat, NEW c \in Nat, NEW d \in Nat,
         NEW p \in Nat, NEW q \in Nat, NEW r \in Nat, NEW s \in Nat,
         p < a \/ (p = a /\ (q < b \/ (q = b /\ (r < c \/ (r = c /\ s < d)))))
  PROVE  <<<<p, q, r, s>>, <<a, b, c, d>>>> \in LessWork
<1> DEFINE x == <<p, q, r, s>>
           y == <<a, b, c, d>>
           L == OpToRel(<, Nat)
<1>1. x \in [1..4 -> Nat] /\ y \in [1..4 -> Nat] OBVIOUS
<1>2. /\ x[1] = p /\ x[2] = q /\ x[3] = r /\ x[4] = s
      /\ y[1] = a /\ y[2] = b /\ y[3] = c /\ y[4] = d
  OBVIOUS
<1>3. \A m, n \in Nat : m < n => <<m, n>> \in L BY DEF OpToRel
<1> HIDE DEF x, y, L
<1>4. \E j \in 1..4 : (\A i \in 1..(j-1) : x[i] = y[i]) /\ <<x[j], y[j]>> \in L
  <2>1. CASE p < a
    <3>1. (\A i \in 1..(1-1) : x[i] = y[i]) /\ <<x[1], y[1]>> \in L BY <1>2, <1>3, <2>1
    <3> QED BY <3>1
  <2>2. CASE p = a /\ q < b
    <3>1. (\A i \in 1..(2-1) : x[i] = y[i]) /\ <<x[2], y[2]>> \in L BY <1>2, <1>3, <2>2
    <3> QED BY <3>1
  <2>3. CASE p = a /\ q = b /\ r < c
    <3>1. (\A i \in 1..(3-1) : x[i] = y[i]) /\ <<x[3], y[3]>> \in L BY <1>2, <1>3, <2>3
    <3> QED BY <3>1
  <2>4. CASE p = a /\ q = b /\ r = c /\ s < d
    <3>1. (\A i \in 1..(4-1) : x[i] = y[i]) /\ <<x[4], y[4]>> \in L BY <1>2, <1>3, <2>4
    <3> QED BY <3>1
  <2> QED BY <2>1, <2>2, <2>3, <2>4
<1>5. <<x, y>> \in LexProductOrdering(L, Nat, 4) BY <1>1, <1>4 DEF LexProductOrdering
<1> QED BY <1>5 DEF LessWork, x, y, L

LEMMA Stages ==
  /\ Stage("idle") = 9 /\ Stage("history") = 8 /\ Stage("resolve") = 7 /\ Stage("stream") = 6
  /\ Stage("call") = 5 /\ Stage("batch") = 5 /\ Stage("review") = 4 /\ Stage("insert") = 3
  /\ Stage("stored") = 2 /\ Stage("leaving") = 2 /\ Stage("over") = 1 /\ Stage("done") = 0
  /\ \A place \in Places : Stage(place) \in Nat
BY DEF Stage, Places

LEMMA NumberType ==
  ASSUME TypeOK, NEW t \in Turns, NEW fate
  PROVE  /\ IsFiniteSet({k \in DOMAIN calls[t] : calls[t][k].fate = fate})
         /\ Number(t, fate) \in Nat /\ Cardinality(WasGated(t)) \in Nat
<1>1. calls[t] \in Seq(Call) BY DEF TypeOK
<1>2. DOMAIN calls[t] = 1 .. Len(calls[t]) /\ Len(calls[t]) \in Nat BY <1>1
<1>3. IsFiniteSet(1 .. Len(calls[t])) BY <1>2, FS_Interval
<1>4. IsFiniteSet(DOMAIN calls[t]) BY <1>2, <1>3
<1> QED BY <1>4, FS_Subset, FS_CardinalityType DEF Number, WasGated

WorkTyped ==
  \A t \in Turns : Stage(pc[t]) \in Nat /\ Iterations(t) \in Nat /\ Tries(t) \in Nat /\ Unsettled(t) \in Nat

LEMMA WorkType == TypeOK => WorkTyped
<1> SUFFICES ASSUME TypeOK, NEW t \in Turns
             PROVE  /\ Stage(pc[t]) \in Nat /\ Iterations(t) \in Nat
                    /\ Tries(t) \in Nat /\ Unsettled(t) \in Nat
  BY DEF WorkTyped
<1>1. Stage(pc[t]) \in Nat BY Stages DEF TypeOK
<1>2. Iterations(t) \in Nat
  <2>1. MaxBudget \in Nat BY TurnAssumption DEF MaxBudget
  <2>2. loop[t].iter \in 0 .. MaxBudget + 1 BY DEF TypeOK, Counters
  <2> QED BY <2>1, <2>2 DEF Iterations
<1>3. Tries(t) \in Nat
  <2>1. rest[t] \in Seq(Creds) BY DEF TypeOK
  <2>2. PICK n \in Nat : n = 2 * Len(rest[t]) BY <2>1
  <2>3. CASE pc[t] = "call" BY <2>2, <2>3 DEF Tries
  <2>4. CASE pc[t] # "call" BY <2>2, <2>4 DEF Tries
  <2> QED BY <2>3, <2>4
<1>4. Unsettled(t) \in Nat
  <2>1. Number(t, "run") \in Nat /\ Number(t, "consulting") \in Nat BY NumberType
  <2> QED BY <2>1 DEF Unsettled
<1> QED BY <1>1, <1>2, <1>3, <1>4

LEMMA Falls ==
  ASSUME TypeOK, TypeOK', NEW t \in Turns,
         \/ Stage(pc'[t]) < Stage(pc[t])
         \/ /\ Stage(pc'[t]) = Stage(pc[t])
            /\ \/ Iterations(t)' < Iterations(t)
               \/ /\ Iterations(t)' = Iterations(t)
                  /\ \/ Tries(t)' < Tries(t)
                     \/ (Tries(t)' = Tries(t) /\ Unsettled(t)' < Unsettled(t))
  PROVE  Shrinks(t)
<1>1. /\ Stage(pc[t]) \in Nat /\ Iterations(t) \in Nat /\ Tries(t) \in Nat /\ Unsettled(t) \in Nat
  BY WorkType DEF WorkTyped
<1>2. /\ Stage(pc'[t]) \in Nat /\ Iterations(t)' \in Nat /\ Tries(t)' \in Nat
      /\ Unsettled(t)' \in Nat
  <2>1. WorkTyped' BY WorkType, PTL
  <2> QED BY <2>1 DEF WorkTyped
<1>3. PICK a, b, c, d \in Nat :
        a = Stage(pc[t]) /\ b = Iterations(t) /\ c = Tries(t) /\ d = Unsettled(t)
  BY <1>1
<1>4. PICK p, q, r, s \in Nat :
        p = Stage(pc'[t]) /\ q = Iterations(t)' /\ r = Tries(t)' /\ s = Unsettled(t)'
  BY <1>2
<1>5. p < a \/ (p = a /\ (q < b \/ (q = b /\ (r < c \/ (r = c /\ s < d))))) BY <1>3, <1>4
<1>6. <<<<p, q, r, s>>, <<a, b, c, d>>>> \in LessWork BY ONLY <1>5, Lexicographic
<1>7. Work(t) = <<a, b, c, d>> BY <1>3 DEF Work
<1>8. Work(t)' = <<p, q, r, s>> BY <1>4 DEF Work
<1> QED BY <1>6, <1>7, <1>8 DEF Shrinks

\* What another turn does is nothing to it.
LEMMA Keeps ==
  ASSUME NEW u \in Turns, pc'[u] = pc[u], rest'[u] = rest[u], loop'[u] = loop[u], calls'[u] = calls[u]
  PROVE  UNCHANGED Work(u)
BY DEF Work, Iterations, Tries, Unsettled, Number

\* A step that goes down a stage.
LEMMA StageFalls ==
  ASSUME TypeOK, TypeOK', NEW t \in Turns, Stage(pc'[t]) < Stage(pc[t]) PROVE Shrinks(t)
BY Falls

\* The top of the loop, or its end.
LEMMA IterateFalls ==
  ASSUME TypeOK, TypeOK', NEW t \in Turns, NEW w \in Counters, Iterate(t, w),
         \/ pc[t] \in {"resolve", "stream"}
         \/ pc[t] \in {"call", "batch"} /\ w.iter = loop[t].iter
  PROVE  Shrinks(t)
<1>1. pc'[t] \in {"call", "leaving"} /\ loop'[t].iter = w.iter + 1
  <2>1. loop'[t] = [w EXCEPT !.iter = @ + 1] BY DEF Iterate, TypeOK
  <2>2. loop'[t].iter = w.iter + 1 BY <2>1 DEF Counters
  <2> QED BY <2>2 DEF Iterate, Abort, Goto, TypeOK
<1>2. CASE pc'[t] = "leaving" BY <1>2, StageFalls, Stages
<1>3. CASE pc[t] \in {"resolve", "stream"} BY <1>1, <1>3, StageFalls, Stages
<1>4. CASE pc'[t] = "call" /\ pc[t] \in {"call", "batch"} /\ w.iter = loop[t].iter
  <2>1. PICK m \in Nat : m = MaxBudget BY TurnAssumption DEF MaxBudget
  <2>2. PICK n \in Nat : n = loop[t].iter BY <1>4 DEF Counters
  <2>3. Iterations(t) = m + 1 - n BY <1>4, <2>1, <2>2 DEF Iterations
  <2>4. Iterations(t)' = m + 1 - (n + 1) BY <1>1, <1>4, <2>1, <2>2 DEF Iterations, MaxBudget
  <2>5. Iterations(t)' < Iterations(t) BY ONLY <2>1, <2>2, <2>3, <2>4
  <2>6. Stage(pc'[t]) = Stage(pc[t]) BY <1>4, Stages
  <2> QED BY <2>5, <2>6, Falls
<1> QED BY <1>1, <1>2, <1>3, <1>4

\* A candidate is used up.
LEMMA TryFalls ==
  ASSUME TypeOK, TypeOK', NEW t \in Turns, pc[t] \in {"resolve", "call"}, pc'[t] = pc[t],
         UNCHANGED loop, rest[t] # <<>>, rest'[t] = Tail(rest[t])
  PROVE  Shrinks(t)
<1>1. rest[t] \in Seq(Creds) BY DEF TypeOK
<1>2. PICK n \in Nat : n = Len(rest[t]) /\ n > 0 BY <1>1
<1>3. Len(rest'[t]) = n - 1 BY <1>1, <1>2
<1>4. PICK e \in {0, 1} : e = IF pc[t] = "call" THEN 1 ELSE 0 OBVIOUS
<1>5. Tries(t) = 2 * n + e BY <1>2, <1>4 DEF Tries
<1>6. Tries(t)' = 2 * (n - 1) + e BY <1>3, <1>4 DEF Tries
<1>7. Tries(t)' < Tries(t)
  <2>1. ASSUME NEW i \in Nat, NEW j \in Nat PROVE 2 * (i - 1) + j < 2 * i + j OBVIOUS
  <2> QED BY <1>4, <1>5, <1>6, <2>1
<1>8. Iterations(t)' = Iterations(t) BY DEF Iterations, MaxBudget
<1> QED BY <1>7, <1>8, Falls

\* A call of the batch is settled, or waits for an agent.
LEMMA CallFalls ==
  ASSUME TypeOK, TypeOK', NEW t \in Turns, NEW k \in DOMAIN calls[t],
         pc[t] = "batch", pc'[t] = "batch", UNCHANGED <<loop, rest>>,
         DOMAIN calls'[t] = DOMAIN calls[t],
         \A j \in DOMAIN calls[t] \ {k} : calls'[t][j] = calls[t][j],
         \/ /\ calls[t][k].fate \in {"run", "consulting"}
            /\ calls'[t][k].fate \notin {"run", "consulting"}
         \/ calls[t][k].fate = "run" /\ calls'[t][k].fate = "consulting"
  PROVE  Shrinks(t)
<1> DEFINE R == {j \in DOMAIN calls[t] : calls[t][j].fate = "run"}
           C == {j \in DOMAIN calls[t] : calls[t][j].fate = "consulting"}
           R1 == {j \in DOMAIN calls'[t] : calls'[t][j].fate = "run"}
           C1 == {j \in DOMAIN calls'[t] : calls'[t][j].fate = "consulting"}
<1>1. IsFiniteSet(R) /\ IsFiniteSet(C) BY NumberType
<1>2. PICK r, c \in Nat : r = Cardinality(R) /\ c = Cardinality(C)
  BY NumberType DEF Number
<1>3. \/ k \in R /\ R1 = R \ {k} /\ C1 = C
      \/ k \in C /\ C1 = C \ {k} /\ R1 = R
      \/ k \in R /\ k \notin C /\ R1 = R \ {k} /\ C1 = C \union {k}
  OBVIOUS
<1>4. Unsettled(t) = 2 * r + c BY <1>2 DEF Unsettled, Number
<1>5. Unsettled(t)' = 2 * Cardinality(R1) + Cardinality(C1) BY DEF Unsettled, Number
<1> HIDE DEF R, C, R1, C1
<1>6. \/ Cardinality(R1) = r - 1 /\ Cardinality(C1) = c
      \/ Cardinality(C1) = c - 1 /\ Cardinality(R1) = r
      \/ Cardinality(R1) = r - 1 /\ Cardinality(C1) = c + 1
  BY <1>1, <1>2, <1>3, FS_RemoveElement, FS_AddElement
<1>7. Unsettled(t)' < Unsettled(t) BY ONLY <1>2, <1>4, <1>5, <1>6
<1>8. Iterations(t)' = Iterations(t) /\ Tries(t)' = Tries(t) BY DEF Iterations, Tries, MaxBudget
<1> QED BY <1>7, <1>8, Falls

\* Every step of a turn takes something from its work.
LEMMA ProceedShrinks ==
  ASSUME TypeOK, TypeOK', Placed, AgentsConsulted, NEW t \in Turns, Proceed(t) PROVE Shrinks(t)
<1> USE DEF service, request, history, locals
<1>0. DOMAIN pc = Turns /\ DOMAIN rest = Turns /\ DOMAIN loop = Turns BY DEF TypeOK
<1>1. CASE \/ ReadHistory(t) \/ Refuse(t) \/ NoCredential(t) \/ Breaks(t) \/ Answered(t)
           \/ Review(t) \/ Insert(t) \/ InsertFails(t) \/ Leave(t)
  <2>1. \/ pc[t] = "history" /\ pc'[t] \in {"resolve", "leaving"}
        \/ pc[t] \in {"resolve", "stream"} /\ pc'[t] = "leaving"
        \/ pc[t] = "call" /\ pc'[t] \in {"leaving", "review", "insert"}
        \/ pc[t] = "review" /\ pc'[t] \in {"insert", "leaving"}
        \/ pc[t] = "insert" /\ pc'[t] \in {"stored", "leaving"}
        \/ pc[t] \in {"stored", "leaving"} /\ pc'[t] \in {"over", "done"}
    BY <1>0, <1>1 DEF ReadHistory, Refuse, NoCredential, Breaks, Answered, Review, Insert,
                      InsertFails, Leave, Goto, Abort, AfterDraft
  <2> QED BY <2>1, StageFalls, Stages
<1>2. CASE Skip(t) \/ Unreadable(t)
  <2>1. /\ pc[t] = "resolve" /\ pc' = pc /\ UNCHANGED loop /\ rest[t] # <<>>
        /\ rest'[t] = Tail(rest[t])
    BY <1>0, <1>2 DEF Skip, Unreadable
  <2> QED BY <2>1, TryFalls
<1>3. CASE Resolve(t)
  <2>1. /\ pc[t] = "resolve"
        /\ \/ Goto(t, "stream")
           \/ Iterate(t, [NoWork EXCEPT !.tools = ask[t].tools])
    BY <1>3, Zenon DEF Resolve
  <2>2. ask[t].tools \in BOOLEAN BY <2>1 DEF Placed, InTurn, Ask
  <2>3. MaxBudget \in Nat BY TurnAssumption DEF MaxBudget
  <2>4. [NoWork EXCEPT !.tools = ask[t].tools] \in Counters
    <3>1. NoWork \in Counters BY <2>3 DEF NoWork, Counters
    <3> QED BY <2>2, <3>1 DEF NoWork, Counters
  <2>5. CASE Goto(t, "stream") BY <1>0, <2>1, <2>5, StageFalls, Stages DEF Goto
  <2> QED BY <2>1, <2>4, <2>5, IterateFalls
<1>4. CASE Stream(t)
  <2>1. pc[t] = "stream" /\ (Goto(t, AfterDraft(t)) \/ Iterate(t, NoWork)) BY <1>4 DEF Stream
  <2>2. MaxBudget \in Nat BY TurnAssumption DEF MaxBudget
  <2>3. NoWork \in Counters BY <2>2 DEF NoWork, Counters
  <2>4. CASE Goto(t, AfterDraft(t))
    <3>1. pc'[t] \in {"review", "insert"} BY <1>0, <2>4 DEF Goto, AfterDraft
    <3> QED BY <2>1, <3>1, StageFalls, Stages
  <2> QED BY <2>1, <2>3, <2>4, IterateFalls
<1>5. CASE CallFails(t)
  <2>1. CASE rest[t] = <<>>
    <3>1. pc[t] = "call" /\ pc'[t] = "leaving" BY <1>0, <1>5, <2>1 DEF CallFails, Abort, Goto
    <3> QED BY <3>1, StageFalls, Stages
  <2>2. CASE rest[t] # <<>>
    <3>1. pc[t] = "call" /\ pc' = pc /\ UNCHANGED loop /\ rest'[t] = Tail(rest[t])
      BY <1>0, <1>5, <2>2 DEF CallFails
    <3> QED BY <2>2, <3>1, TryFalls
  <2> QED BY <2>1, <2>2
<1>6. CASE Silent(t)
  <2> DEFINE w == [loop[t] EXCEPT !.final = TRUE, !.tools = FALSE]
  <2>1. loop[t] \in Counters BY DEF TypeOK
  <2>2. w \in Counters /\ w.iter = loop[t].iter
    <3>1. [loop[t] EXCEPT !.final = TRUE] \in Counters BY <2>1 DEF Counters
    <3>2. w \in Counters BY <3>1 DEF Counters
    <3>3. w.iter = loop[t].iter BY <2>1 DEF Counters
    <3> QED BY <3>2, <3>3
  <2>3. Iterate(t, w) /\ pc[t] = "call" BY <1>6 DEF Silent
  <2> HIDE DEF w
  <2> QED BY <2>2, <2>3, IterateFalls
<1>7. ASSUME NEW b \in Batches, StartBatch(t, b) PROVE Shrinks(t)
  <2>1. CASE Cancelled(t)
    <3>1. pc[t] = "call" /\ pc'[t] = "leaving" BY <1>0, <1>7, <2>1 DEF StartBatch, Abort, Goto
    <3> QED BY <3>1, StageFalls, Stages
  <2>2. CASE ~Cancelled(t)
    <3>1. /\ pc[t] = "call" /\ pc'[t] = "batch" /\ UNCHANGED rest
          /\ loop' = [loop EXCEPT ![t].called = @ \union {b[k] : k \in DOMAIN b}]
      <4>1. pc[t] = "call" /\ Goto(t, "batch") /\ UNCHANGED rest
            /\ loop' = [loop EXCEPT ![t].called = @ \union {b[k] : k \in DOMAIN b}]
        BY <1>7, <2>2, Zenon DEF StartBatch
      <4> QED BY <1>0, <4>1 DEF Goto
    <3>2. loop'[t].iter = loop[t].iter
      <4>1. loop[t] \in Counters BY DEF TypeOK
      <4> QED BY <1>0, <3>1, <4>1 DEF Counters
    <3>3. Iterations(t)' = Iterations(t) BY <3>1, <3>2 DEF Iterations, MaxBudget
    <3>4. PICK n \in Nat : n = 2 * Len(rest[t])
      <4>1. rest[t] \in Seq(Creds) BY DEF TypeOK
      <4> QED BY <4>1
    <3>5. Tries(t) = n + 1 /\ Tries(t)' = n + 0 BY <3>1, <3>4 DEF Tries
    <3>6. Tries(t)' < Tries(t) BY ONLY <3>4, <3>5
    <3> QED BY <3>1, <3>3, <3>6, Falls, Stages
  <2> QED BY <2>1, <2>2
<1>8. ASSUME NEW k \in DOMAIN calls[t], NEW fate \in {"ok", "failed"}, NEW how \in Hows,
             Reply(t, k, fate, how)
      PROVE  Shrinks(t)
  <2>1. /\ Settle(t, k, fate, how) /\ calls[t][k].fate = "run"
        /\ pc[t] = "batch" /\ pc' = pc /\ UNCHANGED <<loop, rest>>
    BY <1>8 DEF Reply
  <2>2. /\ DOMAIN calls'[t] = DOMAIN calls[t]
        /\ \A j \in DOMAIN calls[t] \ {k} : calls'[t][j] = calls[t][j]
        /\ calls'[t][k].fate = fate
    <3> QED BY <2>1, SettleAt
  <2> QED BY <2>1, <2>2, CallFalls
<1>9. ASSUME NEW k \in DOMAIN calls[t], Collect(t, k) PROVE Shrinks(t)
  <2> DEFINE c == calls[t][k].agent
             fate == IF answer[c] = "ok" THEN "ok" ELSE "failed"
             how == IF answer[c] # "ok" THEN "no"
                    ELSE IF seen[c] = "direct" THEN "consult" ELSE seen[c]
  <2>1. /\ Settle(t, k, fate, how) /\ calls[t][k].fate = "consulting" /\ pc[t] = "batch"
        /\ pc[c] = "over" /\ Goto(c, "done") /\ UNCHANGED <<loop, rest>>
    BY <1>9 DEF Collect
  <2>2. pc'[t] = "batch" BY <1>0, <2>1 DEF Goto
  <2>3. fate \in {"ok", "failed"} OBVIOUS
  <2> HIDE DEF fate, how, c
  <2>4. /\ DOMAIN calls'[t] = DOMAIN calls[t]
        /\ \A j \in DOMAIN calls[t] \ {k} : calls'[t][j] = calls[t][j]
        /\ calls'[t][k].fate = fate
    BY <2>1, SettleAt
  <2> QED BY <2>1, <2>2, <2>3, <2>4, CallFalls
<1>10. ASSUME NEW k \in DOMAIN calls[t], NEW c \in Turns, NEW s \in Sessions, Spawn(t, k, c, s)
       PROVE  Shrinks(t)
  <2>1. /\ pc[t] = "batch" /\ calls[t][k].fate = "run" /\ pc[c] = "idle" /\ Goto(c, "history")
        /\ UNCHANGED <<loop, rest>>
    BY <1>10 DEF Spawn, Start
  <2>2. pc'[t] = "batch" BY <1>0, <2>1 DEF Goto
  <2>3. /\ DOMAIN calls'[t] = DOMAIN calls[t]
        /\ \A j \in DOMAIN calls[t] \ {k} : calls'[t][j] = calls[t][j]
        /\ calls'[t][k].fate = "consulting"
    BY <1>10, SpawnAt
  <2> QED BY <2>1, <2>2, <2>3, CallFalls
<1>11. CASE Join(t)
  <2> DEFINE gates == loop[t].gates + Cardinality(WasGated(t))
             dups == loop[t].dups + Number(t, "repeated")
             w == [loop[t] EXCEPT !.gates = gates, !.dups = dups,
                     !.tools = gates < MaxGateRejections /\ dups < MaxDuplicates]
  <2>1. loop[t] \in Counters BY DEF TypeOK
  <2>2. gates \in Nat /\ dups \in Nat
    <3>1. loop[t].gates \in Nat /\ loop[t].dups \in Nat BY <2>1 DEF Counters
    <3>2. Cardinality(WasGated(t)) \in Nat /\ Number(t, "repeated") \in Nat BY NumberType
    <3>3. \A m, n \in Nat : m + n \in Nat OBVIOUS
    <3> QED BY <3>1, <3>2, <3>3, Zenon
  <2>3. Iterate(t, w) /\ pc[t] = "batch" BY <1>11 DEF Join
  <2>4. w \in Counters /\ w.iter = loop[t].iter
    <3> HIDE DEF gates, dups
    <3>1. (gates < MaxGateRejections /\ dups < MaxDuplicates) \in BOOLEAN OBVIOUS
    <3> QED BY <2>1, <2>2, <3>1 DEF Counters
  <2> HIDE DEF w
  <2> QED BY <2>3, <2>4, IterateFalls
<1> QED
  BY ONLY Proceed(t), <1>1, <1>2, <1>3, <1>4, <1>5, <1>6, <1>7, <1>8, <1>9, <1>10, <1>11
   DEF Proceed

\* A step of the service moves a turn on or does not touch it.
LEMMA OthersShrink ==
  ASSUME TypeOK, TypeOK', Placed, AgentsConsulted, [Next]_vars
  PROVE  \A u \in Turns : Shrinks(u) \/ UNCHANGED Work(u)
<1> USE DEF service, request, history, locals
<1>0. DOMAIN pc = Turns /\ DOMAIN rest = Turns /\ DOMAIN loop = Turns /\ DOMAIN calls = Turns
  BY DEF TypeOK
<1> DEFINE Same(u) == pc'[u] = pc[u] /\ rest'[u] = rest[u] /\ loop'[u] = loop[u] /\ calls'[u] = calls[u]
<1>a. \A u \in Turns : Same(u) => UNCHANGED Work(u) BY Keeps
<1>1. ASSUME NEW t \in Turns, Proceed(t) PROVE \A u \in Turns : Shrinks(u) \/ UNCHANGED Work(u)
  <2>1. CASE Works(t)
    <3>1. \A u \in Turns \ {t} : Same(u) BY <2>1, StepsAlone DEF Alone
    <3> QED BY <1>1, <1>a, <3>1, ProceedShrinks
  <2>2. ASSUME NEW k \in DOMAIN calls[t], Collect(t, k)
        PROVE  \A u \in Turns : Shrinks(u) \/ UNCHANGED Work(u)
    <3> DEFINE c == calls[t][k].agent
    <3>1. c \in Turns BY <2>2 DEF Collect, AgentsConsulted
    <3>2. pc[c] = "over" /\ pc' = [pc EXCEPT ![c] = "done"] /\ UNCHANGED <<rest, loop>>
      BY <2>2 DEF Collect, Goto
    <3>3. \A u \in Turns \ {t} : calls'[u] = calls[u] BY <1>0, <2>2 DEF Collect, Settle
    <3> HIDE DEF c
    <3>4. \A u \in Turns \ {t, c} : Same(u) BY <1>0, <3>2, <3>3
    <3>5. pc'[c] = "done" BY <1>0, <3>1, <3>2
    <3>6. Shrinks(c) BY <3>1, <3>2, <3>5, StageFalls, Stages
    <3> QED BY <1>1, <1>a, <3>4, <3>6, ProceedShrinks
  <2>3. ASSUME NEW k \in DOMAIN calls[t], NEW c \in Turns, NEW s \in Sessions, Spawn(t, k, c, s)
        PROVE  \A u \in Turns : Shrinks(u) \/ UNCHANGED Work(u)
    <3>1. pc[c] = "idle" /\ pc' = [pc EXCEPT ![c] = "history"] /\ UNCHANGED <<rest, loop>>
      BY <2>3 DEF Spawn, Start, Goto
    <3>2. \A u \in Turns \ {t} : calls'[u] = calls[u] BY <2>3, SpawnAt
    <3>3. \A u \in Turns \ {t, c} : Same(u) BY <1>0, <3>1, <3>2
    <3>4. pc'[c] = "history" BY <1>0, <3>1
    <3>5. Shrinks(c) BY <3>1, <3>4, StageFalls, Stages
    <3> QED BY <1>1, <1>a, <3>3, <3>5, ProceedShrinks
  <2>4. CASE Leave(t)
    <3>1. \A u \in Turns \ {t} : Same(u) BY <1>0, <2>4 DEF Leave, EndRun, Clean, Goto
    <3> QED BY <1>1, <1>a, <3>1, ProceedShrinks
  <2> QED BY <1>1, <2>1, <2>2, <2>3, <2>4 DEF Proceed, Works
<1>2. ASSUME NEW t \in Turns, NEW s \in Sessions, NEW a \in Asks, Open(t, s, a)
      PROVE  \A u \in Turns : Shrinks(u) \/ UNCHANGED Work(u)
  <2>1. pc[t] = "idle" /\ pc' = [pc EXCEPT ![t] = "history"] /\ UNCHANGED <<rest, loop, calls>>
    BY <1>2 DEF Open, Start, Goto
  <2>2. \A u \in Turns \ {t} : Same(u) BY <1>0, <2>1
  <2>3. pc'[t] = "history" BY <1>0, <2>1
  <2>4. Shrinks(t) BY <2>1, <2>3, StageFalls, Stages
  <2> QED BY <1>a, <2>2, <2>4
<1>3. ASSUME NEW t \in Turns, HangUp(t) PROVE \A u \in Turns : Shrinks(u) \/ UNCHANGED Work(u)
  <2> DEFINE D == Dropped(t)
  <2>1. \A u \in Turns \ D : Same(u) BY <1>0, <1>3 DEF HangUp, EndRun, Clean
  <2>2. \A u \in Turns : u \in D => pc'[u] = "done" /\ pc[u] \notin {"idle", "done"}
    BY <1>0, <1>3 DEF HangUp, Clean, Dropped, Running
  <2> HIDE DEF D
  <2>3. \A u \in Turns : u \in D => Stage(pc'[u]) < Stage(pc[u])
    BY <2>2 DEF TypeOK, Places, Stage
  <2>4. \A u \in Turns : u \in D => Shrinks(u) BY <2>3, StageFalls
  <2> QED BY <1>a, <2>1, <2>4
<1>4. CASE Operate \/ UNCHANGED vars
  <2>1. UNCHANGED <<pc, rest, loop, calls>>
    BY <1>4 DEF Operate, Stop, Clear, SetStatus, vars
  <2> QED BY <1>a, <2>1
<1>5. CASE Restart
  <2>1. \A u \in Turns : pc[u] = "idle" => Same(u)
    BY <1>0, <1>5 DEF Restart, EndRun, Clean
  <2>2. \A u \in Turns : pc[u] # "idle" => pc'[u] = "done"
    BY <1>0, <1>5 DEF Restart, Clean
  <2>3. \A u \in Turns : pc[u] \notin {"idle", "done"} => Stage(pc'[u]) < Stage(pc[u])
    BY <2>2 DEF TypeOK, Places, Stage
  <2>4. \A u \in Turns : pc[u] \notin {"idle", "done"} => Shrinks(u) BY <2>3, StageFalls
  <2>5. \A u \in Turns : pc[u] = "done" => UNCHANGED Work(u)
    BY <2>2 DEF Work, Iterations, Tries, Unsettled
  <2> QED BY <1>a, <2>1, <2>4, <2>5
<1> QED BY <1>1, <1>2, <1>3, <1>4, <1>5 DEF Next

\* A turn makes finitely many steps, whatever the model asks for, whichever
\* credentials fail and whatever operators do: with each of them its work falls in
\* an order without infinite descent, and nobody's step adds to it.
THEOREM TurnsShrink ==
  Spec => [][\A t \in Turns : /\ Shrinks(t) \/ UNCHANGED Work(t)
                              /\ Proceed(t) => Shrinks(t)]_vars
<1>1. IInv /\ IInv' /\ [Next]_vars =>
        [\A t \in Turns : /\ Shrinks(t) \/ UNCHANGED Work(t)
                          /\ Proceed(t) => Shrinks(t)]_vars
  BY OthersShrink, ProceedShrinks DEF IInv, Shape, Family
<1> QED BY <1>1, Inductive, PTL DEF Spec
===============================================================================
