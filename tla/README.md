# A TLA+ verification of Ordo

Ordo is a local runtime for AI agents: an assistant plans and calls tools,
external MCP servers run in a sandbox under trust levels, risky steps wait for
an operator, goals are worked on by several agents at once, automations run on
a schedule, and everything a turn says is appended to a log. This directory
holds TLA+ models of the parts whose correctness depends on what happens *at
the same time*, TLC runs that check them on small instances, and proofs that
TLAPS checks for all instances.

Paths below are relative to `src/`. Line numbers are those of the source this
was written against; `PROJECT.json` maps each definition to its lines.

    tlc -workers 2 -config ReviewRace.cfg Review        # one run
    tlapm ReviewProofs.tla                              # one proof module

## 1. Inventory

| Part (crate) | State | Operations | Talks to | What is hard | What makes it correct |
|---|---|---|---|---|---|
| **Review queue** `ordo-review` | rows in SQLite; a oneshot waiter per request; broadcast channel | `request`, `wait_for`, `request_and_wait`, `decide`, `expire` | assistant, LLM provider, REST routes, `/ws/review` | three critical sections per call and no common lock; deadlines racing decisions; waiters that replace each other; restarts | one verdict per request, told to everybody alike; every wait ends |
| **Review feed** `ordo-control/routes_review.rs` | position in a channel of 256 events; what the client shows | connect, snapshot, stream, re-snapshot after a lag | review queue, browser | a slow client loses events; events sent outside the lock | no open request stays hidden |
| **MCP servers** `ordo-mcp-registry`, `-sandbox`, `-client` | trust record per server in a map and in `<id>.json`; module and policy in the sandbox | install, uninstall, re_authorize, quarantine, set_trust, record_success, record_anomaly, invoke | assistant, admin routes | the map is changed under a lock and saved after it; saves share a temporary file; sandbox and registry change one after the other; crashes; REST calls dropped half-way | trust is earned; a quarantine holds and survives; file and map agree |
| **Orchestrator** `ordo-orchestrator` | plan (DAG), accepted, failed, attempts, rounds | `run`, `run_bounded`, dispatch of a round, verdicts | planning model, subagents, critic | permits, panics, retries, order of completion, cycles | ends always; dependencies first; success means all accepted |
| **Jobs** `ordo-jobs` | map of jobs with status, next run | register, remove, enable, disable, tick, fire_event, notify_path, mark_completed, mark_failed | automation | reports that come late; a toggle during a run | one run at a time, at its interval |
| **Automations** `ordo-automation` | specs, two maps to and from jobs, `automations.json` | register, approve, enable, disable, delete, tick, fire_event, save, load | jobs, control routes | change and save are two critical sections; write that a crash cuts off | maps agree; only approved and enabled ones run; the file ends up as the map |
| **Memory log** `ordo-memory-log` | table of events behind a mutex, health counters behind another, broadcast | append, health, health task; pins, tiers, integrity sweep | assistant turns | one append takes the two locks up to four times; repeats race the original | what is acknowledged is stored; idempotent; announced once; nobody blocks for ever |
| **Assistant** `ordo-assistant` | sessions and rows in SQLite; cancellation flags, taint and isolation per session in memory; a turn's messages, candidates, counters | turn, cancel, clear taint; sub-agents by `consult_mode_agent` and by the orchestrator | all of the above, model providers, tools over the bus | turns of one session share flag and taint; agents start agents; credentials change under a turn; a turn's future is dropped when its client goes | a stop reaches the right turn; a turn is served by what was asked; narrowed agents stay narrow; sensitive tools are gated once untrusted content was read; one row per answer; every turn ends |
| **Vault** `ordo-secrets-vault` | sealed rows, the `vault_state` row, the data key in memory | put, retire, get_for_provider, rotate, start | connections | rotate writes row by row and the key last | a half-done rotation is visible; a restart changes nothing |
| **Connections** `ordo-connections` | rows that name a secret of the vault | create, update, delete, test | vault, control routes | four or five critical sections per call, in two stores, without a transaction | table and vault agree |
| **Dispatcher, tasks** `ordo-dispatcher`, `ordo-tasks` (nothing uses them) | goals, tasks, who runs what | enqueue, claim, complete, fail, cancel, execute_goal | nobody | two workers claim one task; cancel racing complete | a task runs once; a goal ends |
| **Bus** `ordo-bus` | bounded broadcast, correlator, provider registry | publish, call, scatter_gather, heartbeat, sweep | every service | lag ends a stream; sweep racing heartbeats | a call is answered or fails |
| **Store** `ordo-store` | actor thread over SQLite; `atomic_write` | run a job, flush, close | all services | callers that give up; jobs that panic | jobs run once, in order |
| **Secrets broker** `ordo-secrets-broker` | capabilities | plan, commit_custody, validate, dereference, revoke | vault, tools | one-time use racing failure and revocation | no use after revocation, one use each |
| **Models** `ordo-cloud` | the local model that is loaded | enforce_single_local_model, completion | providers | two turns with two models | a model in use is not unloaded |
| **Webhooks** `ordo-webhooks` | subscriptions | subscribe, update, delete, deliver | bus | one task per envelope | at most once |

The other crates (data types, pure functions over text, front ends, network
plumbing, stores changed one call at a time) are listed with the reason they
are left out in `PROJECT.json`, `components`.

The hazards, each at the line where it bites and with the properties that
would catch it, are in `PROJECT.json`, `hazards`; the few without a property say
why.

How the parts interact in the models: `Turn` is the assistant by itself, in which
the answer of a tool, a model or a review is an outcome; at its review step a turn
is an *agent* of `Review`, where it logs a *writer* of `MemoryLog`; REST handlers are *operators* of
`Review`, *callers* of `McpServers` and of `Automation`; `ReviewFeed` composes
`Review` with the WebSocket session that reads its events; `Connections` composes
the connection store with `Vault`; `Automation` uses the job operators of `Jobs`,
which `JobScheduler` checks by themselves.

## 2. Modules

| Module | Models | Extends |
|---|---|---|
| `Approval` | abstract: what the approval lane promises | |
| `Review` | `ordo-review`, its callers, restarts | |
| `ReviewFeed` | `Review` composed with a `/ws/review` session | `Review` |
| `ReviewProofs` | theorems about `Review` and `ReviewFeed` | `ReviewFeed`, `TLAPS` |
| `McpServers` | registry, sandbox and client of MCP servers | |
| `McpServersProofs` | theorems about `McpServers` | `McpServers`, `TLAPS` |
| `Orchestrator` | the multi-agent driver | |
| `OrchestratorProofs` | theorems about `Orchestrator` | `Orchestrator`, `TLAPS` |
| `Jobs` | one job, and maps of jobs (operators) | |
| `JobScheduler` | `ordo-jobs` on its own | `Jobs` |
| `JobSchedulerProofs` | theorems about `JobScheduler` | `JobScheduler`, `TLAPS` |
| `Automation` | `ordo-automation` behind the control routes | `Jobs` |
| `AutomationProofs` | theorems about `Automation` | `Automation`, `TLAPS` |
| `MemoryLog` | `append` and `health` of `ordo-memory-log` | |
| `MemoryLogProofs` | theorems about `MemoryLog` | `MemoryLog`, `TLAPS` |
| `Turn` | `AssistantService::turn`, its agents, cancellation, taint | |
| `TurnProofs` | theorems about `Turn` | `Turn`, `TLAPS` |
| `Vault` | `ordo-secrets-vault` | |
| `Connections` | `ordo-connections` over the vault | `Vault` |
| `ConnectionsProofs` | theorems about `Vault` and `Connections` | `Connections`, `TLAPS` |
| `MC*` | instances: definitions for constants, symmetry, views | |

Operators marked `(mutant)` are plausible bugs of the definition that follows
them. No specification uses them; `PROJECT.json`, `mutants` says which property
each one must break, which shows that the property depends on that code.

### Review, Approval

`row` is the `state` column of the requests, `slot` the waiter map
(`slot[r]` is the agent whose sender it holds, or `Gone` if the receiver was
dropped), `rx` an agent's receiver, `feed` the events sent on the broadcast
channel. The store and the map have a mutex each, no call holds both, and
events are sent under neither: an action is one critical section. `request` is
`Insert`, `AnnounceOpened`. `wait_for` is one of `FindOpen`, `FindResolved`,
`FindNothing`, `FindFails`, then `Register` (which drops the sender it replaces:
`Cancel`), then `Woken`, `TimeOut` or `Canceled`, then `DropSlot` and `expire`
(`Expire`, `AnnounceExpired` or `ExpireTooLate`, `Reread`). `decide` is
`Decide`, `Wake`, `AnnounceResolved`. `HangUp` drops the future of a turn whose
HTTP client is gone (`ordo-control/src/routes_assistant.rs:290`). A store call
may fail (`FindFails`, `ExpireFails`, `DecideFails`); it may also fail in the
re-read that follows the UPDATE (`ExpireTorn`, `DecideTorn`). `Restart` keeps
the rows and nothing else. `ApiCalls` tells the call patterns of this
repository from those the public API allows (several waiters of one request,
`decide(Expire)`).

`Approval` says what all that is for, with three variables: a request is
absent, open or settled, what each agent and each operator was told. `Review`
implements it with `state <- row, told <- answer` (property `Implements`,
theorem `Refinement`).

### ReviewFeed

`link` is where the session's loop stands, `cursor` how far its receiver is,
`view` what a client that folds the stream shows (the client is a Studio page;
`Shown` is what it has to do). `Snapshot` sends the queue, `Deliver` an event,
`Lag` is `RecvError::Lagged`: the receiver continues at the oldest event the
channel holds and the session sends the queue again.

### McpServers

`mem`, `disk`, `tmp` and `box` are the registry's map, `<id>.json`,
`<id>.json.tmp` and the sandbox's map. A record is trust, success count, time
of install, and a *surface*, which stands for catalog, declaration and policy. A
call changes the map under its lock (`RecordSuccess`, `Change`), then saves the
copy it took: `WriteTmp`, `Stat`, `RemoveOld`, `Rename` are the file operations
of `FileLockfilePersist::save`, and other calls run between them. `install` and
`re_authorize` save first and `Insert` after. `invoke` is `Gate`, `Dispatch`,
then `Succeeds`, `Misbehaves` or `EndsUnreported`. `FileMissing` is a file that
another call took away, `FileFails` an I/O error, `Reboot` a crash at any point
followed by `load_persisted`. `HangUp` is a REST client that goes away: axum drops the
handler, the file operation it waits for still runs (`LastOperation`), and nothing
after it does; until that operation is over the call counts as under way. Tool calls
are not dropped that way. The histories `streak`, `unsaved`, `held`, `acked`, `gone`
say what happened so far; no guard reads them.

### Orchestrator

A subtask is a position in the plan; `id` is what the driver's maps are keyed by
and what the planning model chose. `Init` takes any plan `parse_plan` builds:
any dependencies, unknown ones included (`Wired` drops them). `StartRound` is the
top of the loop, `Spawn`, `Answer`, `Panic`, `Collect` the dispatch of a round
with its semaphore and the errors made up for panics, `Accept`, `Again`, `Fail`
the verdict on one result, `TimeOut` the wall clock of `run_bounded`.

### Jobs, JobScheduler, Automation

Time is whether a job's moment is reached (`wait`): that is all `is_due` asks.
Each operation of the scheduler is one step because its users hold it under one
lock. In `Automation` a route is two critical sections, the change
(`Register`, `Approve`, `Enable`, `Disable`, `Delete`) and the save (`Persist`
begins `fs::write`, which empties the file; `Written` ends it; `PersistFails`
is an error before or within it). The lock is held for the whole write, so no
other route runs between `Persist` and `Written` (`Free`), but a crash may come.
`Reboot` loads the file, or the defaults when it does not parse. `Register` takes any
spec the create route takes, an `approved` that the client set included.

### MemoryLog

Two mutexes: `store` and `counters` say who keeps one *between* two steps; what
is taken and released within a step shows in its guard (`LocksStore`). An
append is `Begin`, `CheckParent`, `Dedupe`, `Insert`, `GetById`, `RecordSuccess`
or `RecordFailure`, `Broadcast`. `KeepsStore` marks the two places where the
guard of the rows, a temporary in a `match` scrutinee and in an `if let`, lives
until the counters were locked. The health task appends a canary and then calls
`health()`, which keeps the counters while it waits for the rows. Senders may
repeat an event at any time, also after its first call returned.

### Turn

A turn is a member of `Turns`, agents included; `pc` says where its future stands.
`Start` is `turn()` up to `run_turn`: the session, `session_isolation`, the taint of
the message and of the consulting turn, `CancellationRegistry::register`. `Open` is
a caller's turn, `Spawn` that of an agent (`spawn_subagent_in_mode`). `ReadHistory`
finds the candidates; `Skip`, `Unreadable`, `Refuse`, `Resolve` and `NoCredential` read
one credential row per step. The tool loop is `Iterate` (the cancel check at its top),
then the model's answer: `CallFails` (failover), `Answered`, `Silent` (one more call
without tools) or `StartBatch`, where `Fate` decides on every call of the batch:
repeated, gated by taint, off the session's lanes, too deep, or run. `Reply` and
`Collect` end one call each, in any order; `Join` is `join_all`. What a result brings
into the messages is `Brings`: `direct` is content that the code marks the session for
(an untrusted MCP server's, or tags in the user's message), `untracked` such content
that it does not mark (of a web tool, which is a native provider, or of an MCP tool that
is not in the turn's schema and was named all the same), `consult` what an agent had
read that was asked for an answer. The end is
`Review`, `Insert`, `Leave`, in which the flag is released and `IsolationGuard`
drops. `HangUp` drops the future with those of its agents, `Restart` everything in
memory, `Stop`, `Clear` and `SetStatus` are what operators do. A *tool* stands for
a capability with its arguments: that is what the code compares to find a repeated
call. The histories (`seen`: how untrusted content came to a turn's messages;
`dirty`: the same of what a session stores; `gone`: credentials that were missing, or
that a turn which named them could not read; `stopped`, `murky`, `torn`) are read by
no guard.

### Vault, Connections

`sealed` is the table of secrets, with the key each is sealed under and its
`dek_generation`; `state` the `vault_state` row, `mem` the key in memory. `put`,
`retire` and `get_for_provider` hold the vault's mutex for one step. `rotate` holds
it from `BeginRotate` on and waits inside: `Reseal` is one UPDATE, `Finish` stores
the wrapped key and swaps it in; it may end before that by `Unopened` (a row does
not open under the key in memory) or `RotateFails`.

`Connections` adds the table of connections and its callers. `update` is `Update`
(read the row), `RetireOld`, `Seal`, `Write` and then a test (`Load`, `Open`,
`Judge`); `create` is `Create`, `Seal`, `Insert` and a test; `delete` is `Delete` and
`RetireDeleted`. Errors of retire are ignored (`SkipRetire`), others end the call.
Every step of a connection call is a step of `Vault` or leaves it alone, which is
proved (`UsesVault`).

## 3. Runs

Each run answers one question. `pass` runs are exhaustive within their bounds.

| Run | Configuration | Shows |
|---|---|---|
| `review_race` | `ReviewRace` | Two operators, two agents, a deadline, dropped futures, a store failure and a restart around one request, through the whole public API. What agents and operators were told agrees with the store (`AnswersAgree`: verdicts told are verdicts stored, refusals mean the request is closed, an acknowledged decision stands), the waiter map holds exactly the pending waiters (`SlotIsWaiter`), the service implements `Approval` (`Implements`), every call ends, also when a wake-up is lost or waiters cancel each other (`CallsEnd`), and what somebody waits on leaves the queue unless that very wait is dropped (`WaitedOnIsSettled`). |
| `feed_sync` | `FeedSync` | Who has read the stream shows every open request (`NoMissedRequest`), and an open request reaches a client that stays connected (`OpenIsShown`), with a channel of one event, a lag, dropped futures, a store failure and a restart. |
| `mcp_one_caller` | `McpOneCaller` | One call at a time, all operations, an I/O error, a dropped handler and a crash at any file operation: map and file agree unless the caller was told of an error or was gone (`SettledAgrees`), a quarantine that returned Ok survives (`QuarantineSurvives`), a server whose uninstall returned Ok is gone for good (`UninstalledStaysGone`). |
| `mcp_two_callers` | `McpTwoCallers` | Two calls at a time, `re_authorize` among them, with the same faults: every climb was earned since the last disturbance (`ClimbIsEarned`), a record that racing saves lose was reported lost or its caller had hung up (`LossIsReported`), no call in flight undoes a quarantine that began while nobody was about to insert the server's record (`QuarantineHolds`). |
| `orch_run` | `OrchRun` | Every plan of three subtasks, with shared ids, cycles and unknown dependencies, any verdicts, failures, panics, orders of completion: `DependenciesFirst`, `EveryDispatchCounts` (a panic uses up an attempt), `DispatchesCapped`, `GoodRunsComplete` (if nothing goes wrong, only the budget or a cycle stops a run), `Terminates`. |
| `jobs_api` | `JobsApi` | Two jobs of every kind, every operation, late reports: one run at a time (`OneRunAtATime`), not before its interval (`IntervalKept`). |
| `auto_api` | `AutoApi` | Two callers whose changes and saves interleave, a failing save, a crash within a write, a restart: the three maps agree (`MapsAgree`), what runs is enabled and approved, by `approve` or in the spec it was created with (`OnlyAllowedRuns`), the file ends up with what is in memory (`SettledFile`). |
| `log_append` | `LogAppend` | Two writers that append, repeat and chain events, the health task, an error or a restart: `AcknowledgedIsStored`, `AnnouncedOnce`, `IdempotentInWindow`, and nothing but the crossing of the two locks blocks a thread (`OnlyHealthBlocks`). |
| `log_health` | `LogHealth` | *Violation*, finding 1. |
| `turn_run` | `TurnRun` | Two turns on one session or two, or a turn and the agent it consults, with a stop, a hang-up, a restart, a cleared taint, a credential paused or deleted at any step, and rows that cannot be read: a stop reaches the turn that runs and no other (`StopIsExact`), a turn is served by the credential it named unless that one was missing or could not be read, and on this machine where its mode says so (`ServedAsAsked`), an agent's agents stay within its lanes (`LanesHold`), one numbered row per answer (`OneRowPerAnswer`), sensitive tools are gated once content was read that the code knows to be untrusted (`UntrustedIsGated`), every turn ends (`TurnsEnd`). |
| `turn_consult` | `TurnConsult` | *Violation*, finding 2. |
| `conn_calls` | `ConnCalls` | Two callers that create, change, delete and test one connection while the vault rotates twice, with two faults anywhere: table and vault agree (`SecretsMatch`), a half-done rotation shows (`HalfRotationVisible`), a restart makes nothing readable or unreadable (`RestartLosesNothing`). |

**Bounds.** One request is enough for the races of `review_race`: no action reads
or writes two rows or two slots, so requests only meet in the feed, where
`FeedSync` has two. Two agents make a waiter replace another, and a third could
only replace the second again; two operators race, with two verdicts, `approved` and
the `expired` that the public API lets an operator write: the code treats the three
decisions alike, and `FeedSync` has them. One server is enough for
the same reason, records, files and policies are per server; two callers make
saves overlap. Three subtasks make chains, forks, joins and cycles of two and
three. Two automations with three job ids make a job id be used again. Two ids
and two payloads let an event be a parent, a duplicate, and different.
Two turns and two sessions are a turn beside another of its session, beside one of
another session, or with the agent it consults; agents that consult agents need
three turns, which the proofs cover. Two lists of candidates, a local credential alone
and a remote one before it, have a failover, a credential that is named and one that a
diagnostic mode skips; a turn does not see another's list, and every further failover is
a step like the first. Two batches have a single call to an MCP tool, and a consult
beside a sensitive tool. Two iterations (one for agents), one gate rejection and one
duplicate put every counter of the loop on and past its cap.
One connection is
enough since no step reads two; two secrets are an old and a new one, and a third
would be needed only by a call after both were used: connection calls then stop
at `Seal`, as they would with any number. Two rotations are one that breaks off and
one that is tried again. A hang-up, a failing statement and a restart share
`MaxFaults`.
`MaxFaults`, `MaxCrashes`, `MaxHangUps`, `MaxFails`, `MaxBoots`, `MaxMishaps`,
`MaxInstalls`, `MaxMoves` bound how often something goes wrong, once each unless the
configuration says more: every property is about what one failure leaves behind, and the
guards that read these bounds are on the failing actions only. `MaxRuns` (two runs of a
job that are told apart), `MaxCount` (a success counter stops at the threshold) and
`MaxTime` bound counters.
`Window = 1` and `MaxTime = 2` put events on the
edge of the dedupe window, inside and outside of it.

`AutoApi` checks an `at` and an `event` automation, one of which needs approval,
with an empty list of defaults; `KindOf` has the other kinds, and the proofs hold for
every kind and any seeds.

**Symmetry and views.** Callers, writers, ids, payloads, secrets and fields are
compared for equality only; symmetry is used in runs without liveness. `View` of
`McpTwoCallers` leaves out the histories that none of its properties reads, and
`NoHistory` of `FeedSync` the events already read and the answers: no guard
reads those, so the states it merges have the same futures.

**Deadlock** is checked where the system never stops by itself (`jobs_api`,
`auto_api`, `mcp_one_caller`). The others end: all
requests settled and all bounds used up, an orchestrator run done. `MemoryLog` states
its own deadlock property, `OnlyHealthBlocks`, since the known one (finding 1) would
hide others.

## 4. Fairness

* `Review!FairSpec`: the steps a call takes by itself are taken (tokio runs a
  task that is ready, `tokio::time::timeout` fires), also the `wait_for` that
  follows the assistant's own `request`. Nothing makes an agent ask, an operator
  decide, a store fail or the runtime restart.
* `ReviewFeed!FairFeedSpec`: that, and the session's loop runs while it is
  connected (`Snapshot`, `Lag`, `Deliver`). A client need not connect.
* `Orchestrator!FairSpec`: the driver goes on, every subagent ends (by an answer,
  an error or a panic), the critic answers. Which subagent, and how, is free:
  fairness is on the disjunction.
* `MemoryLog!FairSpec`: threads run, and a lock that is free again and again is
  had some time. `parking_lot` locks are eventually fair, hence strong fairness.
  The health task ticks for ever.
* `Turn!FairSpec`: the task of a turn is run, and what it waits for (a model, a tool, an
  operator's decision) answers or its deadline passes; which of these, and with what, is
  free. Every wait for a model, a tool or an operator has a deadline, for streamed calls
  that of the request (`ordo-cloud/src/lib.rs:967`), and those for locks are short, but
  for the log's when finding 1 hangs it: `Turn` takes an append to return. The deadline
  of a tool call starts again at every other tool answer on the bus
  (`ordo-assistant/src/tools.rs:222`), so the fairness takes it that those do not arrive
  for ever at less than its length apart. Nothing makes a caller open a turn.

Operations of callers, crashes and faults have no fairness. `JobScheduler` and
`Automation` have none at all: nothing in the repository makes a client call the tick
route (`ordo-control/src/routes_automation.rs:343`), and nothing reports a run.

## 5. Proofs

The theorems hold for any sets of requests, agents, operators, servers and
callers, any number of subtasks, any thresholds and budgets, under the `ASSUME`s
of the modules: constants have their types, and the strings and model values that
mean "nobody" or "nothing" are no members of the sets they are used beside.

`ReviewProofs`. None of the answer properties is inductive: that a waiter is
told the stored verdict depends on what was in flight. `IInv` adds

* `SlotIsWaiter` - the map holds `a` for `r` exactly while `a` waits for `r` with
  nothing in its receiver. Without it, a `Wake` could reach a waiter of another
  request;
* `CallsHaveRows` - the request of a call in flight has a row, and an operator
  between `Decide` and `AnnounceResolved` carries the verdict of the row;
* `SentIsStored` - a verdict in a receiver is the row's;
* `GaveUpIsClosed` - a waiter that reports a refusal has seen its row closed;
* `AnswersAgree` - the three properties themselves, which need that rows are final.

`InitIInv`, then one lemma per conjunct with one step per action, give
`Inductive`. `TypeCorrect`, `SlotsCorrect` and `AnswersCorrect` are conjuncts of
it, `RowsFinal` an action property under it, `Refinement` maps every step to a
step of `Approval` or a stutter under it.

Of `CallsEnd` everything but the fairness is proved. `WaiterListens`: a waiter's
receiver has a verdict, was canceled, or may be resolved until its deadline; so
wherever a call stands it can go on by itself (`CallsGoOn`), also one whose sender
another waiter replaced or a clean-up took out of the map. And each of its steps takes
from `StepsLeft`, at most seven, while no other agent, no operator and no restart
puts anything back (`CallsShrink`).

The same for the queue with a session attached. `NoMissedRequest` speaks of a client
that has read the whole stream; the invariant behind it, `ShownOrComing`, of every
moment: while the session streams, a request that is open and past its announcement
is in the view or its Opened event lies between the session's cursor and the end of
the channel. A step of a call may close rows and send one event (`FeedMoves`); a
decision takes requests from the view only when they are closed (`ResolvedIsClosed`);
and a session that lost events is not streaming until its next snapshot.
`FeedInductive` keeps that together with `IInv`, `FeedCorrect` is the property, and
`FeedKeepsPromise` says that the composition still implements `Approval`
(`FeedSpec` does not imply `Spec`: a snapshot that the store refuses is a fault which
no call has).

`McpServersProofs`. `Earned` (property `ClimbIsEarned`) needs that the counter of
the map is backed by successes since the last disturbance: `CountIsBacked`. That
needs `CallsCarry`: a record on its way to be inserted starts at zero.
`LossReported` holds of calls that overlap in any way but one: the record of a
server in the map (or about to be) is in its file, or a save holds it in the
temporary file and will rename it, or a loss was reported or its caller had hung up
(`RecordsCovered`), and an
uninstall empties the map before it deletes the file (`ForgottenFirst`). The
exception is `UninstallsApart`: an uninstall that overlaps with an install or
re_authorize of the server may delete the file of the record they insert.

`HoldsRacing` (property `QuarantineHolds`) has no hypothesis: calls overlap in any way,
`re_authorize` included. What it needs is in the property: `held` is set by a quarantine
that begins while no install or `re_authorize` of the server is past its read, since one
that is will write its older record over the quarantine (section 6). `HeldInv` says that
from then on nobody is about to insert a record of the server, until an operator call
that may release it begins.

`SettledAgrees`, `QuarantineSurvives` and `UninstalledStaysGone` are not theorems. They
are false of calls that save one record at the same time, for which the code has no lock,
and model-checked for one caller.

`OrchestratorProofs`. `ShapeInv` holds for every plan, cyclic or with shared ids:
types, `DependenciesFirst`, and that an id without a result is a subtask's (without
it the made-up errors of `Collect` would name nothing). `CapInv` holds for every plan,
too, although the driver's maps confuse subtasks with one id:

* `Accounted` - no subtask was dispatched more often than attempts of its id were
  counted, plus once if the round will count one (`Owed`); what waits has not used up
  its attempts. `AttemptLeft` - an id that is not settled has an attempt left. Together
  they give `AttemptsCapped`: no conjunct of the code compares dispatches with the
  cap, only attempts, one round later;
* `AcceptedPassed`, `DoneIsDone` - until a halt the map of accepted ids is the ids of
  the subtasks whose own result passed, and the run is done only if it covers the
  plan. `SuccessPerId` is what that says of any plan; it is not the success of every
  subtask (section 6).

`DispatchesCounted` (property `EveryDispatchCounts`) is for every plan as well: every
dispatch was counted by the end of its round, and to a subtask with an id of its own
nothing else was counted. `CountInv` has

* `Placed` - a dispatched subtask with an id of its own waits, runs, has panicked or has
  one result, never two of these. Without it one dispatch could be judged twice;
* `Counted` - its attempts are its dispatches, but for the one that is not judged yet.

Of `Terminates` everything but the fairness is proved. `Variant` counts what is left:
`RoundSteps`, 5N + 3, for every round of the budget, and in a round what waits, runs and
has yet to be judged. It is a natural number, at first 1 + MaxRounds * (5N + 3)
(`FirstVariant`), and every step lowers it (`StepsBounded`): neither Revise verdicts nor
panics nor shared ids make a run longer. Until the run has ended there is a step
(`NoDeadEnd`): the driver's, a subagent's, or a permit for the next that waits.

`GoodCorrect` (property `GoodRunsComplete`) is proved for every plan again. While all
goes well nothing has failed and only the budget or a round with nothing ready halts the
loop (`CleanInv`); and dependencies are subtasks of the plan (`DepsKnown`), so a round
with nothing ready has left only subtasks that wait for each other. Were the plan acyclic,
there would be ranks; of the ranks of what is left one is the least (`LeastRank`, from the
library's well-foundedness of the naturals), and its subtask waits for one of a lower
rank that is left as well (`StuckIsCyclic`).

`JobSchedulerProofs`. `OneRunAtATime` needs `BusyIsNotEnabled`: a job with a run that
was not reported is not Enabled, which is what `tick` and `fire_event` look at, unless
it was enabled while it ran. `IntervalKept` needs `TimeHasPassed`.

`AutomationProofs`. `MapsAgree` (specs and jobs name each other) is inductive with
`JobsAllowed`: a job exists only for an automation that may run and is Enabled only
while the automation is. That gives `OnlyAllowedRuns`. `SettledFile` is inductive by
itself: a call that has yet to save is not idle, and the lock is held for the write.

`MemoryLogProofs`. `OneEventPerId` says that log and threads mean one event by an id,
`AnswersNameRows` that an answer names a row with the payload sent, `FreshIsUnannounced`
that a fresh answer is held by one thread and was not announced: with it
`AnnouncedOnce` is inductive, across a restart too. `NoneRecent` - dedupe found no row
that was there when the call began - gives the action property `IdempotentInWindow`.
`NotStuckCorrect` is `OnlyHealthBlocks` without ENABLED: the guards of the steps are
written down as `CanProceed`, the run checks that they are those of the steps, the theorem
that one of them holds unless the known cycle is closed. It needs that only the health
task keeps the counters (`OnlyProberCounts`) and that of the rows with a payload one is
the latest (`LatestExists`).

`ConnectionsProofs`. Of the vault: `KeysDrawn` (no row is newer than the last key drawn;
during a rotation exactly the rows it has reached carry the new key and generation) and
`UntornOpens` give `HalfRotationVisible` and `RestartLosesNothing`. Theorem `UsesVault`
says that `ConnSpec` implements the vault's `Spec`, so both hold of the composition.
`SecretsMatch` is about connections at rest; in between, `Accounted`
says for every connection which secrets it holds: the one its row names, one that a
call brings, one that a call has yet to retire. A call brings only a secret that it
sealed itself (`Brings`), that nothing else names (`NobodyElses`) and that is active
(`BroughtIsActive`); a connection being created is alone with its call
(`CreatedOnce`).

`TurnProofs`. The invariant has six groups, one for each property:

* `Shape` - types, and which locals are set where a turn stands;
* `Family` - an agent is consulted by exactly one call that waits for it, of a turn
  with the same root and a smaller depth; the session of an agent is its own and
  guarded with its depth and lanes. `LanesHold` follows, at any number of hops: the
  lanes of a session shrink from the caller's turn down;
* `Serving` - what was asked for comes first among the candidates until it is found
  missing or unreadable, and nothing follows a credential that was asked for or has to
  be local;
* `Flagged` - a session that is not `murky` has one turn at a time and its flag;
* `Tainted` - content that the service knows to be untrusted has marked the session, for
  turns under way and for stored ones;
* `RowsPlaced` - the rows of a turn by where it stands, and `turn_count` is above
  every index unless an insert broke off.

`HangUp` is the step that needs the family: a dropped turn takes with it all turns
with its root, and no other turn may wait for one of these. That an agent's root is
a turn that waits is shown by taking the member of the family with the least depth.

Of `TurnsEnd` everything but the fairness is proved. `Awaited` is the other side of
`Family`: the agent that a call waits for is under way, for that call alone, deeper and
with the same root. Of the turns below one that waits the deepest does not wait, so
somebody can always go on (`TurnsGoOn`); hang-ups and restarts take whole families and
leave no caller behind. `Work` is what a turn has left: the stage it is in, its
iterations, the credentials it may still try, the calls of its batch that are not
settled. In the lexicographic order, which is well-founded (`WorkEnds`), every step of a
turn lowers its work, failover, stops and a consulted agent's answer included, and no step
of another turn, an operator or the process raises it (`TurnsShrink`).

Only model-checked is what the prover cannot state: liveness under fairness
(`CallsEnd`, `WaitedOnIsSettled`, `OpenIsShown`, `Terminates`, `TurnsEnd`; of
`CallsEnd`, `Terminates` and `TurnsEnd` the variant and the absence of dead ends are
theorems, and what is left to the runs is that the guards written down there are those of
the steps and that fairness takes the steps), and that the guards of `OnlyHealthBlocks`
are those of its steps, which uses ENABLED; and the three properties of `mcp_one_caller`.
The other properties of the passing runs are theorems. Of the two violations there is a
counterexample and nothing to prove.

## 6. Findings

1. **The event log can hang** (`log_health`). A failing dedupe query counts its
   failure with the rows locked (`ordo-memory-log/src/service.rs:233-246`), and
   `health()` counts the rows with the counters locked (`:404-406`). When the
   two meet, every later append and health probe hangs. The `if let` at
   `:276-288` crosses the locks without an error. `:104-106`: "so a write-path
   failure is visible".
2. **A consulted agent's taint does not flow back** (`turn_consult`).
   `meta_consult_mode_agent` looks up the taint of the agent's session after its
   turn returned (`ordo-assistant/src/meta_tools.rs:718`), when the turn's
   `IsolationGuard` has removed it (`service.rs:382-390`). `meta_tools.rs:715-717`:
   "taint flows back so a clean parent can't launder it in".

Observed while modelling, part of the models, and without a run of its own; where the
source says otherwise, it is quoted:

* *Review.* A decision between the fast path of `wait_for` and the registration
  wakes nobody: the caller is refused at its deadline although the request was
  approved (`ordo-review/src/service.rs:98`, `:110`). A second `wait_for`
  cancels the first, whose clean-up cancels the second and expires the request
  (`:103`). Opened and Resolved of one request may be sent in either order, so a
  client may show a request that is closed until its next snapshot
  (`ordo-control/src/routes_review.rs:171`).
* *MCP servers.* `re_authorize` clones the entry (`ordo-mcp-registry/src/lib.rs:634`),
  awaits its save and inserts the clone (`:664`): what was recorded meanwhile is
  overwritten in the map, also a quarantine that began meanwhile, of which
  `QuarantineHolds` says nothing. An older copy may be saved last, so that a restart
  forgets a quarantine (`:755`) or brings back a server whose uninstall raced a save
  (`:477`). The sandbox keeps a new policy when the registry's part of `re_authorize`
  fails (`ordo-control/src/routes_mcp.rs:248`). `re_authorize` also raises Untrusted and
  Quarantined servers to Observed (`:661`). Time at a rung is counted from the install
  (`graduation.rs:37`). Modules are not restored at a start
  (`ordo-runtime/src/lib.rs:930`), so calls to a restored server fail and each demotes it.
  A REST client that hangs up between `remove_file` and `rename` (`:234-238`) drops the
  handler and leaves an installed server without a record, with nobody told and the next
  start not knowing the server, where `:11` says "Every installed MCP server has a signed
  lockfile": `LossIsReported` and `SettledAgrees` speak of callers that stayed.
* *Orchestrator.* Two subtasks to which the planning model gives one id share one `Uuid`
  (`ordo-orchestrator/src/plan.rs:154`), and the driver's maps are keyed by it: the
  accepted result of one completes both, and the goal succeeds although the other failed,
  where `driver.rs:49` says "True iff every subtask in the plan was accepted". The deadline
  of `run_bounded` drops all progress (`driver.rs:82-102`).
* *Jobs.* A recurring job whose run failed is due at once
  (`ordo-jobs/src/lib.rs:80`); the report of a run enables a job that was
  disabled meanwhile (`:358`).
* *Automations.* The create route takes a whole spec, and one whose metadata says
  `approved` passes the gate (`ordo-control/src/routes_automation.rs:269`,
  `ordo-automation/src/lib.rs:172-173`): the client of this API is the operator, whose
  approval it is, and no doc says that it has to be given in a second call, so the model
  has it. A stop within `save_to_path`, which writes in place (`:154`) where other
  routes of the same API use `atomic_write`, leaves a file that does not parse, and the
  start falls back to the defaults (`ordo-control/src/lib.rs:434-442`): all automations
  are lost, where `docs/architecture.md:185` wants them "recoverable". Nothing in the
  repository reports how a run went, so an interval automation is triggered once per
  start (`ordo-jobs/src/lib.rs:311`, where `:108` says "Runs repeatedly on a schedule";
  `docs/skill-routing.md:204` knows that there is no executor). An `at` automation whose
  time passed runs again at every start and approval (`ordo-automation/src/lib.rs:125`);
  a spec created disabled has no job after `enable` until the next start (`:221`).
* *Memory log.* Storage errors of the parent check and of `get_by_id` are not
  counted; two appends of one payload at a time both insert; the dedupe looks at
  the payload only, so an event may be answered with a row of another type or
  parent; a crash between insert and broadcast is never made up for.
* *Turns.* Two turns of a session share a flag and the first to end removes it, so a
  later stop misses the second (`ordo-assistant/src/service.rs:1284`). A dropped turn
  never releases its flag: the stop that follows a closed WebSocket flips it and the
  session's next turn is cancelled at once. An agent's guard, a restart and an
  operator's clear remove the taint, the session's stored turns keep the content. A
  failed call whose next candidate is paused or missing calls the failed credential
  again; a paused credential stays in use for the rest of a turn. `insert_turn` is two
  statements without a transaction (`ordo-assistant/src/store.rs:192`), so a failure
  between them gives two turns one index. A tool that the model names although it is not
  in its schema is run, and what it brings is not marked (`service.rs:2652-2657`). Nor
  is what web tools read: only the provider `mcp:` marks a session (`:2150`,
  `:2840-2856`), and theirs is the native strainer. `:302-305` counts "web fetches via
  the strainer" in and `:2746-2748` says that "every result already flows through the
  boundary wrap so the cup gate sees them as untrusted ancestry"; the comment at
  `:2828-2830`, on the other hand, takes the output of native tools for first-party.
  With finding 2, this is why `UntrustedIsGated` speaks of content the code knows to be
  untrusted; the rest is `untracked` in `Turn`. A credential that the caller named and
  that cannot be read (the vault is locked, the store fails) is passed over like a
  missing one (`:1469-1473`), and another one serves the turn.
* *Vault and connections.* A rotation that breaks off after its first row leaves rows
  under a key that is stored nowhere, and a second attempt ends at the first of
  them; the comment at `ordo-secrets-vault/src/service.rs:432-434` expects that it
  can be repeated. Only tests call `rotate` today. `update` of a connection retires
  the old secret before it seals the new one (`ordo-connections/src/service.rs:174`):
  when that fails the row names a retired secret. Two updates at a time, or an
  update beside a delete, leave active secrets that no row names, or bring an old
  name back; `SecretsMatch` excuses these connections (`crossed`) and no others. `test`
  writes its verdict by id after an unlocked wait (`:248`), so a row may keep a verdict on
  fields that an update replaced meanwhile, where `:16-17` says "against the current fields".
* *Bus.* A subscription that falls 1024 messages behind ends
  (`ordo-bus/src/lib.rs:73`); `McpHost::run` leaves its loop when one of its four
  subscriptions does (`ordo-mcp-host/src/lib.rs:186`), after which tool calls run
  into their deadlines. `CorrelatorError::Lagged` is declared and never returned:
  `scatter_gather` then answers with what it has.

## 7. Not modelled, and the plan

Left out of the modelled parts: texts, JSON, hashes and signatures, prompts,
what a WASM module does (an outcome), the ring buffer of the anomaly ledger and
drift reports, pins, tiers, soft deletion and the integrity sweep of the log,
the agent-team routes, cron expressions (no cron job is ever due by
`is_due`), file watching. `MemoryLog` takes ids to be unique per event.

Of `Turn`: the wording of prompts, the memory and knowledge meta-tools (calls like
others), the history window, tokens, `subagent_depth` set by a REST client, the
orchestrator's own loop (module `Orchestrator`). The search for boundary tags in a
message is whether the message has them (`web`). Of `Vault` and `Connections`: the
sealers, classes of secrets (threshold rows are sealed in the same way), the
saturation of the generation at `u32::MAX`, the testers' HTTP; an update brings new
fields or a new secret, not both.

The order of the modules was: the approval lane first, since everything risky
passes it; then MCP trust, the second gate; the orchestrator's loop; jobs and
automations; the event log; the turn, in which these meet; the vault and its user.
What is left, and why it was left:

1. `ordo-bus`: a subscription's fate depends on the loop that reads it, and these
   loops are in a dozen crates; what reaches the modelled parts is a call that ends
   without an answer, which `Turn` has. A model of the correlator with one
   subscriber that lags would come next, against an abstract call and reply.
2. `ordo-cloud` model lifecycle: which model is loaded is up to external programs.
3. `ordo-dispatcher`, `ordo-tasks`, `ordo-secrets-broker`: nothing outside tests calls
   them, so there are no actors whose interleavings a model could take over. (The
   doc of `execute_goal` speaks of the goal's tasks, the code stops at the first
   ready task of another goal, `ordo-dispatcher/src/lib.rs:262`.)
4. `ordo-store`, `ordo-webhooks`: one job, one row or one envelope at a time.
5. `ordo-memory-projection` and the other pure functions: their inputs are texts and
   tables, and unit tests reach them.

Theorems worth proving next: what remains true of a server's record when its writers do
overlap, beyond `LossReported` and `HoldsRacing` (that a file which differs from the map
holds a record the map had since the last settled state), and for how long a client of
`ReviewFeed` may show a request that is closed (until its Resolved arrives, unless Opened
was sent after it or a fault lost it, then until the next snapshot).
