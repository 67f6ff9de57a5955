----------------------------- MODULE McpServers -----------------------------
(***************************************************************************)
(* Installed MCP servers: the registry (ordo-mcp-registry) keeps a signed  *)
(* record per server in memory and in <id>.json, the sandbox               *)
(* (ordo-mcp-sandbox) keeps the module and its policy in memory only, the  *)
(* client (ordo-mcp-client) invokes servers and reports to the registry.   *)
(* The registry's map is locked for one critical section at a time and     *)
(* never across an await: the record an operation changed under the lock   *)
(* is saved after it, by file operations that other calls interleave with. *)
(***************************************************************************)
EXTENDS Integers

CONSTANTS
  Servers,    \* server ids
  Callers,    \* tasks: tool calls of the assistant, REST and admin handlers
  Surfaces,   \* catalogs and capability declarations a server may be given
  Risks,      \* risk levels of the tools that are invoked
  Ops,        \* the operations the callers of a run use
  Threshold,  \* GraduationPolicy: successes that each rung asks for ...
  Dwell,      \* ... and the time
  None,       \* no entry, no file, no server
  MaxTime, MaxCount,      \* bounds on the clock and on a success counter
  MaxInstalls, MaxFaults, MaxCrashes, \* on installs, failing file operations, restarts
  MaxHangUps  \* and REST calls whose client goes away

Rungs == {"untrusted", "observed", "validated", "trusted", "quarantined"}
Climbing == {"untrusted", "observed", "validated"}
RiskLevels == {"read_only", "mutating", "sensitive", "high_risk"}
AllOps == {"install", "uninstall", "re_authorize", "quarantine", "set_trust",
           "critical", "invoke"}

ASSUME McpAssumption ==
  /\ Ops \subseteq AllOps /\ Risks \subseteq RiskLevels
  /\ Threshold \in [Climbing -> Nat] /\ Dwell \in [Climbing -> Nat]
  /\ MaxTime \in Nat /\ MaxCount \in Nat
  /\ MaxInstalls \in Nat /\ MaxFaults \in Nat /\ MaxCrashes \in Nat /\ MaxHangUps \in Nat

VARIABLES
  mem,     \* the registry's map: an InstalledServer or None
  disk,    \* <id>.json
  tmp,     \* <id>.json.tmp
  box,     \* the sandbox's map: the policy's surface, or None
  pc, on, rec, after, \* per caller: where its call stands, the server it is about,
           \* the copy of the record it saves, what follows the save (of a dropped
           \* call: the file operation that is still under way)
  now,     \* the clock
  streak,  \* history: successes since the last other change of the trust state
  unsaved, \* history: the last file operation on the record failed and its caller
           \* was told, or the caller had hung up
  held,    \* history: quarantined with no insert under way, and no call that may
           \* release it was begun since, nor the runtime restarted
  acked,   \* history: a quarantine call returned Ok, no release begun since
  gone,    \* history: "asked": an uninstall began with no insert under way and no
           \* install began since; "yes": it returned Ok, too
  installs, faults, crashes, hangups

registry == <<mem, disk, tmp, box>>
calls == <<pc, on, rec, after>>
history == <<streak, unsaved, held, acked, gone>>
budget == <<installs, faults, crashes, hangups>>
vars == <<registry, calls, now, history, budget>>

Record == [trust : Rungs, count : Nat, at : Nat, surface : Surfaces]
ASSUME McpNames ==
  None \notin Surfaces \union Servers /\ None \notin Record /\ "insert" \notin Surfaces

PCs == {"idle", "gated", "running", "trapped", "install", "authorize",
        "read", "write", "stat", "remove", "rename", "insert", "forget", "unlink", "dropped"}

Saving == {"write", "stat", "remove", "rename", "insert"}
FileSteps == {"write", "stat", "remove", "rename", "unlink"}

\* ServerTrustState::rank and ToolRiskLevel::min_trust.
Rank(trust) == CASE trust = "quarantined" -> -1 [] trust = "untrusted" -> 0
                 [] trust = "observed" -> 1 [] trust = "validated" -> 2
                 [] trust = "trusted" -> 3
MinTrust(risk) == CASE risk = "read_only" -> "untrusted" [] risk = "mutating" -> "observed"
                    [] risk = "sensitive" -> "validated" [] risk = "high_risk" -> "trusted"

Up(trust) == CASE trust = "untrusted" -> "observed" [] trust = "observed" -> "validated"
               [] trust = "validated" -> "trusted"
\* GraduationPolicy::demote_one.
DownWraps(trust) == CASE trust = "trusted" -> "validated" [] trust = "validated" -> "observed"
                      [] OTHER -> "untrusted"   \* (mutant) Untrusted is the last rung
Down(trust) == CASE trust = "trusted" -> "validated" [] trust = "validated" -> "observed"
                 [] trust = "observed" -> "untrusted" [] OTHER -> "quarantined"

\* GraduationPolicy::graduation_target: is there a rung to climb to?
Graduates(r) ==
  /\ r.trust \in Climbing
  /\ r.count >= Threshold[r.trust]
  /\ now - r.at >= Dwell[r.trust]

\* The record after a success, and after any other change of its trust state.
Succeeded(r) ==
  LET counted == [r EXCEPT !.count = @ + 1]
  IN IF Graduates(counted) THEN [counted EXCEPT !.trust = Up(@), !.count = 0] ELSE counted
MovedKeepingCount(r, trust) == [r EXCEPT !.trust = trust]  \* (mutant)
Moved(r, trust) == [r EXCEPT !.trust = trust, !.count = 0]

Init ==
  /\ mem = [s \in Servers |-> None] /\ disk = mem /\ tmp = mem /\ box = mem
  /\ pc = [c \in Callers |-> "idle"]
  /\ on = [c \in Callers |-> None] /\ rec = on /\ after = on
  /\ now = 0
  /\ streak = [s \in Servers |-> 0]
  /\ unsaved = [s \in Servers |-> FALSE] /\ held = unsaved /\ acked = unsaved
  /\ gone = [s \in Servers |-> "no"]
  /\ installs = 0 /\ faults = 0 /\ crashes = 0 /\ hangups = 0

-----------------------------------------------------------------------------
(* Steps of a call: go to the next one, begin a save of r, return.         *)

Goto(c, step) == pc' = [pc EXCEPT ![c] = step]

Begin(c, s, step) ==
  /\ pc[c] = "idle" /\ Goto(c, step)
  /\ on' = [on EXCEPT ![c] = s]
  /\ UNCHANGED <<rec, after>>

SaveEntry(c, s, r, next) ==   \* (mutant) saves the entry as it was
  /\ Goto(c, "write")
  /\ on' = [on EXCEPT ![c] = s]
  /\ rec' = [rec EXCEPT ![c] = mem[s]]
  /\ after' = [after EXCEPT ![c] = next]

Save(c, s, r, next) ==
  /\ Goto(c, "write")
  /\ on' = [on EXCEPT ![c] = s]
  /\ rec' = [rec EXCEPT ![c] = r]
  /\ after' = [after EXCEPT ![c] = next]

Return(c) ==
  /\ Goto(c, "idle")
  /\ on' = [on EXCEPT ![c] = None]
  /\ rec' = [rec EXCEPT ![c] = None]
  /\ after' = [after EXCEPT ![c] = None]

\* An operator call that may let a quarantined server run again has begun.
Released(s) == /\ held' = [held EXCEPT ![s] = FALSE]
               /\ acked' = [acked EXCEPT ![s] = FALSE]
\* The record of s that an install or re_authorize saves will be inserted.
Inserting(s) == \E d \in Callers : on[d] = s /\ after[d] = "insert"
\* The trust state of s was changed by something other than successes.
Disturbed(s) == streak' = [streak EXCEPT ![s] = 0]

-----------------------------------------------------------------------------
(* record_success, record_anomaly, quarantine, set_trust_state: the map is *)
(* changed under its lock and a copy of the entry is saved after it.       *)

RecordSuccess(c, s) ==
  /\ mem[s].count < MaxCount
  /\ LET r == Succeeded(mem[s]) IN
       /\ mem' = [mem EXCEPT ![s] = r]
       /\ streak' = [streak EXCEPT ![s] = IF r.trust = mem[s].trust THEN @ + 1 ELSE 0]
       /\ Save(c, s, r, "return")
  /\ UNCHANGED <<unsaved, held, acked, gone>>

ChangeSavesOld(c, s, trust, next) ==   \* (mutant) the copy is taken before the change
  /\ mem' = [mem EXCEPT ![s] = Moved(mem[s], trust)]
  /\ Disturbed(s)
  /\ Save(c, s, mem[s], next)

Change(c, s, trust, next) ==
  LET r == Moved(mem[s], trust) IN
    /\ mem' = [mem EXCEPT ![s] = r]
    /\ Disturbed(s)
    /\ Save(c, s, r, next)

Anomaly(c, s, trust) ==
  Change(c, s, trust, "return") /\ UNCHANGED <<unsaved, held, acked, gone>>

CriticalAnomaly(c, s) ==
  /\ "critical" \in Ops /\ pc[c] = "idle" /\ mem[s] # None
  /\ Anomaly(c, s, "quarantined")
  /\ UNCHANGED <<disk, tmp, box, now, budget>>

Quarantine(c, s) ==
  /\ "quarantine" \in Ops /\ pc[c] = "idle" /\ mem[s] # None
  /\ Change(c, s, "quarantined", "acknowledge")
  /\ held' = [held EXCEPT ![s] = ~Inserting(s)]
  /\ UNCHANGED <<disk, tmp, box, now, unsaved, acked, gone, budget>>

SetTrust(c, s, trust) ==
  /\ "set_trust" \in Ops /\ pc[c] = "idle" /\ mem[s] # None
  /\ Change(c, s, trust, "return") /\ Released(s)
  /\ UNCHANGED <<disk, tmp, box, now, unsaved, gone, budget>>

-----------------------------------------------------------------------------
(* Client: the trust gate reads the entry, the sandbox runs the module,    *)
(* and the outcome is reported to the registry (its errors are ignored).   *)

Gate(c, s, risk) ==
  /\ "invoke" \in Ops /\ mem[s] # None
  /\ Rank(mem[s].trust) >= Rank(MinTrust(risk)) /\ mem[s].trust # "quarantined"
  /\ Begin(c, s, "gated")
  /\ UNCHANGED <<registry, now, history, budget>>

\* The policy of the entry found here is the one the module runs under; no
\* entry is an Internal error, and so is a call over the rate limit.
Dispatch(c) ==
  /\ pc[c] = "gated"
  /\ \/ box[on[c]] # None /\ Goto(c, "running")
     \/ box[on[c]] = None /\ Goto(c, "trapped")
  /\ UNCHANGED <<registry, on, rec, after, now, history, budget>>

RateLimited(c) ==
  /\ pc[c] = "gated" /\ box[on[c]] # None /\ Goto(c, "trapped")
  /\ UNCHANGED <<registry, on, rec, after, now, history, budget>>

Succeeds(c) ==
  /\ pc[c] = "running" /\ mem[on[c]] # None
  /\ RecordSuccess(c, on[c])
  /\ UNCHANGED <<disk, tmp, box, now, budget>>

\* A trap, a limit, the 30 s timeout, a security-class extraction error:
\* every error of the sandbox is a Minor anomaly.
Misbehaves(c) ==
  /\ pc[c] \in {"running", "trapped"} /\ mem[on[c]] # None
  /\ Anomaly(c, on[c], Down(mem[on[c]].trust))
  /\ UNCHANGED <<disk, tmp, box, now, budget>>

\* A quality-class extraction error is not reported; a server that was
\* uninstalled meanwhile gets NotInstalled.
EndsUnreported(c) ==
  /\ pc[c] \in {"running", "trapped"}
  /\ pc[c] = "trapped" => mem[on[c]] = None
  /\ Return(c)
  /\ UNCHANGED <<registry, now, history, budget>>

-----------------------------------------------------------------------------
(* Admin handlers: install, uninstall and re_authorize change the sandbox  *)
(* first and the registry after it.                                        *)

Install(c, s, surface) ==
  /\ "install" \in Ops /\ pc[c] = "idle"
  /\ installs < MaxInstalls /\ installs' = installs + 1
  /\ box' = [box EXCEPT ![s] = surface]
  /\ gone' = [gone EXCEPT ![s] = "no"] /\ Released(s)
  /\ Save(c, s, [trust |-> "untrusted", count |-> 0, at |-> now, surface |-> surface], "insert")
  /\ UNCHANGED <<mem, disk, tmp, now, streak, unsaved, faults, crashes, hangups>>

UpdatePolicy(c, s, surface) ==
  /\ "re_authorize" \in Ops /\ box[s] # None /\ pc[c] = "idle"
  /\ box' = [box EXCEPT ![s] = surface]
  /\ Goto(c, "read") /\ on' = [on EXCEPT ![c] = s]
  /\ after' = [after EXCEPT ![c] = surface]
  /\ UNCHANGED <<mem, disk, tmp, rec, now, history, budget>>

ReAuthorize(c) ==
  LET s == on[c] IN
  /\ pc[c] = "read"
  /\ \/ /\ mem[s] # None
        /\ Save(c, s, [Moved(mem[s], "observed") EXCEPT !.surface = after[c]], "insert")
        /\ Released(s)
     \/ mem[s] = None /\ Return(c) /\ UNCHANGED <<held, acked>>
  /\ UNCHANGED <<registry, now, streak, unsaved, gone, budget>>

\* servers.write().insert once the save is done, for install and re_authorize.
Insert(c) ==
  /\ pc[c] = "insert"
  /\ mem' = [mem EXCEPT ![on[c]] = rec[c]]
  /\ streak' = [streak EXCEPT ![on[c]] = 0]
  /\ Return(c)
  /\ UNCHANGED <<disk, tmp, box, now, unsaved, held, acked, gone, budget>>

Uninstall(c, s) ==
  /\ "uninstall" \in Ops /\ Begin(c, s, "forget")
  /\ box' = [box EXCEPT ![s] = None]
  /\ gone' = [gone EXCEPT ![s] = IF Inserting(s) THEN @ ELSE "asked"] /\ Released(s)
  /\ UNCHANGED <<mem, disk, tmp, now, streak, unsaved, budget>>

ForgetNothing(c) ==   \* (mutant) the map keeps its entry
  /\ pc[c] = "forget" /\ Goto(c, "unlink")
  /\ UNCHANGED <<registry, on, rec, after, now, history, budget>>

Forget(c) ==
  /\ pc[c] = "forget" /\ Goto(c, "unlink")
  /\ mem' = [mem EXCEPT ![on[c]] = None]
  /\ UNCHANGED <<disk, tmp, box, on, rec, after, now, history, budget>>

Unlink(c) ==
  /\ pc[c] = "unlink" /\ Return(c)
  /\ disk' = [disk EXCEPT ![on[c]] = None]
  /\ gone' = [gone EXCEPT ![on[c]] = IF @ = "asked" THEN "yes" ELSE @]
  /\ unsaved' = [unsaved EXCEPT ![on[c]] = FALSE]
  /\ UNCHANGED <<mem, tmp, box, now, streak, held, acked, budget>>

-----------------------------------------------------------------------------
(* FileLockfilePersist::save.  The temporary file has one name per server. *)

WriteTmp(c) ==
  /\ pc[c] = "write" /\ Goto(c, "stat")
  /\ tmp' = [tmp EXCEPT ![on[c]] = rec[c]]
  /\ UNCHANGED <<mem, disk, box, on, rec, after, now, history, budget>>

Stat(c) ==
  /\ pc[c] = "stat"
  /\ Goto(c, IF disk[on[c]] = None THEN "rename" ELSE "remove")
  /\ UNCHANGED <<registry, on, rec, after, now, history, budget>>

RemoveOld(c) ==
  /\ pc[c] = "remove" /\ disk[on[c]] # None /\ Goto(c, "rename")
  /\ disk' = [disk EXCEPT ![on[c]] = None]
  /\ UNCHANGED <<mem, tmp, box, on, rec, after, now, history, budget>>

\* The save is done: insert the record, or return Ok to the caller.
Finish(c) ==
  \/ after[c] = "insert" /\ Goto(c, "insert") /\ UNCHANGED <<on, rec, after, acked>>
  \/ after[c] = "return" /\ Return(c) /\ UNCHANGED acked
  \/ /\ after[c] = "acknowledge" /\ Return(c)
     /\ acked' = [acked EXCEPT ![on[c]] = held[on[c]]]

Rename(c) ==
  /\ pc[c] = "rename" /\ tmp[on[c]] # None
  /\ disk' = [disk EXCEPT ![on[c]] = tmp[on[c]]]
  /\ tmp' = [tmp EXCEPT ![on[c]] = None]
  /\ unsaved' = [unsaved EXCEPT ![on[c]] = FALSE]
  /\ Finish(c)
  /\ UNCHANGED <<mem, box, now, streak, held, gone, budget>>

\* remove_file and rename find no file when another call took it away.
Missing(c) == \/ pc[c] = "remove" /\ disk[on[c]] = None
              \/ pc[c] = "rename" /\ tmp[on[c]] = None

ErrorsIgnored(s) == unsaved                        \* (mutant)
Reported(s) == [unsaved EXCEPT ![s] = TRUE]

FileMissing(c) ==
  /\ Missing(c) /\ Return(c)
  /\ unsaved' = Reported(on[c])
  /\ UNCHANGED <<registry, now, streak, held, acked, gone, budget>>

FileFails(c) ==
  /\ pc[c] \in FileSteps /\ ~Missing(c)
  /\ faults < MaxFaults /\ faults' = faults + 1
  /\ Return(c) /\ unsaved' = Reported(on[c])
  /\ UNCHANGED <<registry, now, streak, held, acked, gone, installs, crashes, hangups>>

\* The client of a REST call goes away and its handler is dropped while it waits
\* for a file operation, which still runs but nothing after it.
Droppable(c) == pc[c] = "unlink" \/ after[c] \in {"insert", "acknowledge"}

HangUp(c) ==
  /\ pc[c] \in FileSteps /\ Droppable(c)
  /\ hangups < MaxHangUps /\ hangups' = hangups + 1
  /\ Goto(c, "dropped") /\ after' = [after EXCEPT ![c] = pc[c]]
  /\ UNCHANGED <<registry, on, rec, now, history, installs, faults, crashes>>

\* Stat changes nothing, and any other operation may fail as well.
LastOperation(c) ==
  LET s == on[c] IN
  /\ pc[c] = "dropped" /\ Return(c)
  /\ unsaved' = Reported(s)
  /\ \/ after[c] = "write" /\ tmp' = [tmp EXCEPT ![s] = rec[c]] /\ UNCHANGED disk
     \/ after[c] = "rename" /\ tmp[s] # None
        /\ disk' = [disk EXCEPT ![s] = tmp[s]] /\ tmp' = [tmp EXCEPT ![s] = None]
     \/ after[c] \in {"remove", "unlink"} /\ disk' = [disk EXCEPT ![s] = None] /\ UNCHANGED tmp
     \/ UNCHANGED <<disk, tmp>>
  /\ UNCHANGED <<mem, box, now, streak, held, acked, gone, budget>>

-----------------------------------------------------------------------------
(* The runtime stops at any point; the next one runs load_persisted and    *)
(* starts with an empty sandbox.  What a record carries counts as earned.  *)

Credit(r) == IF r = None THEN 0 ELSE r.count

Reboot ==
  /\ crashes < MaxCrashes /\ crashes' = crashes + 1
  /\ mem' = disk
  /\ box' = [s \in Servers |-> None]
  /\ pc' = [c \in Callers |-> "idle"]
  /\ on' = [c \in Callers |-> None] /\ rec' = on' /\ after' = on'
  /\ streak' = [s \in Servers |-> Credit(disk[s])]
  /\ unsaved' = [s \in Servers |-> FALSE]
  /\ held' = unsaved'
  /\ UNCHANGED <<disk, tmp, now, acked, gone, installs, faults, hangups>>

Tick == now < MaxTime /\ now' = now + 1 /\ UNCHANGED <<registry, calls, history, budget>>

Admin(c, s) ==
  \/ CriticalAnomaly(c, s) \/ Quarantine(c, s) \/ Uninstall(c, s)
  \/ \E trust \in Rungs : SetTrust(c, s, trust)
  \/ \E risk \in Risks : Gate(c, s, risk)
  \/ \E surface \in Surfaces : Install(c, s, surface) \/ UpdatePolicy(c, s, surface)

Proceed(c) ==
  \/ Dispatch(c) \/ RateLimited(c) \/ Succeeds(c) \/ Misbehaves(c) \/ EndsUnreported(c)
  \/ ReAuthorize(c) \/ Insert(c) \/ Forget(c) \/ Unlink(c)
  \/ WriteTmp(c) \/ Stat(c) \/ RemoveOld(c) \/ Rename(c) \/ FileMissing(c) \/ FileFails(c)
  \/ HangUp(c) \/ LastOperation(c)

Next ==
  \/ \E c \in Callers, s \in Servers : Admin(c, s)
  \/ \E c \in Callers : Proceed(c)
  \/ Reboot \/ Tick

Spec == Init /\ [][Next]_vars

-----------------------------------------------------------------------------
(* Properties.                                                             *)

Files == Record \union {None}

\* The shape of the registry's map and files, the sandbox's map, the calls
\* and the histories.
TypeOK ==
  /\ mem \in [Servers -> Files] /\ disk \in [Servers -> Files]
  /\ tmp \in [Servers -> Files] /\ box \in [Servers -> Surfaces \union {None}]
  /\ pc \in [Callers -> PCs] /\ on \in [Callers -> Servers \union {None}]
  /\ rec \in [Callers -> Files]
  /\ after \in [Callers -> Surfaces \union FileSteps \union
                            {None, "insert", "return", "acknowledge"}]
  /\ \A c \in Callers :
       /\ pc[c] \in Saving => rec[c] # None
       /\ (on[c] = None) = (pc[c] = "idle")
  /\ now \in Nat /\ streak \in [Servers -> Nat]
  /\ unsaved \in [Servers -> BOOLEAN] /\ held \in [Servers -> BOOLEAN]
  /\ acked \in [Servers -> BOOLEAN] /\ gone \in [Servers -> {"no", "asked", "yes"}]
  /\ installs \in Nat /\ faults \in Nat /\ crashes \in Nat /\ hangups \in Nat

Quiet(s) == \A c \in Callers : on[c] # s
Blocked(r) == r = None \/ r.trust = "quarantined"
RanksBoth(s) == mem[s] # None /\ mem'[s] # None

\* graduation_target (graduation.rs:31): a success raises the trust of a
\* server by one rung, and only when that rung's threshold of successes was
\* recorded since the last anomaly, quarantine, operator change or climb,
\* whatever the other calls about the server do at the same time.
ClimbIsEarned ==
  [][\A c \in Callers, s \in Servers :
       pc[c] = "running" /\ on[c] = s /\ pc'[c] = "write" /\ RanksBoth(s)
         /\ Rank(mem'[s].trust) > Rank(mem[s].trust)
       => /\ mem[s].trust \in Climbing /\ mem'[s].trust = Up(mem[s].trust)
          /\ streak[s] + 1 >= Threshold[mem[s].trust]]_vars

\* FileLockfilePersist::save (lib.rs:221): calls that save the record of a
\* server at the same time may lose it, but then one of them was told so, or
\* its client had hung up before it could be told.
LossIsReported ==
  \A s \in Servers :
    Quiet(s) /\ mem[s] # None /\ disk[s] = None => unsaved[s]

\* "complete registry records [...] required to rebuild the live registry"
\* (lib.rs:172): when no call is under way, the last file operation on the
\* record succeeded and its caller was there to go on, the file holds what the
\* registry's map holds.
SettledAgrees ==
  \A s \in Servers : Quiet(s) /\ ~unsaved[s] => disk[s] = mem[s]

\* quarantine: a server that was quarantined while no install or re_authorize
\* was about to insert its record stays blocked until an operator call that may
\* release it begins: no success, anomaly, save or dropped call that was under
\* way makes it invocable.
QuarantineHolds == \A s \in Servers : held[s] => Blocked(mem[s])

\* quarantine returned Ok: what a restart would load is blocked as well.
QuarantineSurvives == \A s \in Servers : acked[s] => Blocked(disk[s])

\* uninstall returned Ok: the server is not in the map, and no restart brings
\* it back, until someone begins to install it again.
UninstalledStaysGone ==
  \A s \in Servers : gone[s] = "yes" /\ Quiet(s) => mem[s] = None /\ disk[s] = None

=============================================================================
