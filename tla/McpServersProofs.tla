-------------------------- MODULE McpServersProofs --------------------------
(***************************************************************************)
(* Proofs about McpServers, for any numbers of servers and callers, any    *)
(* thresholds and any bounds.                                              *)
(***************************************************************************)
EXTENDS McpServers, TLAPS

\* What a call carries: the surface to sign, or a record and what follows
\* its save; a record that will be inserted starts its count at zero.
CallsCarry ==
  \A c \in Callers :
    /\ pc[c] = "read" => after[c] \in Surfaces
    /\ pc[c] = "insert" => after[c] = "insert"
    /\ pc[c] \in Saving /\ after[c] = "insert" => rec[c].count = 0

\* The counter of the map never exceeds the successes that back it.
CountIsBacked == \A s \in Servers : mem[s] # None => mem[s].count <= streak[s]

IInv == TypeOK /\ CallsCarry /\ CountIsBacked

\* The record of a server that is or will be in the map is in its file, or a
\* save is about to put it there, or the loss was reported or is about to count
\* as such when a dropped call ends.
Covered(s) == \/ disk[s] # None \/ unsaved[s]
              \/ \E c \in Callers : on[c] = s /\ pc[c] \in {"rename", "dropped"}
RecordsCovered ==
  \A s \in Servers :
    mem[s] # None \/ (\E c \in Callers : on[c] = s /\ pc[c] = "insert") => Covered(s)
\* An uninstall that is about to delete the file has emptied the map.
ForgottenFirst == \A c \in Callers : pc[c] = "unlink" => mem[on[c]] = None

LossInv == RecordsCovered /\ ForgottenFirst

\* No uninstall of a server overlaps with an install or re_authorize of it.
UninstallsApart ==
  \A c, d \in Callers :
    pc[c] \in {"forget", "unlink"} /\ on[d] = on[c] => after[d] # "insert"

-----------------------------------------------------------------------------
LEMMA MovedType ==
  ASSUME NEW r \in Record, NEW trust \in Rungs
  PROVE  /\ Moved(r, trust) \in Record /\ Moved(r, trust).count = 0
         /\ Moved(r, trust).trust = trust
         /\ \A x \in Surfaces : [Moved(r, trust) EXCEPT !.surface = x] \in Record
         /\ \A x \in Surfaces : [Moved(r, trust) EXCEPT !.surface = x].count = 0
BY DEF Moved, Record

LEMMA DownType ==
  ASSUME NEW trust \in Rungs
  PROVE  Down(trust) \in Rungs /\ Rank(Down(trust)) <= Rank(trust)
BY DEF Down, Rungs, Rank

LEMMA UpType ==
  ASSUME NEW trust \in Climbing
  PROVE  Up(trust) \in Rungs /\ trust \in Rungs /\ Up(trust) # trust
BY DEF Up, Rungs, Climbing

\* A success counts, or climbs one rung from a count that met the threshold.
LEMMA SucceededType ==
  ASSUME NEW r \in Record
  PROVE  /\ Succeeded(r) \in Record
         /\ \/ Succeeded(r).trust = r.trust /\ Succeeded(r).count = r.count + 1
            \/ /\ r.trust \in Climbing /\ Succeeded(r).trust = Up(r.trust)
               /\ Succeeded(r).count = 0 /\ r.count + 1 >= Threshold[r.trust]
<1> DEFINE counted == [r EXCEPT !.count = @ + 1]
<1>1. counted \in Record /\ counted.trust = r.trust /\ counted.count = r.count + 1
  BY DEF Record
<1>4. Succeeded(r) = IF Graduates(counted) THEN [counted EXCEPT !.trust = Up(@), !.count = 0]
                     ELSE counted
  BY DEF Succeeded
<1> HIDE DEF counted
<1>2. CASE Graduates(counted)
  <2>1. counted.trust \in Climbing /\ counted.count >= Threshold[counted.trust]
    BY <1>2 DEF Graduates
  <2>2. Succeeded(r) = Moved(counted, Up(counted.trust))
    BY <1>2, <1>4 DEF Moved
  <2>3. Up(counted.trust) \in Rungs
    BY <2>1, UpType
  <2>4. /\ Succeeded(r) \in Record
        /\ Succeeded(r).trust = Up(counted.trust) /\ Succeeded(r).count = 0
    BY <1>1, <2>2, <2>3, MovedType
  <2> QED BY <1>1, <2>1, <2>4
<1>3. CASE ~Graduates(counted)
  BY <1>1, <1>3, <1>4
<1> QED BY <1>2, <1>3

LEMMA NoneNames ==
  None \notin Surfaces /\ None \notin Servers /\ None \notin Record
BY McpNames

-----------------------------------------------------------------------------
LEMMA InitIInv == Init => IInv
BY NoneNames DEF Init, IInv, TypeOK, CallsCarry, CountIsBacked, Files, PCs, Saving

LEMMA NextTypeOK ==
  ASSUME TypeOK, CallsCarry, [Next]_vars
  PROVE  TypeOK'
<1> USE NoneNames DEF TypeOK, Files, PCs, Saving, vars, registry, calls, history, budget
<1>1. ASSUME NEW c \in Callers, NEW s \in Servers, CriticalAnomaly(c, s)
      PROVE  TypeOK'
  BY <1>1, MovedType DEF CriticalAnomaly, Anomaly, Change, Save, Goto, Disturbed, Rungs
<1>2. ASSUME NEW c \in Callers, NEW s \in Servers, Quarantine(c, s)
      PROVE  TypeOK'
  BY <1>2, MovedType DEF Quarantine, Change, Save, Goto, Disturbed, Rungs
<1>3. ASSUME NEW c \in Callers, NEW s \in Servers, Uninstall(c, s)
      PROVE  TypeOK'
  BY <1>3 DEF Uninstall, Begin, Goto, Released
<1>4. ASSUME NEW c \in Callers, NEW s \in Servers, NEW trust \in Rungs, SetTrust(c, s, trust)
      PROVE  TypeOK'
  BY <1>4, MovedType DEF SetTrust, Change, Save, Goto, Disturbed, Released
<1>5. ASSUME NEW c \in Callers, NEW s \in Servers, NEW risk \in Risks, Gate(c, s, risk)
      PROVE  TypeOK'
  BY <1>5 DEF Gate, Begin, Goto
<1>6. ASSUME NEW c \in Callers, NEW s \in Servers, NEW surface \in Surfaces, Install(c, s, surface)
      PROVE  TypeOK'
  BY <1>6 DEF Install, Save, Goto, Released, Record, Rungs
<1>7. ASSUME NEW c \in Callers, NEW s \in Servers, NEW surface \in Surfaces, UpdatePolicy(c, s, surface)
      PROVE  TypeOK'
  BY <1>7 DEF UpdatePolicy, Goto
<1>8. ASSUME NEW c \in Callers, Dispatch(c)
      PROVE  TypeOK'
  BY <1>8 DEF Dispatch, Goto
<1>9. ASSUME NEW c \in Callers, RateLimited(c)
      PROVE  TypeOK'
  BY <1>9 DEF RateLimited, Goto
<1>10. ASSUME NEW c \in Callers, Succeeds(c)
      PROVE  TypeOK'
  BY <1>10, SucceededType DEF Succeeds, RecordSuccess, Save, Goto
<1>11. ASSUME NEW c \in Callers, Misbehaves(c)
      PROVE  TypeOK'
  BY <1>11, MovedType, DownType DEF Misbehaves, Anomaly, Change, Save, Goto, Disturbed, Record
<1>12. ASSUME NEW c \in Callers, EndsUnreported(c)
      PROVE  TypeOK'
  BY <1>12 DEF EndsUnreported, Return, Goto
<1>13. ASSUME NEW c \in Callers, ReAuthorize(c)
      PROVE  TypeOK'
  <2> DEFINE s == on[c]
             r == [Moved(mem[s], "observed") EXCEPT !.surface = after[c]]
  <2>1. CASE /\ mem[s] # None /\ Save(c, s, r, "insert") /\ Released(s)
             /\ UNCHANGED <<registry, now, streak, unsaved, gone, budget>>
    <3>1. s \in Servers /\ mem[s] \in Record /\ after[c] \in Surfaces
      BY <1>13, <2>1 DEF ReAuthorize, CallsCarry
    <3>2. r \in Record /\ r.count = 0
      BY <3>1, MovedType DEF Rungs
    <3> HIDE DEF r
    <3> QED BY <2>1, <3>1, <3>2 DEF Save, Goto, Released
  <2>2. CASE /\ Return(c) /\ UNCHANGED <<held, acked>>
             /\ UNCHANGED <<registry, now, streak, unsaved, gone, budget>>
    BY <2>2 DEF Return, Goto
  <2> QED BY <1>13, <2>1, <2>2 DEF ReAuthorize
<1>14. ASSUME NEW c \in Callers, Insert(c)
      PROVE  TypeOK'
  BY <1>14 DEF Insert, Return, Goto, Record
<1>15. ASSUME NEW c \in Callers, Forget(c)
      PROVE  TypeOK'
  BY <1>15 DEF Forget, Goto
<1>16. ASSUME NEW c \in Callers, Unlink(c)
      PROVE  TypeOK'
  BY <1>16 DEF Unlink, Return, Goto
<1>17. ASSUME NEW c \in Callers, WriteTmp(c)
      PROVE  TypeOK'
  BY <1>17 DEF WriteTmp, Goto
<1>18. ASSUME NEW c \in Callers, Stat(c)
      PROVE  TypeOK'
  BY <1>18 DEF Stat, Goto
<1>19. ASSUME NEW c \in Callers, RemoveOld(c)
      PROVE  TypeOK'
  BY <1>19 DEF RemoveOld, Goto
<1>20. ASSUME NEW c \in Callers, Rename(c)
      PROVE  TypeOK'
  BY <1>20, SMTT(30) DEF Rename, Finish, Return, Goto
<1>21. ASSUME NEW c \in Callers, FileMissing(c)
      PROVE  TypeOK'
  BY <1>21 DEF FileMissing, Missing, Reported, Return, Goto
<1>22. ASSUME NEW c \in Callers, FileFails(c)
      PROVE  TypeOK'
  BY <1>22 DEF FileFails, FileSteps, Missing, Reported, Return, Goto
<1>23. ASSUME Reboot
      PROVE  TypeOK'
  BY <1>23 DEF Reboot, Credit, Credit, Record
<1>24. ASSUME Tick
      PROVE  TypeOK'
  BY <1>24 DEF Tick
<1>25. ASSUME UNCHANGED vars
      PROVE  TypeOK'
  BY <1>25
<1>26. ASSUME NEW c \in Callers, HangUp(c)
      PROVE  TypeOK'
  BY <1>26 DEF HangUp, FileSteps, Goto
<1>27. ASSUME NEW c \in Callers, LastOperation(c)
      PROVE  TypeOK'
  BY <1>27 DEF LastOperation, Reported, Return, Goto
<1> QED
  BY ONLY [Next]_vars, <1>1, <1>2, <1>3, <1>4, <1>5, <1>6, <1>7, <1>8, <1>9, <1>10, <1>11, <1>12, <1>13, <1>14, <1>15, <1>16, <1>17, <1>18, <1>19, <1>20, <1>21, <1>22, <1>23, <1>24, <1>25, <1>26, <1>27
  DEF Next, Admin, Proceed

LEMMA NextCallsCarry ==
  ASSUME TypeOK, CallsCarry, [Next]_vars
  PROVE  CallsCarry'
<1> USE NoneNames DEF TypeOK, Files, PCs, Saving, CallsCarry, vars, registry, calls, history, budget
<1>1. ASSUME NEW c \in Callers, NEW s \in Servers, CriticalAnomaly(c, s)
      PROVE  CallsCarry'
  BY <1>1 DEF CriticalAnomaly, Anomaly, Change, Save, Goto, Disturbed
<1>2. ASSUME NEW c \in Callers, NEW s \in Servers, Quarantine(c, s)
      PROVE  CallsCarry'
  BY <1>2 DEF Quarantine, Change, Save, Goto, Disturbed
<1>3. ASSUME NEW c \in Callers, NEW s \in Servers, Uninstall(c, s)
      PROVE  CallsCarry'
  BY <1>3 DEF Uninstall, Begin, Goto, Released
<1>4. ASSUME NEW c \in Callers, NEW s \in Servers, NEW trust \in Rungs, SetTrust(c, s, trust)
      PROVE  CallsCarry'
  BY <1>4 DEF SetTrust, Change, Save, Goto, Disturbed, Released
<1>5. ASSUME NEW c \in Callers, NEW s \in Servers, NEW risk \in Risks, Gate(c, s, risk)
      PROVE  CallsCarry'
  BY <1>5 DEF Gate, Begin, Goto
<1>6. ASSUME NEW c \in Callers, NEW s \in Servers, NEW surface \in Surfaces, Install(c, s, surface)
      PROVE  CallsCarry'
  BY <1>6 DEF Install, Save, Goto, Released
<1>7. ASSUME NEW c \in Callers, NEW s \in Servers, NEW surface \in Surfaces, UpdatePolicy(c, s, surface)
      PROVE  CallsCarry'
  BY <1>7 DEF UpdatePolicy, Goto
<1>8. ASSUME NEW c \in Callers, Dispatch(c)
      PROVE  CallsCarry'
  BY <1>8 DEF Dispatch, Goto
<1>9. ASSUME NEW c \in Callers, RateLimited(c)
      PROVE  CallsCarry'
  BY <1>9 DEF RateLimited, Goto
<1>10. ASSUME NEW c \in Callers, Succeeds(c)
      PROVE  CallsCarry'
  BY <1>10 DEF Succeeds, RecordSuccess, Save, Goto
<1>11. ASSUME NEW c \in Callers, Misbehaves(c)
      PROVE  CallsCarry'
  BY <1>11 DEF Misbehaves, Anomaly, Change, Save, Goto, Disturbed
<1>12. ASSUME NEW c \in Callers, EndsUnreported(c)
      PROVE  CallsCarry'
  BY <1>12 DEF EndsUnreported, Return, Goto
<1>13. ASSUME NEW c \in Callers, ReAuthorize(c)
      PROVE  CallsCarry'
  <2> DEFINE s == on[c]
             r == [Moved(mem[s], "observed") EXCEPT !.surface = after[c]]
  <2>1. CASE /\ mem[s] # None /\ Save(c, s, r, "insert") /\ Released(s)
             /\ UNCHANGED <<registry, now, streak, unsaved, gone, budget>>
    <3>1. s \in Servers /\ mem[s] \in Record /\ after[c] \in Surfaces
      BY <1>13, <2>1 DEF ReAuthorize, CallsCarry
    <3>2. r \in Record /\ r.count = 0
      BY <3>1, MovedType DEF Rungs
    <3> HIDE DEF r
    <3> QED BY <2>1, <3>1, <3>2 DEF Save, Goto, Released
  <2>2. CASE /\ Return(c) /\ UNCHANGED <<held, acked>>
             /\ UNCHANGED <<registry, now, streak, unsaved, gone, budget>>
    BY <2>2 DEF Return, Goto
  <2> QED BY <1>13, <2>1, <2>2 DEF ReAuthorize
<1>14. ASSUME NEW c \in Callers, Insert(c)
      PROVE  CallsCarry'
  BY <1>14 DEF Insert, Return, Goto
<1>15. ASSUME NEW c \in Callers, Forget(c)
      PROVE  CallsCarry'
  BY <1>15 DEF Forget, Goto
<1>16. ASSUME NEW c \in Callers, Unlink(c)
      PROVE  CallsCarry'
  BY <1>16 DEF Unlink, Return, Goto
<1>17. ASSUME NEW c \in Callers, WriteTmp(c)
      PROVE  CallsCarry'
  BY <1>17 DEF WriteTmp, Goto
<1>18. ASSUME NEW c \in Callers, Stat(c)
      PROVE  CallsCarry'
  BY <1>18 DEF Stat, Goto
<1>19. ASSUME NEW c \in Callers, RemoveOld(c)
      PROVE  CallsCarry'
  BY <1>19 DEF RemoveOld, Goto
<1>20. ASSUME NEW c \in Callers, Rename(c)
      PROVE  CallsCarry'
  BY <1>20 DEF Rename, Finish, Return, Goto
<1>21. ASSUME NEW c \in Callers, FileMissing(c)
      PROVE  CallsCarry'
  BY <1>21 DEF FileMissing, Missing, Reported, Return, Goto
<1>22. ASSUME NEW c \in Callers, FileFails(c)
      PROVE  CallsCarry'
  BY <1>22 DEF FileFails, Missing, Reported, Return, Goto
<1>23. ASSUME Reboot
      PROVE  CallsCarry'
  BY <1>23 DEF Reboot, Credit
<1>24. ASSUME Tick
      PROVE  CallsCarry'
  BY <1>24 DEF Tick
<1>25. ASSUME UNCHANGED vars
      PROVE  CallsCarry'
  BY <1>25
<1>26. ASSUME NEW c \in Callers, HangUp(c)
      PROVE  CallsCarry'
  BY <1>26 DEF HangUp, FileSteps, Goto
<1>27. ASSUME NEW c \in Callers, LastOperation(c)
      PROVE  CallsCarry'
  BY <1>27 DEF LastOperation, Reported, Return, Goto
<1> QED
  BY ONLY [Next]_vars, <1>1, <1>2, <1>3, <1>4, <1>5, <1>6, <1>7, <1>8, <1>9, <1>10, <1>11, <1>12, <1>13, <1>14, <1>15, <1>16, <1>17, <1>18, <1>19, <1>20, <1>21, <1>22, <1>23, <1>24, <1>25, <1>26, <1>27
  DEF Next, Admin, Proceed

LEMMA NextCountIsBacked ==
  ASSUME TypeOK, CallsCarry, CountIsBacked, [Next]_vars
  PROVE  CountIsBacked'
<1> USE NoneNames DEF TypeOK, Files, Saving, CountIsBacked, vars, registry, calls, history, budget
<1>1. ASSUME NEW c \in Callers, NEW s \in Servers, CriticalAnomaly(c, s)
      PROVE  CountIsBacked'
  BY <1>1, MovedType DEF CriticalAnomaly, Anomaly, Change, Save, Goto, Disturbed, Rungs, Record
<1>2. ASSUME NEW c \in Callers, NEW s \in Servers, Quarantine(c, s)
      PROVE  CountIsBacked'
  BY <1>2, MovedType DEF Quarantine, Change, Save, Goto, Disturbed, Rungs, Record
<1>3. ASSUME NEW c \in Callers, NEW s \in Servers, Uninstall(c, s)
      PROVE  CountIsBacked'
  BY <1>3 DEF Uninstall, Begin, Goto, Released
<1>4. ASSUME NEW c \in Callers, NEW s \in Servers, NEW trust \in Rungs, SetTrust(c, s, trust)
      PROVE  CountIsBacked'
  BY <1>4, MovedType DEF SetTrust, Change, Save, Goto, Disturbed, Released, Record
<1>5. ASSUME NEW c \in Callers, NEW s \in Servers, NEW risk \in Risks, Gate(c, s, risk)
      PROVE  CountIsBacked'
  BY <1>5 DEF Gate, Begin, Goto
<1>6. ASSUME NEW c \in Callers, NEW s \in Servers, NEW surface \in Surfaces, Install(c, s, surface)
      PROVE  CountIsBacked'
  BY <1>6 DEF Install, Save, Goto, Released
<1>7. ASSUME NEW c \in Callers, NEW s \in Servers, NEW surface \in Surfaces, UpdatePolicy(c, s, surface)
      PROVE  CountIsBacked'
  BY <1>7 DEF UpdatePolicy, Goto
<1>8. ASSUME NEW c \in Callers, Dispatch(c)
      PROVE  CountIsBacked'
  BY <1>8 DEF Dispatch, Goto
<1>9. ASSUME NEW c \in Callers, RateLimited(c)
      PROVE  CountIsBacked'
  BY <1>9 DEF RateLimited, Goto
<1>10. ASSUME NEW c \in Callers, Succeeds(c)
      PROVE  CountIsBacked'
  <2>1. on[c] \in Servers /\ mem[on[c]] \in Record
    BY <1>10 DEF Succeeds
  <2>2. \A s \in Servers : s # on[c] => mem'[s] = mem[s] /\ streak'[s] = streak[s]
    BY <1>10, <2>1 DEF Succeeds, RecordSuccess
  <2>3. mem'[on[c]] = Succeeded(mem[on[c]])
    BY <1>10, <2>1 DEF Succeeds, RecordSuccess
  <2>4. streak'[on[c]] = IF Succeeded(mem[on[c]]).trust = mem[on[c]].trust
                         THEN streak[on[c]] + 1 ELSE 0
    BY <1>10, <2>1 DEF Succeeds, RecordSuccess
  <2>5. Succeeded(mem[on[c]]).count <= streak'[on[c]]
    BY <2>1, <2>4, SucceededType, UpType DEF Record
  <2> QED BY <2>1, <2>2, <2>3, <2>5
<1>11. ASSUME NEW c \in Callers, Misbehaves(c)
      PROVE  CountIsBacked'
  BY <1>11, MovedType, DownType DEF Misbehaves, Anomaly, Change, Save, Goto, Disturbed, Record
<1>12. ASSUME NEW c \in Callers, EndsUnreported(c)
      PROVE  CountIsBacked'
  BY <1>12 DEF EndsUnreported, Return, Goto
<1>13. ASSUME NEW c \in Callers, ReAuthorize(c)
      PROVE  CountIsBacked'
  BY <1>13 DEF ReAuthorize, Save, Return, Goto, Released
<1>14. ASSUME NEW c \in Callers, Insert(c)
      PROVE  CountIsBacked'
  BY <1>14 DEF Insert, Return, Goto, Record, CallsCarry
<1>15. ASSUME NEW c \in Callers, Forget(c)
      PROVE  CountIsBacked'
  BY <1>15 DEF Forget, Goto
<1>16. ASSUME NEW c \in Callers, Unlink(c)
      PROVE  CountIsBacked'
  BY <1>16 DEF Unlink, Return, Goto
<1>17. ASSUME NEW c \in Callers, WriteTmp(c)
      PROVE  CountIsBacked'
  BY <1>17 DEF WriteTmp, Goto
<1>18. ASSUME NEW c \in Callers, Stat(c)
      PROVE  CountIsBacked'
  BY <1>18 DEF Stat, Goto
<1>19. ASSUME NEW c \in Callers, RemoveOld(c)
      PROVE  CountIsBacked'
  BY <1>19 DEF RemoveOld, Goto
<1>20. ASSUME NEW c \in Callers, Rename(c)
      PROVE  CountIsBacked'
  BY <1>20 DEF Rename, Finish, Return, Goto
<1>21. ASSUME NEW c \in Callers, FileMissing(c)
      PROVE  CountIsBacked'
  BY <1>21 DEF FileMissing, Missing, Reported, Return, Goto
<1>22. ASSUME NEW c \in Callers, FileFails(c)
      PROVE  CountIsBacked'
  BY <1>22 DEF FileFails, Missing, Reported, Return, Goto
<1>23. ASSUME Reboot
      PROVE  CountIsBacked'
  BY <1>23 DEF Reboot, Credit, Credit, Record
<1>24. ASSUME Tick
      PROVE  CountIsBacked'
  BY <1>24 DEF Tick
<1>25. ASSUME UNCHANGED vars
      PROVE  CountIsBacked'
  BY <1>25
<1>26. ASSUME NEW c \in Callers, HangUp(c)
      PROVE  CountIsBacked'
  BY <1>26 DEF HangUp, FileSteps, Goto
<1>27. ASSUME NEW c \in Callers, LastOperation(c)
      PROVE  CountIsBacked'
  BY <1>27 DEF LastOperation, Reported, Return, Goto
<1> QED
  BY ONLY [Next]_vars, <1>1, <1>2, <1>3, <1>4, <1>5, <1>6, <1>7, <1>8, <1>9, <1>10, <1>11, <1>12, <1>13, <1>14, <1>15, <1>16, <1>17, <1>18, <1>19, <1>20, <1>21, <1>22, <1>23, <1>24, <1>25, <1>26, <1>27
  DEF Next, Admin, Proceed

THEOREM Inductive == Spec => []IInv
<1>1. IInv /\ [Next]_vars => IInv'
  BY NextTypeOK, NextCallsCarry, NextCountIsBacked DEF IInv
<1> QED BY <1>1, InitIInv, PTL DEF Spec

\* The map, the files, the sandbox, the calls and the histories keep their
\* shape: a call that saves or inserts a record carries one.
THEOREM TypeCorrect == Spec => []TypeOK
<1>1. IInv => TypeOK BY DEF IInv
<1> QED BY <1>1, Inductive, PTL

LEMMA ClimbStep ==
  ASSUME IInv, [Next]_vars, NEW d \in Callers, NEW x \in Servers,
         pc[d] = "running", on[d] = x, pc'[d] = "write", RanksBoth(x),
         Rank(mem'[x].trust) > Rank(mem[x].trust)
  PROVE  /\ mem[x].trust \in Climbing /\ mem'[x].trust = Up(mem[x].trust)
         /\ streak[x] + 1 >= Threshold[mem[x].trust]
<1> DEFINE Goal == /\ mem[x].trust \in Climbing /\ mem'[x].trust = Up(mem[x].trust)
                   /\ streak[x] + 1 >= Threshold[mem[x].trust]
<1> SUFFICES Goal OBVIOUS
<1> HIDE DEF Goal
<1> USE NoneNames DEF IInv, TypeOK, Files, PCs, vars, registry, calls, history, budget
<1>1. ASSUME NEW c \in Callers, NEW s \in Servers, CriticalAnomaly(c, s)
      PROVE  Goal
  BY <1>1 DEF CriticalAnomaly, Anomaly, Change, Save, Goto, Disturbed
<1>2. ASSUME NEW c \in Callers, NEW s \in Servers, Quarantine(c, s)
      PROVE  Goal
  BY <1>2 DEF Quarantine, Change, Save, Goto, Disturbed
<1>3. ASSUME NEW c \in Callers, NEW s \in Servers, Uninstall(c, s)
      PROVE  Goal
  BY <1>3 DEF Uninstall, Begin, Goto, Released
<1>4. ASSUME NEW c \in Callers, NEW s \in Servers, NEW trust \in Rungs, SetTrust(c, s, trust)
      PROVE  Goal
  BY <1>4 DEF SetTrust, Change, Save, Goto, Disturbed, Released
<1>5. ASSUME NEW c \in Callers, NEW s \in Servers, NEW risk \in Risks, Gate(c, s, risk)
      PROVE  Goal
  BY <1>5 DEF Gate, Begin, Goto
<1>6. ASSUME NEW c \in Callers, NEW s \in Servers, NEW surface \in Surfaces, Install(c, s, surface)
      PROVE  Goal
  BY <1>6 DEF Install, Save, Goto, Released
<1>7. ASSUME NEW c \in Callers, NEW s \in Servers, NEW surface \in Surfaces, UpdatePolicy(c, s, surface)
      PROVE  Goal
  BY <1>7 DEF UpdatePolicy, Goto
<1>8. ASSUME NEW c \in Callers, Dispatch(c)
      PROVE  Goal
  BY <1>8 DEF Dispatch, Goto
<1>9. ASSUME NEW c \in Callers, RateLimited(c)
      PROVE  Goal
  BY <1>9 DEF RateLimited, Goto
<1>10. ASSUME NEW c \in Callers, Succeeds(c)
      PROVE  Goal
  <2>1. c = d
    BY <1>10 DEF Succeeds, RecordSuccess, Save, Goto
  <2>2. mem[x] \in Record /\ mem'[x] = Succeeded(mem[x])
    BY <1>10, <2>1 DEF Succeeds, RecordSuccess, RanksBoth
  <2>3. mem'[x].trust # mem[x].trust
    BY <2>2, SucceededType DEF Record, Rungs, Rank
  <2>4. mem[x].count <= streak[x] /\ mem[x].count \in Nat /\ streak[x] \in Nat
    BY <2>2 DEF CountIsBacked, RanksBoth, Record
  <2>5. mem[x].trust \in Climbing => Threshold[mem[x].trust] \in Nat
    BY McpAssumption
  <2> QED BY <2>2, <2>3, <2>4, <2>5, SucceededType DEF Goal
<1>11. ASSUME NEW c \in Callers, Misbehaves(c)
      PROVE  Goal
  <2>1. c = d
    BY <1>11 DEF Misbehaves, Anomaly, Change, Save, Goto
  <2>2. mem[x] \in Record /\ mem[x].trust \in Rungs /\ mem'[x] = Moved(mem[x], Down(mem[x].trust))
    BY <1>11, <2>1 DEF Misbehaves, Anomaly, Change, RanksBoth, Record
  <2>3. mem'[x].trust = Down(mem[x].trust)
    BY <2>2, MovedType, DownType
  <2>4. Rank(mem[x].trust) \in Int /\ Rank(Down(mem[x].trust)) \in Int
    BY <2>2, DownType DEF Rank, Rungs
  <2> QED BY <2>2, <2>3, <2>4, DownType
<1>12. ASSUME NEW c \in Callers, EndsUnreported(c)
      PROVE  Goal
  BY <1>12 DEF EndsUnreported, Return, Goto
<1>13. ASSUME NEW c \in Callers, ReAuthorize(c)
      PROVE  Goal
  BY <1>13 DEF ReAuthorize, Save, Return, Goto, Released
<1>14. ASSUME NEW c \in Callers, Insert(c)
      PROVE  Goal
  BY <1>14 DEF Insert, Return, Goto
<1>15. ASSUME NEW c \in Callers, Forget(c)
      PROVE  Goal
  BY <1>15 DEF Forget, Goto
<1>16. ASSUME NEW c \in Callers, Unlink(c)
      PROVE  Goal
  BY <1>16 DEF Unlink, Return, Goto
<1>17. ASSUME NEW c \in Callers, WriteTmp(c)
      PROVE  Goal
  BY <1>17 DEF WriteTmp, Goto
<1>18. ASSUME NEW c \in Callers, Stat(c)
      PROVE  Goal
  BY <1>18 DEF Stat, Goto
<1>19. ASSUME NEW c \in Callers, RemoveOld(c)
      PROVE  Goal
  BY <1>19 DEF RemoveOld, Goto
<1>20. ASSUME NEW c \in Callers, Rename(c)
      PROVE  Goal
  BY <1>20 DEF Rename, Finish, Return, Goto
<1>21. ASSUME NEW c \in Callers, FileMissing(c)
      PROVE  Goal
  BY <1>21 DEF FileMissing, Missing, Reported, Return, Goto
<1>22. ASSUME NEW c \in Callers, FileFails(c)
      PROVE  Goal
  BY <1>22 DEF FileFails, Missing, Reported, Return, Goto
<1>23. ASSUME Reboot
      PROVE  Goal
  BY <1>23 DEF Reboot, Credit
<1>24. ASSUME Tick
      PROVE  Goal
  BY <1>24 DEF Tick
<1>25. ASSUME UNCHANGED vars
      PROVE  Goal
  BY <1>25
<1>26. ASSUME NEW c \in Callers, HangUp(c)
      PROVE  Goal
  BY <1>26 DEF HangUp, FileSteps, Goto
<1>27. ASSUME NEW c \in Callers, LastOperation(c)
      PROVE  Goal
  BY <1>27 DEF LastOperation, Reported, Return, Goto
<1> QED
  BY ONLY [Next]_vars, <1>1, <1>2, <1>3, <1>4, <1>5, <1>6, <1>7, <1>8, <1>9, <1>10, <1>11, <1>12, <1>13, <1>14, <1>15, <1>16, <1>17, <1>18, <1>19, <1>20, <1>21, <1>22, <1>23, <1>24, <1>25, <1>26, <1>27
  DEF Next, Admin, Proceed

\* ClimbIsEarned for every number of servers and callers and every policy:
\* concurrent calls never let a server climb on fewer successes than the
\* threshold of its rung asks for.
THEOREM Earned == Spec => ClimbIsEarned
<1> DEFINE Step == \A c \in Callers, s \in Servers :
       pc[c] = "running" /\ on[c] = s /\ pc'[c] = "write" /\ RanksBoth(s)
         /\ Rank(mem'[s].trust) > Rank(mem[s].trust)
       => /\ mem[s].trust \in Climbing /\ mem'[s].trust = Up(mem[s].trust)
          /\ streak[s] + 1 >= Threshold[mem[s].trust]
<1>1. IInv /\ [Next]_vars => [Step]_vars
  BY ClimbStep
<1> QED BY <1>1, Inductive, PTL DEF Spec, ClimbIsEarned

-----------------------------------------------------------------------------
LEMMA InitLossInv == Init => LossInv
BY NoneNames DEF Init, LossInv, RecordsCovered, ForgottenFirst

LEMMA NextLossInv ==
  ASSUME TypeOK, CallsCarry, LossInv, UninstallsApart, [Next]_vars
  PROVE  LossInv'
<1> USE NoneNames DEF TypeOK, Files, PCs, Saving, LossInv, RecordsCovered, Covered, ForgottenFirst,
        UninstallsApart, CallsCarry,
        vars, registry, calls, history, budget
<1>1. ASSUME NEW c \in Callers, NEW s \in Servers, CriticalAnomaly(c, s)
      PROVE  LossInv'
  BY <1>1 DEF CriticalAnomaly, Anomaly, Change, Save, Goto, Disturbed
<1>2. ASSUME NEW c \in Callers, NEW s \in Servers, Quarantine(c, s)
      PROVE  LossInv'
  BY <1>2 DEF Quarantine, Change, Save, Goto, Disturbed
<1>3. ASSUME NEW c \in Callers, NEW s \in Servers, Uninstall(c, s)
      PROVE  LossInv'
  BY <1>3 DEF Uninstall, Begin, Goto, Released
<1>4. ASSUME NEW c \in Callers, NEW s \in Servers, NEW trust \in Rungs, SetTrust(c, s, trust)
      PROVE  LossInv'
  BY <1>4 DEF SetTrust, Change, Save, Goto, Disturbed, Released
<1>5. ASSUME NEW c \in Callers, NEW s \in Servers, NEW risk \in Risks, Gate(c, s, risk)
      PROVE  LossInv'
  BY <1>5 DEF Gate, Begin, Goto
<1>6. ASSUME NEW c \in Callers, NEW s \in Servers, NEW surface \in Surfaces, Install(c, s, surface)
      PROVE  LossInv'
  BY <1>6 DEF Install, Save, Goto, Released
<1>7. ASSUME NEW c \in Callers, NEW s \in Servers, NEW surface \in Surfaces, UpdatePolicy(c, s, surface)
      PROVE  LossInv'
  BY <1>7 DEF UpdatePolicy, Goto
<1>8. ASSUME NEW c \in Callers, Dispatch(c)
      PROVE  LossInv'
  BY <1>8 DEF Dispatch, Goto
<1>9. ASSUME NEW c \in Callers, RateLimited(c)
      PROVE  LossInv'
  BY <1>9 DEF RateLimited, Goto
<1>10. ASSUME NEW c \in Callers, Succeeds(c)
      PROVE  LossInv'
  BY <1>10 DEF Succeeds, RecordSuccess, Save, Goto
<1>11. ASSUME NEW c \in Callers, Misbehaves(c)
      PROVE  LossInv'
  BY <1>11 DEF Misbehaves, Anomaly, Change, Save, Goto, Disturbed
<1>12. ASSUME NEW c \in Callers, EndsUnreported(c)
      PROVE  LossInv'
  BY <1>12 DEF EndsUnreported, Return, Goto
<1>13. ASSUME NEW c \in Callers, ReAuthorize(c)
      PROVE  LossInv'
  BY <1>13 DEF ReAuthorize, Save, Return, Goto, Released
<1>14. ASSUME NEW c \in Callers, Insert(c)
      PROVE  LossInv'
  BY <1>14 DEF Insert, Return, Goto
<1>15. ASSUME NEW c \in Callers, Forget(c)
      PROVE  LossInv'
  BY <1>15 DEF Forget, Goto
<1>16. ASSUME NEW c \in Callers, Unlink(c)
      PROVE  LossInv'
  BY <1>16 DEF Unlink, Return, Goto
<1>17. ASSUME NEW c \in Callers, WriteTmp(c)
      PROVE  LossInv'
  BY <1>17 DEF WriteTmp, Goto
<1>18. ASSUME NEW c \in Callers, Stat(c)
      PROVE  LossInv'
  BY <1>18 DEF Stat, Goto
<1>19. ASSUME NEW c \in Callers, RemoveOld(c)
      PROVE  LossInv'
  BY <1>19 DEF RemoveOld, Goto
<1>20. ASSUME NEW c \in Callers, Rename(c)
      PROVE  LossInv'
  BY <1>20 DEF Rename, Finish, Return, Goto
<1>21. ASSUME NEW c \in Callers, FileMissing(c)
      PROVE  LossInv'
  BY <1>21 DEF FileMissing, Missing, Reported, Return, Goto
<1>22. ASSUME NEW c \in Callers, FileFails(c)
      PROVE  LossInv'
  BY <1>22 DEF FileFails, Missing, Reported, Return, Goto
<1>23. ASSUME Reboot
      PROVE  LossInv'
  BY <1>23 DEF Reboot, Credit
<1>24. ASSUME Tick
      PROVE  LossInv'
  BY <1>24 DEF Tick
<1>25. ASSUME UNCHANGED vars
      PROVE  LossInv'
  BY <1>25
<1>26. ASSUME NEW c \in Callers, HangUp(c)
      PROVE  LossInv'
  BY <1>26 DEF HangUp, FileSteps, Goto
<1>27. ASSUME NEW c \in Callers, LastOperation(c)
      PROVE  LossInv'
  BY <1>27 DEF LastOperation, Reported, Return, Goto
<1> QED
  BY ONLY [Next]_vars, <1>1, <1>2, <1>3, <1>4, <1>5, <1>6, <1>7, <1>8, <1>9, <1>10, <1>11, <1>12, <1>13, <1>14, <1>15, <1>16, <1>17, <1>18, <1>19, <1>20, <1>21, <1>22, <1>23, <1>24, <1>25, <1>26, <1>27
  DEF Next, Admin, Proceed

\* LossIsReported for calls that overlap in any way, except an uninstall with
\* an install or re_authorize of the server: racing saves that lose the record
\* of an installed server have told one of their callers.
THEOREM LossReported == Spec /\ []UninstallsApart => []LossIsReported
<1>1. IInv /\ LossInv /\ UninstallsApart /\ [Next]_vars => LossInv'
  BY NextLossInv DEF IInv
<1>2. IInv /\ LossInv => LossIsReported
  BY NoneNames DEF IInv, TypeOK, LossInv, RecordsCovered, Covered, LossIsReported, Quiet
<1> QED BY <1>1, <1>2, InitLossInv, Inductive, PTL DEF Spec

-----------------------------------------------------------------------------
\* A held server is blocked, and no record of it is about to be inserted.
HeldInv == \A s \in Servers : held[s] => Blocked(mem[s]) /\ ~Inserting(s)

LEMMA HeldStep ==
  ASSUME TypeOK, CallsCarry, HeldInv, [Next]_vars
  PROVE  HeldInv'
<1> USE NoneNames, McpNames DEF TypeOK, Files, PCs, Saving, HeldInv, Inserting, Blocked,
        CallsCarry, vars, registry, calls, history, budget
<1>1. ASSUME NEW c \in Callers, NEW s \in Servers, CriticalAnomaly(c, s)
      PROVE  HeldInv'
  BY <1>1 DEF CriticalAnomaly, Anomaly, Change, Save, Goto, Disturbed, Moved
<1>2. ASSUME NEW c \in Callers, NEW s \in Servers, Quarantine(c, s)
      PROVE  HeldInv'
  BY <1>2 DEF Quarantine, Change, Save, Goto, Disturbed, Moved
<1>3. ASSUME NEW c \in Callers, NEW s \in Servers, Uninstall(c, s)
      PROVE  HeldInv'
  BY <1>3 DEF Uninstall, Begin, Goto, Released
<1>4. ASSUME NEW c \in Callers, NEW s \in Servers, NEW trust \in Rungs, SetTrust(c, s, trust)
      PROVE  HeldInv'
  BY <1>4 DEF SetTrust, Change, Save, Goto, Disturbed, Released
<1>5. ASSUME NEW c \in Callers, NEW s \in Servers, NEW risk \in Risks, Gate(c, s, risk)
      PROVE  HeldInv'
  BY <1>5 DEF Gate, Begin, Goto
<1>6. ASSUME NEW c \in Callers, NEW s \in Servers, NEW surface \in Surfaces, Install(c, s, surface)
      PROVE  HeldInv'
  BY <1>6 DEF Install, Save, Goto, Released
<1>7. ASSUME NEW c \in Callers, NEW s \in Servers, NEW surface \in Surfaces, UpdatePolicy(c, s, surface)
      PROVE  HeldInv'
  BY <1>7 DEF UpdatePolicy, Goto
<1>8. ASSUME NEW c \in Callers, Dispatch(c)
      PROVE  HeldInv'
  BY <1>8 DEF Dispatch, Goto
<1>9. ASSUME NEW c \in Callers, RateLimited(c)
      PROVE  HeldInv'
  BY <1>9 DEF RateLimited, Goto
<1>10. ASSUME NEW c \in Callers, Succeeds(c)
      PROVE  HeldInv'
  <2>1. PICK r : r = Succeeded(mem[on[c]])
    OBVIOUS
  <2>2. on[c] \in Servers /\ mem[on[c]] \in Record
    BY <1>10 DEF Succeeds
  <2>3. /\ mem' = [mem EXCEPT ![on[c]] = r] /\ held' = held
        /\ after' = [after EXCEPT ![c] = "return"] /\ on' = [on EXCEPT ![c] = on[c]]
    BY <1>10, <2>1, Zenon DEF Succeeds, RecordSuccess, Save
  <2>4. mem[on[c]].trust = "quarantined" => r.trust = "quarantined"
    BY <2>1, <2>2, SucceededType DEF Climbing
  <2>5. mem[on[c]] # None
    BY <2>2
  <2> QED BY <2>2, <2>3, <2>4, <2>5
<1>11. ASSUME NEW c \in Callers, Misbehaves(c)
      PROVE  HeldInv'
  BY <1>11 DEF Misbehaves, Anomaly, Change, Save, Goto, Disturbed, Moved, Down
<1>12. ASSUME NEW c \in Callers, EndsUnreported(c)
      PROVE  HeldInv'
  BY <1>12 DEF EndsUnreported, Return, Goto
<1>13. ASSUME NEW c \in Callers, ReAuthorize(c)
      PROVE  HeldInv'
  BY <1>13 DEF ReAuthorize, Save, Return, Goto, Released
<1>14. ASSUME NEW c \in Callers, Insert(c)
      PROVE  HeldInv'
  BY <1>14 DEF Insert, Return, Goto
<1>15. ASSUME NEW c \in Callers, Forget(c)
      PROVE  HeldInv'
  BY <1>15 DEF Forget, Goto
<1>16. ASSUME NEW c \in Callers, Unlink(c)
      PROVE  HeldInv'
  BY <1>16 DEF Unlink, Return, Goto
<1>17. ASSUME NEW c \in Callers, WriteTmp(c)
      PROVE  HeldInv'
  BY <1>17 DEF WriteTmp, Goto
<1>18. ASSUME NEW c \in Callers, Stat(c)
      PROVE  HeldInv'
  BY <1>18 DEF Stat, Goto
<1>19. ASSUME NEW c \in Callers, RemoveOld(c)
      PROVE  HeldInv'
  BY <1>19 DEF RemoveOld, Goto
<1>20. ASSUME NEW c \in Callers, Rename(c)
      PROVE  HeldInv'
  BY <1>20 DEF Rename, Finish, Return, Goto
<1>21. ASSUME NEW c \in Callers, FileMissing(c)
      PROVE  HeldInv'
  BY <1>21 DEF FileMissing, Missing, Reported, Return, Goto
<1>22. ASSUME NEW c \in Callers, FileFails(c)
      PROVE  HeldInv'
  BY <1>22 DEF FileFails, Missing, Reported, Return, Goto
<1>23. ASSUME Reboot
      PROVE  HeldInv'
  BY <1>23 DEF Reboot
<1>24. ASSUME Tick
      PROVE  HeldInv'
  BY <1>24 DEF Tick
<1>25. ASSUME UNCHANGED vars
      PROVE  HeldInv'
  BY <1>25
<1>26. ASSUME NEW c \in Callers, HangUp(c)
      PROVE  HeldInv'
  BY <1>26 DEF HangUp, FileSteps, Goto
<1>27. ASSUME NEW c \in Callers, LastOperation(c)
      PROVE  HeldInv'
  BY <1>27 DEF LastOperation, Reported, Return, Goto
<1> QED
  BY ONLY [Next]_vars, <1>1, <1>2, <1>3, <1>4, <1>5, <1>6, <1>7, <1>8, <1>9, <1>10, <1>11, <1>12, <1>13, <1>14, <1>15, <1>16, <1>17, <1>18, <1>19, <1>20, <1>21, <1>22, <1>23, <1>24, <1>25, <1>26, <1>27
  DEF Next, Admin, Proceed

\* QuarantineHolds for any number of callers that overlap in any way, with any
\* calls of the whole API, file operations that fail, dropped calls and restarts.
THEOREM HoldsRacing == Spec => []QuarantineHolds
<1>1. IInv /\ HeldInv /\ [Next]_vars => HeldInv'
  BY HeldStep DEF IInv
<1>2. Init => HeldInv
  BY DEF Init, HeldInv
<1>3. HeldInv => QuarantineHolds
  BY DEF HeldInv, QuarantineHolds
<1> QED BY <1>1, <1>2, <1>3, Inductive, PTL DEF Spec

=============================================================================
