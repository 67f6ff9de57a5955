--------------------------- MODULE ConnectionsProofs ---------------------------
(***************************************************************************)
(* Proofs about the vault and the connections over it, for any number of   *)
(* secrets, connections and callers, and any number of rotations and       *)
(* faults.                                                                 *)
(***************************************************************************)
EXTENDS Connections, TLAPS

-----------------------------------------------------------------------------
(* The vault.                                                              *)

\* No row and no stored key is newer than the last key drawn; during a rotation
\* that key is the new one, and nothing is sealed with it but what it resealed.
KeysDrawn ==
  /\ mem = state /\ state.key <= drawn
  /\ \A s \in Secrets : Active(s) => sealed[s].key <= drawn
  /\ ~Free => /\ rot.key = drawn /\ rot.gen = state.gen + 1 /\ state.key < drawn
              /\ \A s \in rot.todo : Active(s)
              /\ \A s \in Secrets : Active(s) =>
                   IF s \in rot.todo THEN sealed[s].key # rot.key
                                     ELSE sealed[s].key = rot.key /\ sealed[s].gen = rot.gen

\* Until a rotation breaks off, the rows it has not reached open.
UntornOpens ==
  ~torn => \A s \in Secrets :
             Active(s) /\ (Free \/ s \in rot.todo) => OpensWith(s, state.key)

VInv == TypeOK /\ KeysDrawn /\ UntornOpens /\ HalfRotationVisible

LEMMA VaultInit == Init => VInv
<1> SUFFICES ASSUME Init PROVE VInv OBVIOUS
<1>1. \A s \in Secrets : ~Active(s) BY DEF Init, Active
<1>2. TypeOK
  <2>1. torn \in BOOLEAN BY DEF Init
  <2>2. state \in Key /\ mem \in Key BY VaultAssumption DEF Init, Key
  <2> QED BY <2>1, <2>2, VaultAssumption DEF Init, TypeOK
<1>3. state.key = 0 BY DEF Init
<1> QED
  BY <1>1, <1>2, <1>3
  DEF Init, VInv, KeysDrawn, UntornOpens, HalfRotationVisible, Free

LEMMA KeptByAbandon ==
  ASSUME VInv, ~Free, Abandon, UNCHANGED mem, faults' \in 0..MaxFaults
  PROVE  VInv'
<1> USE VaultAssumption DEF Abandon, Torn
<1>1. TypeOK'
  <2>1. torn' \in BOOLEAN
    <3>1. torn' = TRUE \/ torn' = FALSE BY DEF VInv, TypeOK
    <3> QED BY <3>1
  <2> QED BY <2>1 DEF VInv, TypeOK
<1>2. KeysDrawn' BY DEF VInv, KeysDrawn, Active, Free
<1>3. UntornOpens' BY DEF VInv, KeysDrawn, UntornOpens, Active, Free, OpensWith
<1>4. HalfRotationVisible' BY DEF VInv, HalfRotationVisible, Active, OpensWith
<1> QED BY <1>1, <1>2, <1>3, <1>4 DEF VInv

LEMMA VaultStep ==
  ASSUME VInv, [Next]_vaultVars PROVE VInv'
<1> USE VaultAssumption DEF VInv, vaultVars
<1>0. faults' \in 0..MaxFaults
  <2>1. Fails \/ UNCHANGED faults
    BY DEF Next, Rotation, CallFails, BeginRotate, Reseal, Unopened, RotateFails, Finish
  <2> QED BY <2>1 DEF Fails, TypeOK
<1>1. ASSUME NEW s \in Secrets, NEW p \in Owners, Put(s, p) /\ UNCHANGED faults PROVE VInv'
  <2>1. TypeOK' BY <1>1 DEF Put, Sealed, TypeOK, Row, Key
  <2>2. KeysDrawn' BY <1>1 DEF Put, Sealed, TypeOK, KeysDrawn, Active, Free, Key
  <2>3. UntornOpens' BY <1>1 DEF Put, Sealed, TypeOK, KeysDrawn, UntornOpens, Active, Free, OpensWith
  <2>4. HalfRotationVisible'
    BY <1>1 DEF Put, Sealed, TypeOK, KeysDrawn, HalfRotationVisible, Active, OpensWith
  <2> QED BY <2>1, <2>2, <2>3, <2>4
<1>2. ASSUME NEW s \in Secrets, Retire(s) /\ UNCHANGED faults PROVE VInv'
  <2>1. TypeOK' BY <1>2 DEF Retire, TypeOK, Row, Active
  <2>2. KeysDrawn' BY <1>2 DEF Retire, TypeOK, KeysDrawn, Active, Free
  <2>3. UntornOpens' BY <1>2 DEF Retire, TypeOK, UntornOpens, Active, Free, OpensWith
  <2>4. HalfRotationVisible'
    BY <1>2 DEF Retire, TypeOK, HalfRotationVisible, Active, OpensWith
  <2> QED BY <2>1, <2>2, <2>3, <2>4
<1>3. CASE BeginRotate
  <2>1. TypeOK' BY <1>3 DEF BeginRotate, TypeOK, Key, RotateCall
  <2>2. KeysDrawn' BY <1>3 DEF BeginRotate, TypeOK, KeysDrawn, Active, Free, Row, Key
  <2>3. UntornOpens' BY <1>3 DEF BeginRotate, TypeOK, UntornOpens, Active, Free, OpensWith
  <2>4. HalfRotationVisible' BY <1>3 DEF BeginRotate, HalfRotationVisible, Active, OpensWith
  <2> QED BY <2>1, <2>2, <2>3, <2>4
<1>4. ASSUME NEW s \in Secrets, Reseal(s) PROVE VInv'
  <2> USE DEF Reseal
  <2>1. TypeOK'
    <3>1. /\ rot \in RotateCall
          /\ sealed[s] \in Row \union {None} /\ Active(s)
      BY <1>4 DEF TypeOK, Free, KeysDrawn, Active
    <3>2. sealed[s] \in Row BY <3>1 DEF Active
    <3>6. rot.key \in 0..MaxRotations /\ rot.gen \in Nat BY <3>1 DEF RotateCall
    <3>3. Resealed(s) \in Row BY <3>2, <3>6 DEF Resealed, Row
    <3>4. rot' \in RotateCall BY <3>1, <1>4 DEF RotateCall
    <3>5. sealed' \in [Secrets -> Row \union {None}] BY <3>3, <1>4 DEF TypeOK
    <3> QED BY <1>4, <3>4, <3>5 DEF TypeOK
  <2>2. KeysDrawn'
    <3>1. Active(s) /\ ~Free /\ s \in rot.todo BY <1>4 DEF KeysDrawn
    <3>2. /\ sealed'[s].key = rot.key /\ sealed'[s].gen = rot.gen
          /\ sealed'[s].active = sealed[s].active /\ sealed'[s] # None
      <4>1. sealed[s] \in Row BY <3>1 DEF TypeOK, Active
      <4>2. rot.key \in 0..MaxRotations /\ rot.gen \in Nat BY <3>1 DEF TypeOK, Free, RotateCall
      <4>3. Resealed(s) \in Row BY <4>1, <4>2 DEF Resealed, Row
      <4>4. Resealed(s) # None
        BY <4>3
      <4>5. sealed'[s] = Resealed(s) BY <1>4 DEF TypeOK
      <4> QED BY <4>1, <4>4, <4>5 DEF Resealed, Row
    <3>3. \A t \in Secrets : t # s => sealed'[t] = sealed[t] BY <1>4 DEF TypeOK
    <3>4. \A t \in Secrets : Active(t)' <=> Active(t)
      BY <3>1, <3>2, <3>3 DEF Active
    <3>5. /\ rot'.key = rot.key /\ rot'.gen = rot.gen /\ rot'.todo = rot.todo \ {s}
          /\ ~Free'
      <4>1. rot \in RotateCall BY <3>1 DEF TypeOK, Free
      <4>2. rot' \in RotateCall /\ rot' = [rot EXCEPT !.todo = @ \ {s}]
        BY <1>4, <4>1 DEF RotateCall
      <4> QED BY <4>1, <4>2 DEF RotateCall, Free
    <3>6. UNCHANGED <<mem, state, drawn>> BY <1>4
    <3>7. rot.todo \subseteq Secrets BY <3>1 DEF TypeOK, Free, RotateCall
    <3>8. rot.key <= drawn /\ drawn \in Nat BY <3>1 DEF KeysDrawn, TypeOK
    <3>9. \A t \in Secrets : Active(t)' => sealed'[t].key <= drawn'
      BY <3>2, <3>3, <3>4, <3>6, <3>8 DEF KeysDrawn
    <3>10. \A t \in Secrets : Active(t)' =>
             IF t \in rot'.todo THEN sealed'[t].key # rot'.key
                                ELSE sealed'[t].key = rot'.key /\ sealed'[t].gen = rot'.gen
      BY <3>1, <3>2, <3>3, <3>4, <3>5 DEF KeysDrawn
    <3>11. \A t \in rot'.todo : Active(t)' BY <3>1, <3>4, <3>5, <3>7 DEF KeysDrawn
    <3>12. mem' = state' /\ state'.key <= drawn' BY <3>6 DEF KeysDrawn
    <3>13. rot'.key = drawn' /\ rot'.gen = state'.gen + 1 /\ state'.key < drawn'
      BY <3>1, <3>5, <3>6 DEF KeysDrawn
    <3> QED BY ONLY <3>9, <3>10, <3>11, <3>12, <3>13 DEF KeysDrawn
  <2>3. UntornOpens'
    <3>1. \A t \in Secrets : t # s => sealed'[t] = sealed[t] BY <1>4 DEF TypeOK
    <3>2. rot'.todo = rot.todo \ {s} /\ ~Free'
      <4>1. rot \in RotateCall BY <1>4 DEF TypeOK, Free
      <4>2. rot' \in RotateCall /\ rot' = [rot EXCEPT !.todo = @ \ {s}]
        BY <1>4, <4>1 DEF RotateCall
      <4> QED BY <4>1, <4>2 DEF RotateCall, Free
    <3> QED BY <1>4, <3>1, <3>2 DEF UntornOpens, Active, OpensWith
  <2>4. HalfRotationVisible'
    <3>1. sealed'[s].key = rot.key /\ sealed'[s].gen = rot.gen
      BY <1>4, <2>1, <2>2 DEF KeysDrawn, TypeOK, Resealed, Free, Row, RotateCall, Active
    <3>2. rot.gen # state.gen /\ rot.key # state.key
      BY <1>4 DEF KeysDrawn, TypeOK, Key
    <3>3. \A t \in Secrets : t # s => sealed'[t] = sealed[t] BY <1>4 DEF TypeOK
    <3> QED BY <1>4, <3>1, <3>2, <3>3 DEF HalfRotationVisible, Active, OpensWith
  <2> QED BY <2>1, <2>2, <2>3, <2>4
<1>5. CASE Unopened \/ RotateFails
  BY <1>0, <1>5, KeptByAbandon DEF Unopened, RotateFails
<1>6. CASE Finish
  <2>1. TypeOK' BY <1>6 DEF Finish, NewKey, TypeOK, Key, Free, RotateCall
  <2>2. KeysDrawn' BY <1>6 DEF Finish, NewKey, TypeOK, KeysDrawn, Active, Free
  <2>3. UntornOpens'
    BY <1>6 DEF Finish, NewKey, TypeOK, KeysDrawn, UntornOpens, Active, Free, OpensWith
  <2>4. HalfRotationVisible'
    BY <1>6 DEF Finish, NewKey, TypeOK, KeysDrawn, HalfRotationVisible, Active, OpensWith, Free
  <2> QED BY <2>1, <2>2, <2>3, <2>4
<1>7. ASSUME UNCHANGED <<sealed, state, mem, rot, drawn, torn>> PROVE VInv'
  <2>1. TypeOK' BY <1>0, <1>7 DEF TypeOK
  <2>2. KeysDrawn' BY <1>7 DEF KeysDrawn, Active, Free
  <2>3. UntornOpens' BY <1>7 DEF UntornOpens, OpensWith, Active, Free
  <2>4. HalfRotationVisible' BY <1>7 DEF HalfRotationVisible, OpensWith, Active
  <2> QED BY <2>1, <2>2, <2>3, <2>4
<1>8. CASE Rebuild
  <2>1. UNCHANGED mem BY <1>8 DEF Rebuild, KeysDrawn
  <2>2. CASE Free
    <3>1. UNCHANGED <<sealed, state, mem, rot, drawn, torn>> BY <1>8, <2>1, <2>2 DEF Rebuild
    <3> QED BY <3>1, <1>7
  <2>3. CASE ~Free BY <1>0, <1>8, <2>1, <2>3, KeptByAbandon DEF Rebuild
  <2> QED BY <2>2, <2>3
<1> QED
  BY ONLY [Next]_vaultVars, <1>1, <1>2, <1>3, <1>4, <1>5, <1>6, <1>7, <1>8
  DEF Next, Rotation, CallFails, vaultVars
\* Every secret opens that no rotation broke off over, and a row's generation
\* tells whether it does, for any number of rotations, faults and restarts.
THEOREM VaultCorrect == Spec => [](HalfRotationVisible /\ RestartLosesNothing)
<1>1. VInv => HalfRotationVisible /\ RestartLosesNothing
  BY DEF VInv, KeysDrawn, UntornOpens, RestartLosesNothing, Free
<1> QED BY <1>1, VaultInit, VaultStep, PTL DEF Spec

-----------------------------------------------------------------------------
(* The connections.                                                        *)

\* What a call has at hand, by the step it is at.
CallsFit ==
  \A k \in Callers :
    /\ IF calls[k].at = "idle" THEN calls[k] = Idle ELSE calls[k].id \in Conns
    /\ calls[k].at \in {"seal", "insert", "retire_old", "write"} => calls[k].fields \in Fields
    /\ calls[k].at \in {"retire_old", "retire", "open"} => calls[k].seen.secret \in Secrets
    /\ calls[k].at \in {"retire_old", "write", "retire", "open", "judge"} => calls[k].seen \in ConnRow
    /\ calls[k].at \in {"seal", "retire_old"} => calls[k].secret = None
    /\ calls[k].at = "write" /\ calls[k].secret = None => calls[k].seen.secret = None

CInv == ConnTypeOK /\ CallsFit

LEMMA VaultOfConn == CInv /\ [ConnNext]_allVars => [Next]_vaultVars
<1> SUFFICES ASSUME CInv, [ConnNext]_allVars PROVE [Next]_vaultVars
  OBVIOUS
<1> USE ConnectionsAssumption DEF CInv, CallsFit
<1>1. ASSUME NEW k \in Callers, Begin(k) PROVE UNCHANGED vaultVars
  BY <1>1 DEF Begin, Create, Update, Delete, Test
<1>2. ASSUME NEW k \in Callers, Seal(k) PROVE [Next]_vaultVars
  BY <1>2 DEF Seal, Put, Next, vaultVars
<1>3. ASSUME NEW k \in Callers, SealFails(k) PROVE [Next]_vaultVars
  BY <1>3 DEF SealFails, CallFails, GivesUp, Return, Next, vaultVars
<1>4. ASSUME NEW k \in Callers, Insert(k) PROVE [Next]_vaultVars
  BY <1>4 DEF Insert, Inserted, ThenTest, Next, vaultVars
<1>5. ASSUME NEW k \in Callers, InsertFails(k) PROVE [Next]_vaultVars
  BY <1>5 DEF InsertFails, CallFails, GivesUp, Return, Next, vaultVars
<1>6. ASSUME NEW k \in Callers, RetireOld(k) PROVE [Next]_vaultVars
  BY <1>6 DEF RetireOld, Retire, Goto, Next, vaultVars
<1>7. ASSUME NEW k \in Callers, SkipRetireOld(k) PROVE [Next]_vaultVars
  BY <1>7 DEF SkipRetireOld, Ignored, CallFails, Goto, Next, vaultVars
<1>8. ASSUME NEW k \in Callers, Write(k) PROVE [Next]_vaultVars
  BY <1>8 DEF Write, Updated, StatusReset, With, ThenTest, Next, vaultVars
<1>9. ASSUME NEW k \in Callers, WriteFails(k) PROVE [Next]_vaultVars
  BY <1>9 DEF WriteFails, CallFails, GivesUp, Return, Next, vaultVars
<1>10. ASSUME NEW k \in Callers, RetireDeleted(k) PROVE [Next]_vaultVars
  BY <1>10 DEF RetireDeleted, Retire, Return, Next, vaultVars
<1>11. ASSUME NEW k \in Callers, SkipRetire(k) PROVE [Next]_vaultVars
  BY <1>11 DEF SkipRetire, Ignored, CallFails, Return, Next, vaultVars
<1>12. ASSUME NEW k \in Callers, Load(k) PROVE [Next]_vaultVars
  BY <1>12 DEF Load, Next, vaultVars
<1>13. ASSUME NEW k \in Callers, Open(k) PROVE [Next]_vaultVars
  BY <1>13 DEF Open, Granted, Next, vaultVars
<1>14. ASSUME NEW k \in Callers, JudgeFails(k) PROVE [Next]_vaultVars
  BY <1>14 DEF JudgeFails, CallFails, Return, Next, vaultVars
<1>15. ASSUME NEW k \in Callers, HangUp(k) PROVE [Next]_vaultVars
  BY <1>15 DEF HangUp, CallFails, Return, GivesUp, Next, vaultVars
<1>16. ASSUME NEW k \in Callers, NEW st \in Reports(k), Judge(k, st) PROVE UNCHANGED vaultVars
  BY <1>16 DEF Judge
<1>17. CASE Rotation BY <1>17 DEF Next
<1>18. CASE Restart BY <1>18 DEF Restart, Next
<1>19. CASE UNCHANGED allVars BY <1>19 DEF allVars
<1> QED
  BY ONLY [ConnNext]_allVars, <1>1, <1>2, <1>3, <1>4, <1>5, <1>6, <1>7, <1>8, <1>9, <1>10, <1>11, <1>12, <1>13, <1>14, <1>15, <1>16, <1>17, <1>18, <1>19
  DEF ConnNext, Proceed, Breaks

\* The types of the connections' part.
LEMMA ConnTypes ==
  ASSUME CInv, TypeOK', [ConnNext]_allVars
  PROVE  (ConnTypeOK /\ CallsFit)'
<1> USE VaultAssumption, ConnectionsAssumption DEF CInv, ConnTypeOK, CallsFit, Call, ConnRow, CallStates
<1>1. ASSUME NEW k \in Callers, NEW c \in Conns, NEW f \in Fields, NEW b \in BOOLEAN, Create(k, c, f, b) PROVE (ConnTypeOK /\ CallsFit)'
  BY <1>1, ZenonT(30) DEF Create, Idle
<1>2. ASSUME NEW k \in Callers, NEW c \in Conns, NEW f \in Fields, NEW b \in BOOLEAN, Update(k, c, f, b) PROVE (ConnTypeOK /\ CallsFit)'
  <2> DEFINE at == IF b THEN FirstStep(c) ELSE "write"
             secret == IF b THEN None ELSE conn[c].secret
             call == [Idle EXCEPT !.id = c, !.seen = conn[c], !.fields = f,
                                  !.at = at, !.secret = secret]
  <2>1. conn[c] \in ConnRow /\ UNCHANGED <<vaultVars, conn, created, crossed>>
        /\ calls' = [calls EXCEPT ![k] = call]
    BY <1>2 DEF Update
  <2>2. at \in {"seal", "retire_old", "write"} /\ secret \in Secrets \union {None}
    BY <2>1 DEF FirstStep
  <2>3. at = "retire_old" => conn[c].secret \in Secrets BY <2>1 DEF FirstStep
  <2>4. /\ at \in {"seal", "retire_old"} => secret = None
        /\ at = "write" => secret = conn[c].secret
    BY DEF FirstStep
  <2>5. /\ call \in Call
        /\ call.at = at /\ call.id = c /\ call.seen = conn[c] /\ call.fields = f
        /\ call.secret = secret
    <3>1. at \in CallStates BY <2>2
    <3> HIDE DEF at, secret
    <3> QED BY ONLY <2>1, <2>2, <3>1, c \in Conns, f \in Fields DEF call, Idle, Call
  <2> HIDE DEF at, secret, call
  <2>6. calls' \in [Callers -> Call] BY <2>1, <2>2, <2>5
  <2> QED BY <2>1, <2>2, <2>3, <2>4, <2>5, <2>6
<1>3. ASSUME NEW k \in Callers, NEW c \in Conns, Delete(k, c) PROVE (ConnTypeOK /\ CallsFit)'
  BY <1>3, ZenonT(30) DEF Delete, Idle
<1>4. ASSUME NEW k \in Callers, NEW c \in Conns, Test(k, c) PROVE (ConnTypeOK /\ CallsFit)'
  BY <1>4, ZenonT(30) DEF Test, Idle
<1>5. ASSUME NEW k \in Callers, Seal(k) PROVE (ConnTypeOK /\ CallsFit)'
  BY <1>5 DEF Seal, Put, Sealed
<1>6. ASSUME NEW k \in Callers, SealFails(k) PROVE (ConnTypeOK /\ CallsFit)'
  BY <1>6 DEF SealFails, CallFails, GivesUp, Return, Idle
<1>7. ASSUME NEW k \in Callers, Insert(k) PROVE (ConnTypeOK /\ CallsFit)'
  BY <1>7 DEF Insert, Inserted, ThenTest, Idle
<1>8. ASSUME NEW k \in Callers, InsertFails(k) PROVE (ConnTypeOK /\ CallsFit)'
  BY <1>8 DEF InsertFails, CallFails, GivesUp, Return, Idle
<1>9. ASSUME NEW k \in Callers, RetireOld(k) PROVE (ConnTypeOK /\ CallsFit)'
  BY <1>9 DEF RetireOld, Retire, Goto
<1>10. ASSUME NEW k \in Callers, SkipRetireOld(k) PROVE (ConnTypeOK /\ CallsFit)'
  BY <1>10 DEF SkipRetireOld, Ignored, CallFails, Goto
<1>11. ASSUME NEW k \in Callers, Write(k) PROVE (ConnTypeOK /\ CallsFit)'
  BY <1>11, ZenonT(30) DEF Write, Updated, StatusReset, With, ThenTest, Idle
<1>12. ASSUME NEW k \in Callers, WriteFails(k) PROVE (ConnTypeOK /\ CallsFit)'
  BY <1>12, ZenonT(30) DEF WriteFails, CallFails, GivesUp, Return, Idle
<1>13. ASSUME NEW k \in Callers, RetireDeleted(k) PROVE (ConnTypeOK /\ CallsFit)'
  BY <1>13 DEF RetireDeleted, Retire, Return, Idle
<1>14. ASSUME NEW k \in Callers, SkipRetire(k) PROVE (ConnTypeOK /\ CallsFit)'
  BY <1>14 DEF SkipRetire, Ignored, CallFails, Return, Idle
<1>15. ASSUME NEW k \in Callers, Load(k) PROVE (ConnTypeOK /\ CallsFit)'
  <2>1. CASE conn[calls[k].id] = None BY <1>15, <2>1, ZenonT(30) DEF Load, Idle
  <2>2. CASE conn[calls[k].id] # None
    <3> DEFINE c == calls[k].id
               call == [Idle EXCEPT !.at = IF conn[c].secret = None THEN "judge" ELSE "open",
                                    !.id = c, !.seen = conn[c], !.got = TRUE]
    <3>1. c \in Conns /\ conn[c] \in ConnRow BY <1>15, <2>2 DEF Load
    <3>2. /\ call \in Call
          /\ call.at = IF conn[c].secret = None THEN "judge" ELSE "open"
          /\ call.id = c /\ call.seen = conn[c]
      <4> DEFINE at == IF conn[c].secret = None THEN "judge" ELSE "open"
      <4>1. at \in CallStates OBVIOUS
      <4> HIDE DEF at, c
      <4> QED BY ONLY <3>1, <4>1 DEF call, Idle, Call
    <3>3. calls' = [calls EXCEPT ![k] = call] BY <1>15, <2>2 DEF Load
    <3> HIDE DEF call
    <3>4. calls' \in [Callers -> Call] BY <3>1, <3>2, <3>3
    <3>5. conn' = conn /\ created' = created /\ crossed' = crossed /\ TypeOK'
      BY <1>15 DEF Load
    <3>6. ConnTypeOK' BY ONLY <3>4, <3>5, ConnTypeOK DEF ConnTypeOK
    <3>7. k \in Callers /\ calls \in [Callers -> Call] OBVIOUS
    <3>8. conn[c].secret # None => conn[c].secret \in Secrets
      BY <3>1 DEF ConnRow
    <3>9. CallsFit'
      BY ONLY <3>1, <3>2, <3>3, <3>7, <3>8, CallsFit DEF CallsFit
    <3> QED BY <3>6, <3>9
  <2> QED BY <2>1, <2>2
<1>16. ASSUME NEW k \in Callers, Open(k) PROVE (ConnTypeOK /\ CallsFit)'
  <2>1. Granted(calls[k].seen.secret, calls[k].id) \in BOOLEAN
    BY Zenon DEF Granted, Active, OpensWith
  <2>2. calls' = [calls EXCEPT ![k] =
          [calls[k] EXCEPT !.at = "judge", !.got = Granted(calls[k].seen.secret, calls[k].id)]]
    BY <1>16 DEF Open
  <2>3. calls[k] \in Call OBVIOUS
  <2>4. PICK call \in Call :
          /\ calls' = [calls EXCEPT ![k] = call] /\ call.at = "judge"
          /\ call.id = calls[k].id /\ call.seen = calls[k].seen
    <3> DEFINE got == Granted(calls[k].seen.secret, calls[k].id)
               call == [calls[k] EXCEPT !.at = "judge", !.got = got]
    <3> HIDE DEF got
    <3>1. got \in BOOLEAN BY <2>1 DEF got
    <3>2. /\ call \in Call /\ call.at = "judge"
          /\ call.id = calls[k].id /\ call.seen = calls[k].seen
      BY ONLY <2>3, <3>1 DEF Call, CallStates
    <3>3. calls' = [calls EXCEPT ![k] = call] BY <2>2 DEF got
    <3> HIDE DEF call
    <3> QED BY <3>2, <3>3
  <2>5. calls[k].at = "open" /\ UNCHANGED <<vaultVars, conn, created, crossed>>
    BY <1>16 DEF Open
  <2> QED BY <2>3, <2>4, <2>5
<1>17. ASSUME NEW k \in Callers, NEW st \in Reports(k), Judge(k, st) PROVE (ConnTypeOK /\ CallsFit)'
  <2>1. calls[k].id \in Conns /\ calls[k].seen \in ConnRow BY <1>17 DEF Judge
  <2>2. st \in {"untested", "ok", "error"} BY DEF Reports
  <2>3. conn' \in [Conns -> ConnRow \union {None}] BY <1>17, <2>1, <2>2 DEF Judge
  <2>5. calls' = [calls EXCEPT ![k] = Idle] /\ UNCHANGED <<vaultVars, created, crossed>>
    BY <1>17 DEF Judge, Return
  <2>6. calls' \in [Callers -> Call] BY <2>5 DEF Idle
  <2> QED BY <2>3, <2>5, <2>6, ZenonT(30) DEF Idle
<1>18. ASSUME NEW k \in Callers, JudgeFails(k) PROVE (ConnTypeOK /\ CallsFit)'
  BY <1>18 DEF JudgeFails, CallFails, Return, Idle
<1>19. ASSUME NEW k \in Callers, HangUp(k) PROVE (ConnTypeOK /\ CallsFit)'
  <2>1. calls' = [calls EXCEPT ![k] = Idle] BY <1>19 DEF HangUp, Return, GivesUp
  <2>2. calls' \in [Callers -> Call] BY <2>1 DEF Idle
  <2>3. calls[k].id \in Conns \union {None} BY DEF Call
  <2>4. crossed' \subseteq Conns
    BY <1>19, <2>3 DEF HangUp, GivesUp, Testing, Return
  <2> QED BY <1>19, <2>1, <2>2, <2>4 DEF HangUp, Idle, CallFails
<1>20. CASE Rotation /\ UNCHANGED connVars BY <1>20 DEF connVars
<1>21. CASE Restart BY <1>21 DEF Restart, Idle
<1>22. CASE UNCHANGED allVars BY <1>22 DEF allVars, connVars, vaultVars
<1>23. ASSUME NEW k \in Callers, Begin(k) PROVE (ConnTypeOK /\ CallsFit)'
  <2>1. \A c \in Conns : conn[c] # None => conn[c].fields \in Fields BY DEF ConnTypeOK, ConnRow
  <2> HIDE DEF CInv, ConnTypeOK, CallsFit
  <2> QED BY <1>23, <2>1, <1>1, <1>2, <1>3, <1>4 DEF Begin
<1> QED
  BY ONLY [ConnNext]_allVars, <1>5, <1>6, <1>7, <1>8, <1>9, <1>10, <1>11, <1>12, <1>13, <1>14, <1>15, <1>16, <1>17, <1>18, <1>19, <1>20, <1>21, <1>22, <1>23
  DEF ConnNext, Proceed, Breaks

\* A row keeps its owner.
LEMMA OwnersKept ==
  ASSUME VInv, [Next]_vaultVars, NEW r \in Secrets, sealed[r] # None
  PROVE  sealed'[r] # None /\ sealed'[r].owner = sealed[r].owner
<1> USE VaultAssumption DEF VInv, TypeOK
<1>0. sealed[r] \in Row OBVIOUS
<1>1. ASSUME NEW s \in Secrets, NEW p \in Owners, Put(s, p) PROVE sealed'[r] = sealed[r]
  BY <1>1 DEF Put
<1>2. ASSUME NEW s \in Secrets, Retire(s) PROVE sealed'[r].owner = sealed[r].owner
  BY <1>0, <1>2 DEF Retire, Row
<1>3. ASSUME NEW s \in Secrets, Reseal(s) PROVE sealed'[r].owner = sealed[r].owner
  BY <1>0, <1>3 DEF Reseal, Resealed, Row
<1>4. ASSUME \/ BeginRotate \/ Unopened \/ RotateFails \/ Finish \/ Rebuild \/ CallFails
             \/ UNCHANGED vaultVars
      PROVE  UNCHANGED sealed
  BY <1>4 DEF BeginRotate, Unopened, RotateFails, Abandon, Finish, Rebuild, CallFails, vaultVars
<1>5. sealed'[r].owner = sealed[r].owner
  BY ONLY [Next]_vaultVars, <1>1, <1>2, <1>3, <1>4 DEF Next, Rotation
<1>6. ASSUME NEW s \in Secrets, Retire(s) PROVE sealed'[r] # None
  <2>1. sealed'[r] \in Row BY <1>0, <1>6 DEF Retire, Row
  <2> QED BY <2>1
<1>7. ASSUME NEW s \in Secrets, Reseal(s) PROVE sealed'[r] # None
  <2>1. rot \in RotateCall BY <1>7 DEF Reseal, Free
  <2>2. rot.key \in 0..MaxRotations /\ rot.gen \in Nat BY <2>1 DEF RotateCall
  <2>3. sealed'[r] \in Row BY <1>0, <1>7, <2>2 DEF Reseal, Resealed, Row
  <2> QED BY <2>3
<1>8. sealed'[r] # None
  BY ONLY sealed[r] # None, [Next]_vaultVars, <1>1, <1>4, <1>6, <1>7 DEF Next, Rotation
<1> QED BY <1>5, <1>8

\* A call that creates is alone with its connection, which is not there yet.
Creating(k) == calls[k].at \in {"seal", "insert"} /\ calls[k].seen = None
CreatedOnce ==
  /\ \A c \in Conns : conn[c] # None => c \in created
  /\ \A k \in Callers :
       /\ calls[k].id # None => calls[k].id \in created
       /\ calls[k].at = "insert" => calls[k].seen = None
       /\ Creating(k) => /\ conn[calls[k].id] = None
                         /\ \A j \in Callers : calls[j].id = calls[k].id => j = k

\* Connections are created once.
LEMMA CreatedStep ==
  ASSUME CInv, CInv', VInv, CreatedOnce, [ConnNext]_allVars
  PROVE  CreatedOnce'
<1> USE VaultAssumption, ConnectionsAssumption DEF CInv, ConnTypeOK, CallsFit, CreatedOnce, Creating
<1>1. ASSUME NEW k \in Callers, NEW c \in Conns, NEW f \in Fields, NEW b \in BOOLEAN, Create(k, c, f, b) PROVE CreatedOnce'
  BY <1>1 DEF Create, Idle
<1>2. ASSUME NEW k \in Callers, NEW c \in Conns, NEW f \in Fields, NEW b \in BOOLEAN, Update(k, c, f, b) PROVE CreatedOnce'
  BY <1>2 DEF Update, FirstStep, Idle
<1>3. ASSUME NEW k \in Callers, NEW c \in Conns, Delete(k, c) PROVE CreatedOnce'
  BY <1>3 DEF Delete, Idle
<1>4. ASSUME NEW k \in Callers, NEW c \in Conns, Test(k, c) PROVE CreatedOnce'
  BY <1>4 DEF Test, Idle
<1>5. ASSUME NEW k \in Callers, Seal(k) PROVE CreatedOnce'
  BY <1>5 DEF Seal, Put, Sealed
<1>6. ASSUME NEW k \in Callers, SealFails(k) PROVE CreatedOnce'
  BY <1>6 DEF SealFails, CallFails, GivesUp, Return, Idle
<1>7. ASSUME NEW k \in Callers, Insert(k) PROVE CreatedOnce'
  BY <1>7 DEF Insert, Inserted, ThenTest, Idle
<1>8. ASSUME NEW k \in Callers, InsertFails(k) PROVE CreatedOnce'
  BY <1>8 DEF InsertFails, CallFails, GivesUp, Return, Idle
<1>9. ASSUME NEW k \in Callers, RetireOld(k) PROVE CreatedOnce'
  BY <1>9 DEF RetireOld, Retire, Goto
<1>10. ASSUME NEW k \in Callers, SkipRetireOld(k) PROVE CreatedOnce'
  BY <1>10 DEF SkipRetireOld, Ignored, CallFails, Goto
<1>11. ASSUME NEW k \in Callers, Write(k) PROVE CreatedOnce'
  BY <1>11 DEF Write, Updated, StatusReset, With, ThenTest, Idle
<1>12. ASSUME NEW k \in Callers, WriteFails(k) PROVE CreatedOnce'
  BY <1>12 DEF WriteFails, CallFails, GivesUp, Return, Idle
<1>13. ASSUME NEW k \in Callers, RetireDeleted(k) PROVE CreatedOnce'
  BY <1>13 DEF RetireDeleted, Retire, Return, Idle
<1>14. ASSUME NEW k \in Callers, SkipRetire(k) PROVE CreatedOnce'
  BY <1>14 DEF SkipRetire, Ignored, CallFails, Return, Idle
<1>15. ASSUME NEW k \in Callers, Load(k) PROVE CreatedOnce'
  BY <1>15 DEF Load, Idle
<1>16. ASSUME NEW k \in Callers, Open(k) PROVE CreatedOnce'
  BY <1>16, SMTT(90) DEF Open, Granted
<1>17. ASSUME NEW k \in Callers, NEW st \in Reports(k), Judge(k, st) PROVE CreatedOnce'
  BY <1>17 DEF Judge, Reports, Return, Idle
<1>18. ASSUME NEW k \in Callers, JudgeFails(k) PROVE CreatedOnce'
  BY <1>18 DEF JudgeFails, CallFails, Return, Idle
<1>19. ASSUME NEW k \in Callers, HangUp(k) PROVE CreatedOnce'
  BY <1>19 DEF HangUp, CallFails, Return, GivesUp, Idle
<1>20. CASE Rotation /\ UNCHANGED connVars BY <1>20 DEF connVars
<1>21. CASE Restart BY <1>21 DEF Restart, Idle
<1>22. CASE UNCHANGED allVars BY <1>22 DEF allVars, connVars, vaultVars
<1>23. ASSUME NEW k \in Callers, Begin(k) PROVE CreatedOnce'
  <2>1. \A c \in Conns : conn[c] # None => conn[c].fields \in Fields BY DEF ConnTypeOK, ConnRow
  <2> HIDE DEF CInv, ConnTypeOK, CallsFit, CreatedOnce
  <2> QED BY <1>23, <2>1, <1>1, <1>2, <1>3, <1>4 DEF Begin
<1> QED
  BY ONLY [ConnNext]_allVars, <1>5, <1>6, <1>7, <1>8, <1>9, <1>10, <1>11, <1>12, <1>13, <1>14, <1>15, <1>16, <1>17, <1>18, <1>19, <1>20, <1>21, <1>22, <1>23
  DEF ConnNext, Proceed, Breaks

\* Secrets are not mixed up.
LEMMA OwnStep ==
  ASSUME CInv, CInv', VInv, OwnSecret, [ConnNext]_allVars
  PROVE  OwnSecret'
<1> DEFINE New(s, c) == s = None \/ (sealed'[s] # None /\ sealed'[s].owner = c)
           Goal ==
             /\ \A c \in Conns : conn'[c] # None => New(conn'[c].secret, c)
             /\ \A k \in Callers :
                  /\ New(calls'[k].secret, calls'[k].id)
                  /\ calls'[k].seen # None => New(calls'[k].seen.secret, calls'[k].id)
<1>a. \A s \in Secrets \union {None} : \A c : OfConn(s, c) => New(s, c)
  BY OwnersKept, VaultOfConn DEF OfConn
<1>b. /\ \A c \in Conns : conn[c] # None => New(conn[c].secret, c)
      /\ \A k \in Callers :
           /\ New(calls[k].secret, calls[k].id)
           /\ calls[k].seen # None => New(calls[k].seen.secret, calls[k].id)
  <2> HIDE DEF New
  <2>1. \A c \in Conns : conn[c] # None => conn[c].secret \in Secrets \union {None}
    BY DEF CInv, ConnTypeOK, ConnRow
  <2>2. \A k \in Callers :
          /\ calls[k].secret \in Secrets \union {None}
          /\ calls[k].seen # None => calls[k].seen.secret \in Secrets \union {None}
    BY DEF CInv, ConnTypeOK, ConnRow, Call
  <2> QED BY <1>a, <2>1, <2>2 DEF OwnSecret
<1>c. \A c : New(None, c) OBVIOUS
<1>d. ASSUME NEW k \in Callers, NEW s \in Secrets, Put(s, calls[k].id), calls[k].id \in Conns
      PROVE  New(s, calls[k].id)
  <2>1. sealed' = [sealed EXCEPT ![s] = Sealed(calls[k].id)]
    BY <1>d DEF Put
  <2>2. sealed'[s] = Sealed(calls[k].id) BY <2>1 DEF VInv, TypeOK
  <2>3. sealed'[s].owner = calls[k].id BY <2>2 DEF Sealed
  <2>4. sealed'[s] # None
    <3>1. Sealed(calls[k].id) \in Row
      BY <1>d, ConnectionsAssumption DEF Sealed, Row, VInv, TypeOK, Key
    <3> QED BY <2>2, <3>1, VaultAssumption
  <2> QED BY <2>3, <2>4
<1> HIDE DEF New
<1> USE <1>b, <1>c
<1> USE VaultAssumption, ConnectionsAssumption DEF CInv, ConnTypeOK, CallsFit
<1>1. ASSUME NEW k \in Callers, NEW c \in Conns, NEW f \in Fields, NEW b \in BOOLEAN, Create(k, c, f, b) PROVE Goal
  BY <1>1 DEF Create, Idle
<1>2. ASSUME NEW k \in Callers, NEW c \in Conns, NEW f \in Fields, NEW b \in BOOLEAN, Update(k, c, f, b) PROVE Goal
  BY <1>2 DEF Update, FirstStep, Idle
<1>3. ASSUME NEW k \in Callers, NEW c \in Conns, Delete(k, c) PROVE Goal
  BY <1>3 DEF Delete, Idle
<1>4. ASSUME NEW k \in Callers, NEW c \in Conns, Test(k, c) PROVE Goal
  BY <1>4 DEF Test, Idle
<1>5. ASSUME NEW k \in Callers, Seal(k) PROVE Goal
  BY <1>5, <1>d DEF Seal
<1>6. ASSUME NEW k \in Callers, SealFails(k) PROVE Goal
  BY <1>6 DEF SealFails, CallFails, GivesUp, Return, Idle
<1>7. ASSUME NEW k \in Callers, Insert(k) PROVE Goal
  BY <1>7 DEF Insert, Inserted, ThenTest, Idle
<1>8. ASSUME NEW k \in Callers, InsertFails(k) PROVE Goal
  BY <1>8 DEF InsertFails, CallFails, GivesUp, Return, Idle
<1>9. ASSUME NEW k \in Callers, RetireOld(k) PROVE Goal
  BY <1>9 DEF RetireOld, Retire, Goto
<1>10. ASSUME NEW k \in Callers, SkipRetireOld(k) PROVE Goal
  BY <1>10 DEF SkipRetireOld, Ignored, CallFails, Goto
<1>11. ASSUME NEW k \in Callers, Write(k) PROVE Goal
  BY <1>11 DEF Write, Updated, StatusReset, With, ThenTest, Idle
<1>12. ASSUME NEW k \in Callers, WriteFails(k) PROVE Goal
  BY <1>12 DEF WriteFails, CallFails, GivesUp, Return, Idle
<1>13. ASSUME NEW k \in Callers, RetireDeleted(k) PROVE Goal
  BY <1>13 DEF RetireDeleted, Retire, Return, Idle
<1>14. ASSUME NEW k \in Callers, SkipRetire(k) PROVE Goal
  BY <1>14 DEF SkipRetire, Ignored, CallFails, Return, Idle
<1>15. ASSUME NEW k \in Callers, Load(k) PROVE Goal
  BY <1>15 DEF Load, Idle
<1>16. ASSUME NEW k \in Callers, Open(k) PROVE Goal
  BY <1>16 DEF Open, Granted
<1>17. ASSUME NEW k \in Callers, NEW st \in Reports(k), Judge(k, st) PROVE Goal
  BY <1>17 DEF Judge, Reports, Return, Idle
<1>18. ASSUME NEW k \in Callers, JudgeFails(k) PROVE Goal
  BY <1>18 DEF JudgeFails, CallFails, Return, Idle
<1>19. ASSUME NEW k \in Callers, HangUp(k) PROVE Goal
  BY <1>19 DEF HangUp, CallFails, Return, GivesUp, Idle
<1>20. ASSUME Rotation /\ UNCHANGED connVars PROVE Goal BY <1>20 DEF connVars
<1>21. ASSUME Restart PROVE Goal BY <1>21 DEF Restart, Idle
<1>22. ASSUME UNCHANGED allVars PROVE Goal BY <1>22 DEF allVars, connVars, vaultVars
<1>23. ASSUME NEW k \in Callers, Begin(k) PROVE Goal
  <2>1. \A c \in Conns : conn[c] # None => conn[c].fields \in Fields BY DEF ConnTypeOK, ConnRow
  <2> HIDE DEF CInv, ConnTypeOK, CallsFit, Goal
  <2> QED BY <1>23, <2>1, <1>1, <1>2, <1>3, <1>4 DEF Begin
<1>e. Goal
  <2> HIDE DEF Goal
  <2> QED
    BY ONLY [ConnNext]_allVars, <1>5, <1>6, <1>7, <1>8, <1>9, <1>10, <1>11, <1>12, <1>13, <1>14, <1>15, <1>16, <1>17, <1>18, <1>19, <1>20, <1>21, <1>22, <1>23
    DEF ConnNext, Proceed, Breaks
<1> QED BY ONLY <1>e DEF Goal, New, OwnSecret, OfConn

-----------------------------------------------------------------------------
(* The vault and the table agree.                                          *)

\* A call brings a secret that it sealed itself: nothing else names it, so that
\* nobody retires it.
Brings(k) ==
  /\ calls[k].at \in {"insert", "write"} /\ calls[k].secret # None
  /\ calls[k].seen # None => calls[k].secret # calls[k].seen.secret
NobodyElses ==
  \A k \in Callers : Brings(k) =>
    /\ \A c \in Conns : conn[c] # None => conn[c].secret # calls[k].secret
    /\ \A j \in Callers : /\ calls[j].seen # None => calls[j].seen.secret # calls[k].secret
                          /\ j # k => calls[j].secret # calls[k].secret

ActiveSecrets == {s \in Secrets : Active(s)}
HeldBy == [c \in Conns |-> Held(c)]

BroughtIsActive == \A k \in Callers : Brings(k) => calls[k].secret \in ActiveSecrets

\* Which rows are active, and whose, after a step of the vault.
LEMMA ActiveAfterPut ==
  ASSUME VInv, NEW s \in Secrets, NEW p \in Owners, Put(s, p)
  PROVE  /\ ActiveSecrets' = ActiveSecrets \union {s}
         /\ \A c \in Conns : HeldBy'[c] = IF c = p THEN HeldBy[c] \union {s} ELSE HeldBy[c]
<1>1. sealed' = [sealed EXCEPT ![s] = Sealed(p)] /\ sealed[s] = None BY DEF Put
<1>2. Sealed(p) \in Row /\ Sealed(p).active /\ Sealed(p).owner = p
  BY DEF Sealed, Row, VInv, TypeOK, Key
<1>3. sealed \in [Secrets -> Row \union {None}] BY DEF VInv, TypeOK
<1> QED BY <1>1, <1>2, <1>3, VaultAssumption DEF Active, Held, ActiveSecrets, HeldBy

LEMMA ActiveAfterRetire ==
  ASSUME VInv, NEW s \in Secrets, Retire(s)
  PROVE  /\ ActiveSecrets' = ActiveSecrets \ {s}
         /\ \A c \in Conns : HeldBy'[c] = HeldBy[c] \ {s}
<1>1. sealed' = [sealed EXCEPT ![s].active = FALSE] /\ sealed[s] # None
  BY DEF Retire, Active
<1>3. sealed \in [Secrets -> Row \union {None}] BY DEF VInv, TypeOK
<1>2. sealed'[s].active = FALSE BY <1>1, <1>3 DEF Row
<1> QED BY <1>1, <1>2, <1>3 DEF Active, Held, ActiveSecrets, HeldBy

LEMMA ActiveAfterOthers ==
  ASSUME VInv,
         \/ Rotation \/ Rebuild \/ CallFails \/ UNCHANGED vaultVars
  PROVE  ActiveSecrets' = ActiveSecrets /\ HeldBy' = HeldBy
<1>1. CASE UNCHANGED sealed BY <1>1 DEF Active, Held, ActiveSecrets, HeldBy
<1>2. ASSUME NEW s \in Secrets, Reseal(s)
      PROVE  ActiveSecrets' = ActiveSecrets /\ HeldBy' = HeldBy
  <2>1. rot \in RotateCall BY <1>2 DEF Reseal, Free, VInv, TypeOK
  <2>2. rot.key \in 0..MaxRotations /\ rot.gen \in Nat
    BY <2>1, VaultAssumption DEF RotateCall
  <2>3. Active(s) BY <1>2 DEF Reseal, VInv, KeysDrawn
  <2>4. sealed[s] \in Row BY <2>3 DEF VInv, TypeOK, Active
  <2>5. /\ Resealed(s) \in Row /\ Resealed(s).active = sealed[s].active
        /\ Resealed(s).owner = sealed[s].owner
    BY <2>2, <2>4 DEF Resealed, Row
  <2>6. sealed' = [sealed EXCEPT ![s] = Resealed(s)] BY <1>2 DEF Reseal
  <2> QED BY <2>3, <2>5, <2>6, VaultAssumption, ZenonT(30) DEF VInv, TypeOK, Active, Held, ActiveSecrets, HeldBy
<1>3. UNCHANGED sealed \/ \E s \in Secrets : Reseal(s)
  BY DEF Rotation, BeginRotate, Unopened, RotateFails, Abandon, Finish, Rebuild, CallFails, vaultVars
<1> QED BY <1>1, <1>2, <1>3

\* A secret a call brings stays its own.
LEMMA NobodyStep ==
  ASSUME CInv, CInv', OwnSecret, NobodyElses, [ConnNext]_allVars
  PROVE  NobodyElses'
<1> USE VaultAssumption, ConnectionsAssumption DEF CInv, ConnTypeOK, CallsFit, NobodyElses, Brings
<1>1. ASSUME NEW k \in Callers, NEW c \in Conns, NEW f \in Fields, NEW b \in BOOLEAN, Create(k, c, f, b) PROVE NobodyElses'
  BY <1>1 DEF Create, Idle
<1>2. ASSUME NEW k \in Callers, NEW c \in Conns, NEW f \in Fields, NEW b \in BOOLEAN, Update(k, c, f, b) PROVE NobodyElses'
  BY <1>2 DEF Update, FirstStep, Idle
<1>3. ASSUME NEW k \in Callers, NEW c \in Conns, Delete(k, c) PROVE NobodyElses'
  BY <1>3 DEF Delete, Idle
<1>4. ASSUME NEW k \in Callers, NEW c \in Conns, Test(k, c) PROVE NobodyElses'
  BY <1>4 DEF Test, Idle
<1>5. ASSUME NEW k \in Callers, Seal(k) PROVE NobodyElses'
  <2>1. PICK s \in Secrets :
          /\ sealed[s] = None
          /\ calls' = [calls EXCEPT ![k].secret = s,
                         ![k].at = IF calls[k].seen = None THEN "insert" ELSE "write"]
          /\ UNCHANGED conn
    BY <1>5 DEF Seal, Put
  <2>2. /\ \A c \in Conns : conn[c] # None => conn[c].secret # s
        /\ \A j \in Callers : /\ calls[j].secret # s
                              /\ calls[j].seen # None => calls[j].seen.secret # s
    BY <2>1 DEF OwnSecret, OfConn
  <2>3. /\ calls'[k].secret = s /\ calls'[k].seen = calls[k].seen
        /\ \A j \in Callers : j # k => calls'[j] = calls[j]
    BY <2>1 DEF Call
  <2> HIDE DEF CInv, ConnTypeOK, CallsFit
  <2>4. ASSUME NEW i \in Callers, i # k, Brings(i)'
        PROVE  /\ \A c \in Conns : conn'[c] # None => conn'[c].secret # calls'[i].secret
               /\ \A j \in Callers :
                    /\ calls'[j].seen # None => calls'[j].seen.secret # calls'[i].secret
                    /\ j # i => calls'[j].secret # calls'[i].secret
    <3>1. Brings(i) /\ calls'[i] = calls[i] BY <2>3, <2>4
    <3>2. \A j \in Callers : calls'[j].seen = calls[j].seen BY <2>3
    <3>3. \A c \in Conns : conn'[c] # None => conn'[c].secret # calls'[i].secret
      BY <2>1, <3>1
    <3>4. \A j \in Callers : calls'[j].seen # None => calls'[j].seen.secret # calls'[i].secret
      BY <3>1, <3>2
    <3>5. ASSUME NEW j \in Callers, j # i PROVE calls'[j].secret # calls'[i].secret
      <4>1. CASE j = k BY ONLY <2>2, <2>3, <3>1, <4>1, i \in Callers
      <4>2. CASE j # k BY <2>3, <3>1, <3>5, <4>2
      <4> QED BY <4>1, <4>2
    <3> QED BY ONLY <3>3, <3>4, <3>5
  <2>5. /\ \A c \in Conns : conn'[c] # None => conn'[c].secret # calls'[k].secret
        /\ \A j \in Callers :
             /\ calls'[j].seen # None => calls'[j].seen.secret # calls'[k].secret
             /\ j # k => calls'[j].secret # calls'[k].secret
    <3>1. \A j \in Callers : calls'[j].seen = calls[j].seen BY <2>3
    <3> QED BY <2>1, <2>2, <2>3, <3>1, ZenonT(30)
  <2> HIDE DEF Brings
  <2> QED BY <2>4, <2>5
<1>6. ASSUME NEW k \in Callers, SealFails(k) PROVE NobodyElses'
  BY <1>6 DEF SealFails, CallFails, GivesUp, Return, Idle
<1>7. ASSUME NEW k \in Callers, Insert(k) PROVE NobodyElses'
  BY <1>7 DEF Insert, Inserted, ThenTest, Idle
<1>8. ASSUME NEW k \in Callers, InsertFails(k) PROVE NobodyElses'
  BY <1>8 DEF InsertFails, CallFails, GivesUp, Return, Idle
<1>9. ASSUME NEW k \in Callers, RetireOld(k) PROVE NobodyElses'
  BY <1>9 DEF RetireOld, Retire, Goto
<1>10. ASSUME NEW k \in Callers, SkipRetireOld(k) PROVE NobodyElses'
  BY <1>10 DEF SkipRetireOld, Ignored, CallFails, Goto
<1>11. ASSUME NEW k \in Callers, Write(k) PROVE NobodyElses'
  BY <1>11 DEF Write, Updated, StatusReset, With, ThenTest, Idle
<1>12. ASSUME NEW k \in Callers, WriteFails(k) PROVE NobodyElses'
  BY <1>12 DEF WriteFails, CallFails, GivesUp, Return, Idle
<1>13. ASSUME NEW k \in Callers, RetireDeleted(k) PROVE NobodyElses'
  BY <1>13 DEF RetireDeleted, Retire, Return, Idle
<1>14. ASSUME NEW k \in Callers, SkipRetire(k) PROVE NobodyElses'
  BY <1>14 DEF SkipRetire, Ignored, CallFails, Return, Idle
<1>15. ASSUME NEW k \in Callers, Load(k) PROVE NobodyElses'
  BY <1>15 DEF Load, Idle
<1>16. ASSUME NEW k \in Callers, Open(k) PROVE NobodyElses'
  BY <1>16, SMTT(90) DEF Open, Granted
<1>17. ASSUME NEW k \in Callers, NEW st \in Reports(k), Judge(k, st) PROVE NobodyElses'
  BY <1>17 DEF Judge, Reports, Return, Idle
<1>18. ASSUME NEW k \in Callers, JudgeFails(k) PROVE NobodyElses'
  BY <1>18 DEF JudgeFails, CallFails, Return, Idle
<1>19. ASSUME NEW k \in Callers, HangUp(k) PROVE NobodyElses'
  BY <1>19 DEF HangUp, CallFails, Return, GivesUp, Idle
<1>20. CASE Rotation /\ UNCHANGED connVars BY <1>20 DEF connVars
<1>21. CASE Restart BY <1>21 DEF Restart, Idle
<1>22. CASE UNCHANGED allVars BY <1>22 DEF allVars, connVars, vaultVars
<1>23. ASSUME NEW k \in Callers, Begin(k) PROVE NobodyElses'
  <2>1. \A c \in Conns : conn[c] # None => conn[c].fields \in Fields BY DEF ConnTypeOK, ConnRow
  <2> HIDE DEF CInv, ConnTypeOK, CallsFit, NobodyElses, Brings
  <2> QED BY <1>23, <2>1, <1>1, <1>2, <1>3, <1>4 DEF Begin
<1> QED
  BY ONLY [ConnNext]_allVars, <1>5, <1>6, <1>7, <1>8, <1>9, <1>10, <1>11, <1>12, <1>13, <1>14, <1>15, <1>16, <1>17, <1>18, <1>19, <1>20, <1>21, <1>22, <1>23
  DEF ConnNext, Proceed, Breaks

\* What a call brings is active until it is in the table.
LEMMA BroughtStep ==
  ASSUME CInv, CInv', VInv, NobodyElses, BroughtIsActive, [ConnNext]_allVars
  PROVE  BroughtIsActive'
<1>a. (\/ Rotation \/ Rebuild \/ CallFails \/ UNCHANGED vaultVars) =>
        ActiveSecrets' = ActiveSecrets /\ HeldBy' = HeldBy
  BY ActiveAfterOthers
<1> HIDE DEF ActiveSecrets, HeldBy
<1> USE <1>a, ConnectionsAssumption DEF CInv, ConnTypeOK, CallsFit, NobodyElses, Brings, BroughtIsActive
<1>1. ASSUME NEW k \in Callers, NEW c \in Conns, NEW f \in Fields, NEW b \in BOOLEAN, Create(k, c, f, b) PROVE BroughtIsActive'
  BY <1>1 DEF Create, Idle
<1>2. ASSUME NEW k \in Callers, NEW c \in Conns, NEW f \in Fields, NEW b \in BOOLEAN, Update(k, c, f, b) PROVE BroughtIsActive'
  BY <1>2 DEF Update, FirstStep, Idle
<1>3. ASSUME NEW k \in Callers, NEW c \in Conns, Delete(k, c) PROVE BroughtIsActive'
  BY <1>3 DEF Delete, Idle
<1>4. ASSUME NEW k \in Callers, NEW c \in Conns, Test(k, c) PROVE BroughtIsActive'
  BY <1>4 DEF Test, Idle
<1>5. ASSUME NEW k \in Callers, Seal(k) PROVE BroughtIsActive'
  <2>1. PICK s \in Secrets :
          /\ Put(s, calls[k].id) /\ calls[k].id \in Conns
          /\ calls' = [calls EXCEPT ![k].secret = s,
                         ![k].at = IF calls[k].seen = None THEN "insert" ELSE "write"]
    BY <1>5 DEF Seal
  <2>2. ActiveSecrets' = ActiveSecrets \union {s} BY <2>1, ActiveAfterPut
  <2>3. /\ calls'[k].secret = s
        /\ \A j \in Callers : j # k => calls'[j] = calls[j]
    BY <2>1 DEF Call
  <2> QED BY <2>2, <2>3
<1>6. ASSUME NEW k \in Callers, SealFails(k) PROVE BroughtIsActive'
  BY <1>6 DEF SealFails, GivesUp, Return, Idle
<1>7. ASSUME NEW k \in Callers, Insert(k) PROVE BroughtIsActive'
  BY <1>7 DEF Insert, Inserted, ThenTest, Idle
<1>8. ASSUME NEW k \in Callers, InsertFails(k) PROVE BroughtIsActive'
  BY <1>8 DEF InsertFails, GivesUp, Return, Idle
<1>9. ASSUME NEW k \in Callers, RetireOld(k) PROVE BroughtIsActive'
  <2>1. PICK s \in Secrets : Retire(s) /\ s = calls[k].seen.secret BY <1>9 DEF RetireOld
  <2>2. ActiveSecrets' = ActiveSecrets \ {s} BY <2>1, ActiveAfterRetire
  <2>3. calls' = [calls EXCEPT ![k].at = "seal"] /\ calls[k].seen # None
    BY <1>9 DEF RetireOld, Goto
  <2> QED BY <2>1, <2>2, <2>3
<1>10. ASSUME NEW k \in Callers, SkipRetireOld(k) PROVE BroughtIsActive'
  BY <1>10 DEF SkipRetireOld, Ignored, Goto
<1>11. ASSUME NEW k \in Callers, Write(k) PROVE BroughtIsActive'
  BY <1>11 DEF Write, Updated, StatusReset, With, ThenTest, Idle
<1>12. ASSUME NEW k \in Callers, WriteFails(k) PROVE BroughtIsActive'
  BY <1>12 DEF WriteFails, GivesUp, Return, Idle
<1>13. ASSUME NEW k \in Callers, RetireDeleted(k) PROVE BroughtIsActive'
  <2>1. PICK s \in Secrets : Retire(s) /\ s = calls[k].seen.secret BY <1>13 DEF RetireDeleted
  <2>2. ActiveSecrets' = ActiveSecrets \ {s} BY <2>1, ActiveAfterRetire
  <2>3. calls' = [calls EXCEPT ![k] = Idle] /\ calls[k].seen # None
    BY <1>13 DEF RetireDeleted, Return
  <2> QED BY <2>1, <2>2, <2>3 DEF Idle
<1>14. ASSUME NEW k \in Callers, SkipRetire(k) PROVE BroughtIsActive'
  BY <1>14 DEF SkipRetire, Ignored, Return, Idle
<1>15. ASSUME NEW k \in Callers, Load(k) PROVE BroughtIsActive'
  BY <1>15 DEF Load, Idle
<1>16. ASSUME NEW k \in Callers, Open(k) PROVE BroughtIsActive'
  BY <1>16 DEF Open, Granted
<1>17. ASSUME NEW k \in Callers, NEW st \in Reports(k), Judge(k, st) PROVE BroughtIsActive'
  BY <1>17 DEF Judge, Reports, Return, Idle
<1>18. ASSUME NEW k \in Callers, JudgeFails(k) PROVE BroughtIsActive'
  BY <1>18 DEF JudgeFails, Return, Idle
<1>19. ASSUME NEW k \in Callers, HangUp(k) PROVE BroughtIsActive'
  BY <1>19 DEF HangUp, Return, GivesUp, Idle
<1>20. CASE Rotation /\ UNCHANGED connVars BY <1>20 DEF connVars
<1>21. CASE Restart BY <1>21 DEF Restart, Idle
<1>22. CASE UNCHANGED allVars BY <1>22 DEF allVars, connVars, vaultVars
<1>23. ASSUME NEW k \in Callers, Begin(k) PROVE BroughtIsActive'
  <2>1. \A c \in Conns : conn[c] # None => conn[c].fields \in Fields BY DEF ConnTypeOK, ConnRow
  <2> HIDE DEF CInv, ConnTypeOK, CallsFit, BroughtIsActive, NobodyElses, Brings
  <2> QED BY <1>23, <2>1, <1>1, <1>2, <1>3, <1>4 DEF Begin
<1> QED
  BY ONLY [ConnNext]_allVars, <1>5, <1>6, <1>7, <1>8, <1>9, <1>10, <1>11, <1>12, <1>13, <1>14, <1>15, <1>16, <1>17, <1>18, <1>19, <1>20, <1>21, <1>22, <1>23
  DEF ConnNext, Proceed, Breaks
\* Where the vault and the table may differ while calls are under way, for a
\* connection none of whose calls went wrong.
Updating(k) == calls[k].at \in {"retire_old", "seal", "write"} /\ calls[k].seen # None
Replacing(k) ==
  /\ calls[k].seen # None
  /\ calls[k].at = "seal" \/ (calls[k].at = "write" /\ Brings(k))

HeldIsAccounted(c) ==
  \A s \in HeldBy[c] :
    \/ conn[c] # None /\ s = conn[c].secret
    \/ \E k \in Callers : /\ calls[k].id = c
                          /\ \/ Brings(k) /\ s = calls[k].secret
                             \/ calls[k].at = "retire" /\ s = calls[k].seen.secret
NamedIsActive(c) ==
  conn[c] # None /\ conn[c].secret # None =>
    \/ conn[c].secret \in ActiveSecrets
    \/ \E k \in Callers : calls[k].id = c /\ Replacing(k)
UpdatesFit(c) ==
  \A k \in Callers : calls[k].id = c =>
    /\ Updating(k) /\ conn[c] # None => calls[k].seen.secret = conn[c].secret
    /\ Replacing(k) => calls[k].seen.secret \notin HeldBy[c]
    /\ calls[k].at = "retire" => conn[c] = None

Accounted == \A c \in Conns \ crossed : HeldIsAccounted(c) /\ NamedIsActive(c) /\ UpdatesFit(c)

\* The vault and the table agree but for the calls under way.
LEMMA AccountedStep ==
  ASSUME CInv, CInv', VInv, OwnSecret, CreatedOnce, NobodyElses, BroughtIsActive, Accounted, [ConnNext]_allVars
  PROVE  Accounted'
<1>a. (\/ Rotation \/ Rebuild \/ CallFails \/ UNCHANGED vaultVars) =>
        ActiveSecrets' = ActiveSecrets /\ HeldBy' = HeldBy
  BY ActiveAfterOthers
<1> HIDE DEF ActiveSecrets, HeldBy
<1> USE <1>a, ConnectionsAssumption DEF CInv, ConnTypeOK, CallsFit, Accounted, HeldIsAccounted, NamedIsActive, UpdatesFit, Updating, Replacing, Brings
<1>1. ASSUME NEW k \in Callers, NEW c \in Conns, NEW f \in Fields, NEW b \in BOOLEAN, Create(k, c, f, b) PROVE Accounted'
  BY <1>1 DEF Create, Idle
<1>2. ASSUME NEW k \in Callers, NEW c \in Conns, NEW f \in Fields, NEW b \in BOOLEAN, Update(k, c, f, b) PROVE Accounted'
  <2> SUFFICES ASSUME NEW d \in Conns \ crossed'
               PROVE  (HeldIsAccounted(d) /\ NamedIsActive(d) /\ UpdatesFit(d))'
    BY DEF Accounted
  <2>1. d \notin crossed
    BY <1>2 DEF Update
  <2>2. HeldIsAccounted(d) /\ NamedIsActive(d) /\ UpdatesFit(d)
    BY <2>1 DEF Accounted
  <2>3. UNCHANGED <<conn, ActiveSecrets, HeldBy>> /\ conn[c] # None
    BY <1>2, <1>a DEF Update
  <2>4. calls[k].at = "idle"
    BY <1>2 DEF Update, Idle
  <2>5. \A j \in Callers : j # k => calls'[j] = calls[j]
    BY <1>2 DEF Update
  <2>6. /\ calls'[k].id = c /\ calls'[k].seen = conn[c]
        /\ \/ calls'[k].at = "seal" /\ conn[c].secret = None
           \/ calls'[k].at = "retire_old"
           \/ calls'[k].at = "write" /\ calls'[k].secret = conn[c].secret
    BY <1>2 DEF Update, FirstStep, Idle
  <2>7. None \notin HeldBy[d]
    BY VaultAssumption DEF HeldBy, Held
  <2> HIDE DEF CInv, ConnTypeOK, CallsFit, Accounted
  <2>8. HeldIsAccounted(d)'
    BY ONLY <2>1, <2>2, <2>3, <2>4, <2>5, <2>6, <2>7, d \in Conns, k \in Callers DEF HeldIsAccounted, NamedIsActive, UpdatesFit, Updating, Replacing, Brings
  <2>9. NamedIsActive(d)'
    BY ONLY <2>1, <2>2, <2>3, <2>4, <2>5, <2>6, <2>7, d \in Conns, k \in Callers DEF HeldIsAccounted, NamedIsActive, UpdatesFit, Updating, Replacing, Brings
  <2>10. UpdatesFit(d)'
    BY ONLY <2>1, <2>2, <2>3, <2>4, <2>5, <2>6, <2>7, d \in Conns, k \in Callers DEF HeldIsAccounted, NamedIsActive, UpdatesFit, Updating, Replacing, Brings
  <2> QED BY <2>8, <2>9, <2>10
<1>3. ASSUME NEW k \in Callers, NEW c \in Conns, Delete(k, c) PROVE Accounted'
  <2> SUFFICES ASSUME NEW d \in Conns \ crossed'
               PROVE  (HeldIsAccounted(d) /\ NamedIsActive(d) /\ UpdatesFit(d))'
    BY DEF Accounted
  <2>1. d \notin crossed
    BY <1>3 DEF Delete
  <2>2. HeldIsAccounted(d) /\ NamedIsActive(d) /\ UpdatesFit(d)
    BY <2>1 DEF Accounted
  <2>3. UNCHANGED <<ActiveSecrets, HeldBy>>
    BY <1>3, <1>a DEF Delete
  <2>4. conn' = [conn EXCEPT ![c] = None] /\ conn[c] # None /\ conn \in [Conns -> ConnRow \union {None}]
        /\ c \in Conns
    BY <1>3 DEF Delete
  <2>5. calls[k].at = "idle"
    BY <1>3 DEF Delete, Idle
  <2>6. \A j \in Callers : j # k => calls'[j] = calls[j]
    BY <1>3 DEF Delete
  <2>7. \/ conn[c].secret = None /\ calls'[k].at = "idle"
        \/ calls'[k].at = "retire" /\ calls'[k].id = c /\ calls'[k].seen = conn[c]
    BY <1>3 DEF Delete, Idle
  <2>8. None \notin HeldBy[d]
    BY VaultAssumption DEF HeldBy, Held
  <2> HIDE DEF CInv, ConnTypeOK, CallsFit, Accounted
  <2>9. HeldIsAccounted(d)'
    BY ONLY <2>1, <2>2, <2>3, <2>4, <2>5, <2>6, <2>7, <2>8, d \in Conns, k \in Callers DEF HeldIsAccounted, NamedIsActive, UpdatesFit, Updating, Replacing, Brings
  <2>10. NamedIsActive(d)'
    BY ONLY <2>1, <2>2, <2>3, <2>4, <2>5, <2>6, <2>7, <2>8, d \in Conns, k \in Callers DEF HeldIsAccounted, NamedIsActive, UpdatesFit, Updating, Replacing, Brings
  <2>11. UpdatesFit(d)'
    BY ONLY <2>1, <2>2, <2>3, <2>4, <2>5, <2>6, <2>7, <2>8, d \in Conns, k \in Callers DEF HeldIsAccounted, NamedIsActive, UpdatesFit, Updating, Replacing, Brings
  <2> QED BY <2>9, <2>10, <2>11
<1>4. ASSUME NEW k \in Callers, NEW c \in Conns, Test(k, c) PROVE Accounted'
  BY <1>4 DEF Test, Idle
<1>5. ASSUME NEW k \in Callers, Seal(k) PROVE Accounted'
  <2> SUFFICES ASSUME NEW d \in Conns \ crossed'
               PROVE  (HeldIsAccounted(d) /\ NamedIsActive(d) /\ UpdatesFit(d))'
    BY DEF Accounted
  <2>1. d \notin crossed
    BY <1>5 DEF Seal
  <2>2. HeldIsAccounted(d) /\ NamedIsActive(d) /\ UpdatesFit(d)
    BY <2>1 DEF Accounted
  <2>3. PICK s \in Secrets, p \in Conns :
        /\ p = calls[k].id /\ Put(s, p)
        /\ calls' = [calls EXCEPT ![k].secret = s,
                       ![k].at = IF calls[k].seen = None THEN "insert" ELSE "write"]
    BY <1>5, ZenonT(30) DEF Seal, Put
  <2>4. calls[k].id \in Conns /\ calls[k].at = "seal" /\ UNCHANGED conn
    BY <1>5 DEF Seal
  <2>5. /\ ActiveSecrets' = ActiveSecrets \union {s}
        /\ \A e \in Conns :
             HeldBy'[e] = IF e = calls[k].id THEN HeldBy[e] \union {s} ELSE HeldBy[e]
    BY ONLY VInv, <2>3, ConnectionsAssumption, ActiveAfterPut
  <2>6. \A j \in Callers : calls[j].seen # None => calls[j].seen.secret # s
    <3>1. sealed[s] = None BY <2>3 DEF Put
    <3> QED BY <3>1, VaultAssumption DEF OwnSecret, OfConn
  <2>7. /\ calls'[k].secret = s /\ calls'[k].seen = calls[k].seen /\ calls'[k].id = calls[k].id
        /\ calls'[k].at = IF calls[k].seen = None THEN "insert" ELSE "write"
        /\ \A j \in Callers : j # k => calls'[j] = calls[j]
    BY <2>3 DEF Call
  <2>8. s # None /\ s \in ActiveSecrets'
    BY VaultAssumption, <2>5
  <2> HIDE DEF CInv, ConnTypeOK, CallsFit, Accounted
  <2>a. \A x \in HeldBy'[d] : x \in HeldBy[d] \/ (x = s /\ d = calls[k].id)
    BY <2>5
  <2>9. HeldIsAccounted(d)'
    <3>1. ASSUME NEW x \in HeldBy[d]
          PROVE  \/ conn'[d] # None /\ x = conn'[d].secret
                 \/ \E j \in Callers : /\ calls'[j].id = d
                                       /\ \/ Brings(j)' /\ x = calls'[j].secret
                                          \/ calls'[j].at = "retire" /\ x = calls'[j].seen.secret
      BY ONLY <2>2, <2>4, <2>7, <3>1, k \in Callers DEF HeldIsAccounted, Brings
    <3>2. Brings(k)' BY ONLY <2>6, <2>7, <2>8, k \in Callers DEF Brings
    <3> QED BY ONLY <2>a, <2>7, <3>1, <3>2, k \in Callers DEF HeldIsAccounted
  <2>10. NamedIsActive(d)'
    BY ONLY <2>2, <2>4, <2>5, <2>6, <2>7, <2>8, d \in Conns, k \in Callers DEF HeldIsAccounted, NamedIsActive, UpdatesFit, Updating, Replacing, Brings
  <2>11. UpdatesFit(d)'
    <3>1. ASSUME NEW j \in Callers, calls'[j].id = d
          PROVE  /\ Updating(j)' /\ conn'[d] # None => calls'[j].seen.secret = conn'[d].secret
                 /\ Replacing(j)' => calls'[j].seen.secret \notin HeldBy'[d]
                 /\ calls'[j].at = "retire" => conn'[d] = None
      <4>1. CASE j = k
        <5>1. calls[k].id = d /\ Updating(k)' => Updating(k) BY ONLY <2>4, <2>7, <3>1, <4>1 DEF Updating
        <5>2. Replacing(k)' => Replacing(k) /\ calls'[k].seen.secret \notin HeldBy[d]
          BY ONLY <2>2, <2>4, <2>7, <3>1, <4>1, k \in Callers DEF UpdatesFit, Replacing
        <5>3. Replacing(k)' => calls'[k].seen.secret # s
          BY ONLY <2>6, <2>7, k \in Callers DEF Replacing
        <5> QED
          BY ONLY <2>2, <2>4, <2>7, <2>a, <3>1, <4>1, <5>1, <5>2, <5>3, k \in Callers
          DEF UpdatesFit, Updating
      <4>2. CASE j # k
        <5>1. calls'[j] = calls[j] BY ONLY <2>7, <4>2, j \in Callers
        <5>2. calls[j].seen # None => calls[j].seen.secret # s BY <2>6
        <5> QED
          BY ONLY <2>2, <2>4, <2>a, <3>1, <5>1, <5>2, j \in Callers
          DEF UpdatesFit, Updating, Replacing, Brings
      <4> QED BY <4>1, <4>2
    <3> QED BY ONLY <3>1 DEF UpdatesFit
  <2> QED BY <2>9, <2>10, <2>11
<1>6. ASSUME NEW k \in Callers, SealFails(k) PROVE Accounted'
  BY <1>6 DEF SealFails, GivesUp, Return, Idle
<1>7. ASSUME NEW k \in Callers, Insert(k) PROVE Accounted'
  <2> SUFFICES ASSUME NEW d \in Conns \ crossed'
               PROVE  (HeldIsAccounted(d) /\ NamedIsActive(d) /\ UpdatesFit(d))'
    BY DEF Accounted
  <2>1. d \notin crossed
    BY <1>7 DEF Insert, ThenTest
  <2>2. HeldIsAccounted(d) /\ NamedIsActive(d) /\ UpdatesFit(d)
    BY <2>1 DEF Accounted
  <2>3. calls[k].id \in Conns /\ calls[k].at = "insert" /\ calls[k].seen = None
    BY <1>7 DEF Insert, CreatedOnce
  <2>4. /\ conn[calls[k].id] = None
        /\ \A j \in Callers : calls[j].id = calls[k].id => j = k
    BY <2>3 DEF CreatedOnce, Creating
  <2>5. UNCHANGED <<ActiveSecrets, HeldBy>>
    BY <1>7, <1>a DEF Insert
  <2>6. /\ conn' = [conn EXCEPT ![calls[k].id] = Inserted(k)] /\ Inserted(k).secret = calls[k].secret
        /\ Inserted(k) # None /\ conn \in [Conns -> ConnRow \union {None}]
    <3>1. Inserted(k) \in ConnRow BY <2>3 DEF Inserted, ConnRow, Call
    <3> QED BY <1>7, <3>1 DEF Insert, Inserted
  <2>7. (\A j \in Callers : j # k => calls'[j] = calls[j]) /\ calls'[k].at = "test"
    BY <1>7 DEF Insert, ThenTest, Idle
  <2>8. calls[k].secret # None => calls[k].secret \in ActiveSecrets
    BY <2>3 DEF BroughtIsActive, Brings
  <2> HIDE DEF CInv, ConnTypeOK, CallsFit, Accounted
  <2>9. HeldIsAccounted(d)'
    BY ONLY <2>1, <2>2, <2>3, <2>4, <2>5, <2>6, <2>7, <2>8, d \in Conns, k \in Callers DEF HeldIsAccounted, NamedIsActive, UpdatesFit, Updating, Replacing, Brings
  <2>10. NamedIsActive(d)'
    BY ONLY <2>1, <2>2, <2>3, <2>4, <2>5, <2>6, <2>7, <2>8, d \in Conns, k \in Callers DEF HeldIsAccounted, NamedIsActive, UpdatesFit, Updating, Replacing, Brings
  <2>11. UpdatesFit(d)'
    BY ONLY <2>1, <2>2, <2>3, <2>4, <2>5, <2>6, <2>7, <2>8, d \in Conns, k \in Callers DEF HeldIsAccounted, NamedIsActive, UpdatesFit, Updating, Replacing, Brings
  <2> QED BY <2>9, <2>10, <2>11
<1>8. ASSUME NEW k \in Callers, InsertFails(k) PROVE Accounted'
  BY <1>8 DEF InsertFails, GivesUp, Return, Idle
<1>9. ASSUME NEW k \in Callers, RetireOld(k) PROVE Accounted'
  <2> SUFFICES ASSUME NEW d \in Conns \ crossed'
               PROVE  (HeldIsAccounted(d) /\ NamedIsActive(d) /\ UpdatesFit(d))'
    BY DEF Accounted
  <2>1. d \notin crossed
    BY <1>9 DEF RetireOld
  <2>2. HeldIsAccounted(d) /\ NamedIsActive(d) /\ UpdatesFit(d)
    BY <2>1 DEF Accounted
  <2>3. PICK s \in Secrets : Retire(s) /\ s = calls[k].seen.secret
    BY <1>9 DEF RetireOld
  <2>4. calls[k].id \in Conns /\ calls[k].at = "retire_old" /\ UNCHANGED conn /\ calls[k].seen # None
    BY <1>9 DEF RetireOld
  <2>5. ActiveSecrets' = ActiveSecrets \ {s} /\ \A e \in Conns : HeldBy'[e] = HeldBy[e] \ {s}
    BY <2>3, ActiveAfterRetire
  <2>6. \A e \in Conns : conn[e] # None /\ conn[e].secret = s => e = calls[k].id
    BY <2>3, <2>4, VaultAssumption DEF OwnSecret, OfConn
  <2>7. /\ calls'[k].secret = calls[k].secret /\ calls'[k].seen = calls[k].seen /\ calls'[k].id = calls[k].id
        /\ calls'[k].at = "seal"
        /\ \A j \in Callers : j # k => calls'[j] = calls[j]
    BY <1>9 DEF RetireOld, Goto, Call
  <2> HIDE DEF CInv, ConnTypeOK, CallsFit, Accounted
  <2>8. HeldIsAccounted(d)'
    BY ONLY <2>1, <2>2, <2>3, <2>4, <2>5, <2>6, <2>7, d \in Conns, k \in Callers DEF HeldIsAccounted, NamedIsActive, UpdatesFit, Updating, Replacing, Brings
  <2>9. NamedIsActive(d)'
    BY ONLY <2>1, <2>2, <2>3, <2>4, <2>5, <2>6, <2>7, d \in Conns, k \in Callers DEF HeldIsAccounted, NamedIsActive, UpdatesFit, Updating, Replacing, Brings
  <2>10. UpdatesFit(d)'
    BY ONLY <2>1, <2>2, <2>3, <2>4, <2>5, <2>6, <2>7, d \in Conns, k \in Callers DEF HeldIsAccounted, NamedIsActive, UpdatesFit, Updating, Replacing, Brings
  <2> QED BY <2>8, <2>9, <2>10
<1>10. ASSUME NEW k \in Callers, SkipRetireOld(k) PROVE Accounted'
  <2> SUFFICES ASSUME NEW d \in Conns \ crossed'
               PROVE  (HeldIsAccounted(d) /\ NamedIsActive(d) /\ UpdatesFit(d))'
    BY DEF Accounted
  <2>1. d \notin crossed
    BY <1>10 DEF SkipRetireOld, Ignored
  <2>2. HeldIsAccounted(d) /\ NamedIsActive(d) /\ UpdatesFit(d)
    BY <2>1 DEF Accounted
  <2>3. calls[k].id \in Conns /\ calls[k].at = "retire_old" /\ UNCHANGED conn /\ calls[k].seen # None
    BY <1>10 DEF SkipRetireOld
  <2>4. UNCHANGED <<ActiveSecrets, HeldBy>>
    BY <1>10, <1>a DEF SkipRetireOld, Ignored
  <2>5. d = calls[k].id => calls[k].seen.secret \notin HeldBy[d]
    BY <1>10 DEF SkipRetireOld, Ignored, HeldBy, Held
  <2>6. /\ calls'[k].secret = calls[k].secret /\ calls'[k].seen = calls[k].seen /\ calls'[k].id = calls[k].id
        /\ calls'[k].at = "seal"
        /\ \A j \in Callers : j # k => calls'[j] = calls[j]
    BY <1>10 DEF SkipRetireOld, Goto, Call
  <2> HIDE DEF CInv, ConnTypeOK, CallsFit, Accounted
  <2>7. HeldIsAccounted(d)'
    BY ONLY <2>1, <2>2, <2>3, <2>4, <2>5, <2>6, d \in Conns, k \in Callers DEF HeldIsAccounted, NamedIsActive, UpdatesFit, Updating, Replacing, Brings
  <2>8. NamedIsActive(d)'
    BY ONLY <2>1, <2>2, <2>3, <2>4, <2>5, <2>6, d \in Conns, k \in Callers DEF HeldIsAccounted, NamedIsActive, UpdatesFit, Updating, Replacing, Brings
  <2>9. UpdatesFit(d)'
    BY ONLY <2>1, <2>2, <2>3, <2>4, <2>5, <2>6, d \in Conns, k \in Callers DEF HeldIsAccounted, NamedIsActive, UpdatesFit, Updating, Replacing, Brings
  <2> QED BY <2>7, <2>8, <2>9
<1>11. ASSUME NEW k \in Callers, Write(k) PROVE Accounted'
  <2> SUFFICES ASSUME NEW d \in Conns \ crossed'
               PROVE  (HeldIsAccounted(d) /\ NamedIsActive(d) /\ UpdatesFit(d))'
    BY DEF Accounted
  <2>1. d \notin crossed
    BY <1>11 DEF Write, With
  <2>2. HeldIsAccounted(d) /\ NamedIsActive(d) /\ UpdatesFit(d)
    BY <2>1 DEF Accounted
  <2>3. calls[k].id \in Conns /\ calls[k].at = "write" /\ calls[k].seen # None
    BY <1>11 DEF Write
  <2>4. conn[calls[k].id] # None
    BY <1>11 DEF Write
  <2>5. UNCHANGED <<ActiveSecrets, HeldBy>>
    BY <1>11, <1>a DEF Write
  <2>6. /\ conn' = [conn EXCEPT ![calls[k].id] = Updated(k)] /\ Updated(k).secret = calls[k].secret
        /\ Updated(k) # None /\ conn \in [Conns -> ConnRow \union {None}]
    <3>1. Updated(k) \in ConnRow BY <2>3 DEF Updated, StatusReset, ConnRow, Call
    <3> QED BY <1>11, <3>1 DEF Write, Updated
  <2>7. (\A j \in Callers : j # k => calls'[j] = calls[j]) /\ calls'[k].at = "test"
    BY <1>11 DEF Write, ThenTest, Idle
  <2>8. Brings(k) => calls[k].secret \in ActiveSecrets
    BY DEF BroughtIsActive
  <2>9. d = calls[k].id => \A j \in Callers : calls[j].id = d /\ j # k =>
          calls[j].at \notin {"retire_old", "seal", "write"}
    BY <1>11 DEF Write, With, Others
  <2>10. \A j \in Callers : calls[j].at = "insert" => conn[calls[j].id] = None
    BY DEF CreatedOnce, Creating
  <2>11. calls[k].secret = None => calls[k].seen.secret = None
    BY <2>3
  <2>12. None \notin HeldBy[d]
    BY VaultAssumption DEF HeldBy, Held
  <2> HIDE DEF CInv, ConnTypeOK, CallsFit, Accounted
  <2>13. HeldIsAccounted(d)'
    BY ONLY <2>1, <2>2, <2>3, <2>4, <2>5, <2>6, <2>7, <2>8, <2>9, <2>10, <2>11, <2>12, d \in Conns, k \in Callers DEF HeldIsAccounted, NamedIsActive, UpdatesFit, Updating, Replacing, Brings
  <2>14. NamedIsActive(d)'
    BY ONLY <2>1, <2>2, <2>3, <2>4, <2>5, <2>6, <2>7, <2>8, <2>9, <2>10, <2>11, <2>12, d \in Conns, k \in Callers DEF HeldIsAccounted, NamedIsActive, UpdatesFit, Updating, Replacing, Brings
  <2>15. UpdatesFit(d)'
    BY ONLY <2>1, <2>2, <2>3, <2>4, <2>5, <2>6, <2>7, <2>8, <2>9, <2>10, <2>11, <2>12, d \in Conns, k \in Callers DEF HeldIsAccounted, NamedIsActive, UpdatesFit, Updating, Replacing, Brings
  <2> QED BY <2>13, <2>14, <2>15
<1>12. ASSUME NEW k \in Callers, WriteFails(k) PROVE Accounted'
  BY <1>12 DEF WriteFails, GivesUp, Return, Idle
<1>13. ASSUME NEW k \in Callers, RetireDeleted(k) PROVE Accounted'
  <2> SUFFICES ASSUME NEW d \in Conns \ crossed'
               PROVE  (HeldIsAccounted(d) /\ NamedIsActive(d) /\ UpdatesFit(d))'
    BY DEF Accounted
  <2>1. d \notin crossed
    BY <1>13 DEF RetireDeleted
  <2>2. HeldIsAccounted(d) /\ NamedIsActive(d) /\ UpdatesFit(d)
    BY <2>1 DEF Accounted
  <2>3. PICK s \in Secrets : Retire(s) /\ s = calls[k].seen.secret
    BY <1>13 DEF RetireDeleted
  <2>4. calls[k].id \in Conns /\ calls[k].at = "retire" /\ UNCHANGED conn /\ calls[k].seen # None
    BY <1>13 DEF RetireDeleted
  <2>5. ActiveSecrets' = ActiveSecrets \ {s} /\ \A e \in Conns : HeldBy'[e] = HeldBy[e] \ {s}
    BY <2>3, ActiveAfterRetire
  <2>6. \A e \in Conns : conn[e] # None /\ conn[e].secret = s => e = calls[k].id
    BY <2>3, <2>4, VaultAssumption DEF OwnSecret, OfConn
  <2>7. (\A j \in Callers : j # k => calls'[j] = calls[j]) /\ calls'[k].at = "idle"
    BY <1>13 DEF RetireDeleted, Return, Idle
  <2> HIDE DEF CInv, ConnTypeOK, CallsFit, Accounted
  <2>8. HeldIsAccounted(d)'
    BY ONLY <2>1, <2>2, <2>3, <2>4, <2>5, <2>6, <2>7, d \in Conns, k \in Callers DEF HeldIsAccounted, NamedIsActive, UpdatesFit, Updating, Replacing, Brings
  <2>9. NamedIsActive(d)'
    BY ONLY <2>1, <2>2, <2>3, <2>4, <2>5, <2>6, <2>7, d \in Conns, k \in Callers DEF HeldIsAccounted, NamedIsActive, UpdatesFit, Updating, Replacing, Brings
  <2>10. UpdatesFit(d)'
    BY ONLY <2>1, <2>2, <2>3, <2>4, <2>5, <2>6, <2>7, d \in Conns, k \in Callers DEF HeldIsAccounted, NamedIsActive, UpdatesFit, Updating, Replacing, Brings
  <2> QED BY <2>8, <2>9, <2>10
<1>14. ASSUME NEW k \in Callers, SkipRetire(k) PROVE Accounted'
  <2> SUFFICES ASSUME NEW d \in Conns \ crossed'
               PROVE  (HeldIsAccounted(d) /\ NamedIsActive(d) /\ UpdatesFit(d))'
    BY DEF Accounted
  <2>1. d \notin crossed
    BY <1>14 DEF SkipRetire, Ignored
  <2>2. HeldIsAccounted(d) /\ NamedIsActive(d) /\ UpdatesFit(d)
    BY <2>1 DEF Accounted
  <2>3. calls[k].at = "retire" /\ UNCHANGED conn
    BY <1>14 DEF SkipRetire
  <2>4. UNCHANGED <<ActiveSecrets, HeldBy>>
    BY <1>14, <1>a DEF SkipRetire, Ignored
  <2>5. d = calls[k].id => calls[k].seen.secret \notin HeldBy[d]
    BY <1>14 DEF SkipRetire, Ignored, HeldBy, Held
  <2>6. (\A j \in Callers : j # k => calls'[j] = calls[j]) /\ calls'[k].at = "idle"
    BY <1>14 DEF SkipRetire, Return, Idle
  <2> HIDE DEF CInv, ConnTypeOK, CallsFit, Accounted
  <2>7. HeldIsAccounted(d)'
    BY ONLY <2>1, <2>2, <2>3, <2>4, <2>5, <2>6, d \in Conns, k \in Callers DEF HeldIsAccounted, NamedIsActive, UpdatesFit, Updating, Replacing, Brings
  <2>8. NamedIsActive(d)'
    BY ONLY <2>1, <2>2, <2>3, <2>4, <2>5, <2>6, d \in Conns, k \in Callers DEF HeldIsAccounted, NamedIsActive, UpdatesFit, Updating, Replacing, Brings
  <2>9. UpdatesFit(d)'
    BY ONLY <2>1, <2>2, <2>3, <2>4, <2>5, <2>6, d \in Conns, k \in Callers DEF HeldIsAccounted, NamedIsActive, UpdatesFit, Updating, Replacing, Brings
  <2> QED BY <2>7, <2>8, <2>9
<1>15. ASSUME NEW k \in Callers, Load(k) PROVE Accounted'
  <2> SUFFICES ASSUME NEW d \in Conns \ crossed'
               PROVE  (HeldIsAccounted(d) /\ NamedIsActive(d) /\ UpdatesFit(d))'
    BY DEF Accounted
  <2>1. d \notin crossed
    BY <1>15 DEF Load
  <2>2. HeldIsAccounted(d) /\ NamedIsActive(d) /\ UpdatesFit(d)
    BY <2>1 DEF Accounted
  <2>3. calls[k].at = "test" /\ UNCHANGED conn
    BY <1>15 DEF Load
  <2>4. UNCHANGED <<ActiveSecrets, HeldBy>>
    BY <1>15, <1>a DEF Load
  <2>5. (\A j \in Callers : j # k => calls'[j] = calls[j]) /\ calls'[k].at \in {"idle", "judge", "open"}
    BY <1>15 DEF Load, Idle
  <2> HIDE DEF CInv, ConnTypeOK, CallsFit, Accounted
  <2>6. HeldIsAccounted(d)'
    BY ONLY <2>1, <2>2, <2>3, <2>4, <2>5, d \in Conns, k \in Callers DEF HeldIsAccounted, NamedIsActive, UpdatesFit, Updating, Replacing, Brings
  <2>7. NamedIsActive(d)'
    BY ONLY <2>1, <2>2, <2>3, <2>4, <2>5, d \in Conns, k \in Callers DEF HeldIsAccounted, NamedIsActive, UpdatesFit, Updating, Replacing, Brings
  <2>8. UpdatesFit(d)'
    BY ONLY <2>1, <2>2, <2>3, <2>4, <2>5, d \in Conns, k \in Callers DEF HeldIsAccounted, NamedIsActive, UpdatesFit, Updating, Replacing, Brings
  <2> QED BY <2>6, <2>7, <2>8
<1>16. ASSUME NEW k \in Callers, Open(k) PROVE Accounted'
  <2> SUFFICES ASSUME NEW d \in Conns \ crossed'
               PROVE  (HeldIsAccounted(d) /\ NamedIsActive(d) /\ UpdatesFit(d))'
    BY DEF Accounted
  <2>1. d \notin crossed
    BY <1>16 DEF Open
  <2>2. HeldIsAccounted(d) /\ NamedIsActive(d) /\ UpdatesFit(d)
    BY <2>1 DEF Accounted
  <2>3. calls[k].at = "open" /\ UNCHANGED conn
    BY <1>16 DEF Open
  <2>4. UNCHANGED <<ActiveSecrets, HeldBy>>
    BY <1>16, <1>a DEF Open
  <2>5. (\A j \in Callers : j # k => calls'[j] = calls[j]) /\ calls'[k].at = "judge"
    BY <1>16 DEF Open
  <2> HIDE DEF CInv, ConnTypeOK, CallsFit, Accounted
  <2>6. HeldIsAccounted(d)'
    BY ONLY <2>1, <2>2, <2>3, <2>4, <2>5, d \in Conns, k \in Callers DEF HeldIsAccounted, NamedIsActive, UpdatesFit, Updating, Replacing, Brings
  <2>7. NamedIsActive(d)'
    BY ONLY <2>1, <2>2, <2>3, <2>4, <2>5, d \in Conns, k \in Callers DEF HeldIsAccounted, NamedIsActive, UpdatesFit, Updating, Replacing, Brings
  <2>8. UpdatesFit(d)'
    BY ONLY <2>1, <2>2, <2>3, <2>4, <2>5, d \in Conns, k \in Callers DEF HeldIsAccounted, NamedIsActive, UpdatesFit, Updating, Replacing, Brings
  <2> QED BY <2>6, <2>7, <2>8
<1>17. ASSUME NEW k \in Callers, NEW st \in Reports(k), Judge(k, st) PROVE Accounted'
  <2> SUFFICES ASSUME NEW d \in Conns \ crossed'
               PROVE  (HeldIsAccounted(d) /\ NamedIsActive(d) /\ UpdatesFit(d))'
    BY DEF Accounted
  <2>1. d \notin crossed
    BY <1>17 DEF Judge
  <2>2. HeldIsAccounted(d) /\ NamedIsActive(d) /\ UpdatesFit(d)
    BY <2>1 DEF Accounted
  <2>3. calls[k].at = "judge" /\ calls[k].id \in Conns
    BY <1>17 DEF Judge
  <2>4. UNCHANGED <<ActiveSecrets, HeldBy>>
    BY <1>17, <1>a DEF Judge
  <2>5. (\A j \in Callers : j # k => calls'[j] = calls[j]) /\ calls'[k].at = "idle"
    BY <1>17 DEF Judge, Return, Idle
  <2>6. (conn'[d] # None) = (conn[d] # None) /\ (conn[d] # None => conn'[d].secret = conn[d].secret)
    <3>1. CASE conn' = conn BY <3>1
    <3>2. CASE conn' = [conn EXCEPT ![calls[k].id].status = st] /\ conn[calls[k].id] # None
      <4>1. conn[calls[k].id] \in ConnRow BY <2>3, <3>2
      <4>2. conn'[calls[k].id] \in ConnRow \union {None} BY <2>3
      <4>3. conn'[calls[k].id] = [conn[calls[k].id] EXCEPT !.status = st] BY <2>3, <3>2
      <4>4. conn'[calls[k].id].secret = conn[calls[k].id].secret BY <4>1, <4>3 DEF ConnRow
      <4>5. conn'[calls[k].id] # None
        <5>1. st \in {"untested", "ok", "error"} BY DEF Reports
        <5>2. conn'[calls[k].id] \in ConnRow BY <4>1, <4>3, <5>1 DEF ConnRow
        <5> QED BY <5>2
      <4> QED BY <2>3, <3>2, <4>4, <4>5
    <3> QED BY <1>17, <3>1, <3>2 DEF Judge
  <2> HIDE DEF CInv, ConnTypeOK, CallsFit, Accounted
  <2>7. HeldIsAccounted(d)'
    BY ONLY <2>1, <2>2, <2>3, <2>4, <2>5, <2>6, d \in Conns, k \in Callers DEF HeldIsAccounted, NamedIsActive, UpdatesFit, Updating, Replacing, Brings
  <2>8. NamedIsActive(d)'
    BY ONLY <2>1, <2>2, <2>3, <2>4, <2>5, <2>6, d \in Conns, k \in Callers DEF HeldIsAccounted, NamedIsActive, UpdatesFit, Updating, Replacing, Brings
  <2>9. UpdatesFit(d)'
    BY ONLY <2>1, <2>2, <2>3, <2>4, <2>5, <2>6, d \in Conns, k \in Callers DEF HeldIsAccounted, NamedIsActive, UpdatesFit, Updating, Replacing, Brings
  <2> QED BY <2>7, <2>8, <2>9
<1>18. ASSUME NEW k \in Callers, JudgeFails(k) PROVE Accounted'
  BY <1>18 DEF JudgeFails, Return, Idle
<1>19. ASSUME NEW k \in Callers, HangUp(k) PROVE Accounted'
  <2> SUFFICES ASSUME NEW d \in Conns \ crossed'
               PROVE  (HeldIsAccounted(d) /\ NamedIsActive(d) /\ UpdatesFit(d))'
    BY DEF Accounted
  <2>1. d \notin crossed
    BY <1>19 DEF HangUp, GivesUp
  <2>2. HeldIsAccounted(d) /\ NamedIsActive(d) /\ UpdatesFit(d)
    BY <2>1 DEF Accounted
  <2>3. UNCHANGED conn
    BY <1>19 DEF HangUp
  <2>4. UNCHANGED <<ActiveSecrets, HeldBy>>
    BY <1>19, <1>a DEF HangUp
  <2>5. (\A j \in Callers : j # k => calls'[j] = calls[j]) /\ calls'[k].at = "idle"
    BY <1>19 DEF HangUp, GivesUp, Return, Idle
  <2>6. calls[k].at \in {"test", "open", "judge"} \/ d # calls[k].id
    BY <1>19 DEF HangUp, GivesUp, Testing
  <2> HIDE DEF CInv, ConnTypeOK, CallsFit, Accounted
  <2>7. HeldIsAccounted(d)'
    BY ONLY <2>1, <2>2, <2>3, <2>4, <2>5, <2>6, d \in Conns, k \in Callers DEF HeldIsAccounted, NamedIsActive, UpdatesFit, Updating, Replacing, Brings
  <2>8. NamedIsActive(d)'
    BY ONLY <2>1, <2>2, <2>3, <2>4, <2>5, <2>6, d \in Conns, k \in Callers DEF HeldIsAccounted, NamedIsActive, UpdatesFit, Updating, Replacing, Brings
  <2>9. UpdatesFit(d)'
    BY ONLY <2>1, <2>2, <2>3, <2>4, <2>5, <2>6, d \in Conns, k \in Callers DEF HeldIsAccounted, NamedIsActive, UpdatesFit, Updating, Replacing, Brings
  <2> QED BY <2>7, <2>8, <2>9
<1>20. CASE Rotation /\ UNCHANGED connVars BY <1>20 DEF connVars
<1>21. CASE Restart
  <2>1. /\ \A k \in Callers : calls'[k].at = "idle"
        /\ crossed \subseteq crossed'
        /\ \A k \in Callers : calls[k].at \notin {"test", "open", "judge", "idle"} =>
             calls[k].id \in crossed'
    BY <1>21 DEF Restart, Idle, Testing
  <2>2. UNCHANGED <<conn, ActiveSecrets, HeldBy>> BY <1>21, <1>a DEF Restart
  <2> QED BY <2>1, <2>2
<1>22. CASE UNCHANGED allVars BY <1>22 DEF allVars, connVars, vaultVars
<1>23. ASSUME NEW k \in Callers, Begin(k) PROVE Accounted'
  <2>1. \A c \in Conns : conn[c] # None => conn[c].fields \in Fields BY DEF ConnTypeOK, ConnRow
  <2> HIDE DEF CInv, ConnTypeOK, CallsFit, Accounted, HeldIsAccounted, NamedIsActive, UpdatesFit, Updating, Replacing, Brings
  <2> QED BY <1>23, <2>1, <1>1, <1>2, <1>3, <1>4 DEF Begin
<1> QED
  BY ONLY [ConnNext]_allVars, <1>5, <1>6, <1>7, <1>8, <1>9, <1>10, <1>11, <1>12, <1>13, <1>14, <1>15, <1>16, <1>17, <1>18, <1>19, <1>20, <1>21, <1>22, <1>23
  DEF ConnNext, Proceed, Breaks
-----------------------------------------------------------------------------
(* The theorems.                                                           *)

IInv ==
  /\ VInv /\ CInv /\ OwnSecret
  /\ CreatedOnce /\ NobodyElses /\ BroughtIsActive /\ Accounted

LEMMA ConnInitInv == ConnInit => IInv
<1> SUFFICES ASSUME ConnInit PROVE IInv OBVIOUS
<1> USE VaultAssumption, ConnectionsAssumption
<1>1. VInv BY VaultInit DEF ConnInit
<1>2. \A k \in Callers : calls[k] = Idle BY DEF ConnInit
<1>3. \A k \in Callers : /\ calls[k].at = "idle" /\ calls[k].id = None /\ calls[k].seen = None
                        /\ calls[k].secret = None
  BY <1>2 DEF Idle
<1>4. \A c \in Conns : conn[c] = None BY DEF ConnInit
<1>5. ConnTypeOK
  <2>1. Idle \in Call BY DEF Idle, Call, CallStates
  <2>2. calls \in [Callers -> Call] BY <2>1 DEF ConnInit
  <2> QED BY <1>1, <2>2 DEF ConnInit, ConnTypeOK, VInv
<1>6. CallsFit BY <1>2, <1>3 DEF CallsFit
<1>7. OwnSecret BY <1>3, <1>4 DEF OwnSecret, OfConn
<1>8. CreatedOnce BY <1>3, <1>4 DEF CreatedOnce, Creating
<1>10. NobodyElses /\ BroughtIsActive BY <1>3 DEF NobodyElses, BroughtIsActive, Brings
<1>11. Accounted
  <2>1. \A c \in Conns : HeldBy[c] = {} BY DEF ConnInit, Init, HeldBy, Held, Active
  <2> QED
    BY <1>3, <1>4, <2>1
    DEF Accounted, HeldIsAccounted, NamedIsActive, UpdatesFit, Updating, Replacing
<1> QED BY <1>1, <1>5, <1>6, <1>7, <1>8, <1>10, <1>11 DEF IInv, CInv

\* The invariant is inductive.
THEOREM Inductive == ConnSpec => []IInv
<1>1. IInv /\ [ConnNext]_allVars => IInv'
  <2> SUFFICES ASSUME IInv, [ConnNext]_allVars PROVE IInv' OBVIOUS
  <2> USE DEF IInv
  <2>1. [Next]_vaultVars BY VaultOfConn
  <2>2. VInv' BY <2>1, VaultStep
  <2>3. CInv' BY <2>2, ConnTypes DEF CInv, VInv
  <2>4. CreatedOnce' BY <2>3, CreatedStep
  <2>5. OwnSecret' BY <2>3, OwnStep
  <2>7. NobodyElses' /\ BroughtIsActive' BY <2>3, NobodyStep, BroughtStep
  <2>8. Accounted' BY <2>3, AccountedStep
  <2> QED BY <2>2, <2>3, <2>4, <2>5, <2>7, <2>8
<1> QED BY <1>1, ConnInitInv, PTL DEF ConnSpec

\* The connections use the vault as the vault may be used: what is proved of it
\* alone holds under them.
THEOREM UsesVault == ConnSpec => Spec
<1>1. ConnInit => Init BY DEF ConnInit
<1>2. IInv /\ [ConnNext]_allVars => [Next]_vaultVars BY VaultOfConn DEF IInv
<1> QED BY <1>1, <1>2, Inductive, PTL DEF ConnSpec, Spec

\* Types, and the step each call is at has what it needs.
THEOREM TypeCorrect == ConnSpec => []ConnTypeOK
<1>1. IInv => ConnTypeOK BY DEF IInv, CInv
<1> QED BY <1>1, Inductive, PTL

\* No row and no call ever names another connection's secret, whatever calls
\* overlap, fail or are dropped.
THEOREM OwnCorrect == ConnSpec => []OwnSecret
<1>1. IInv => OwnSecret BY DEF IInv
<1> QED BY <1>1, Inductive, PTL

\* dek_generation tells the rows that open with the stored key from those that a
\* broken rotation left under another.
THEOREM HalfVisible == ConnSpec => []HalfRotationVisible
<1>1. IInv => HalfRotationVisible BY DEF IInv, VInv
<1> QED BY <1>1, Inductive, PTL

\* The key in memory is the stored one, and only a rotation that broke off loses
\* secrets.
THEOREM RestartsCorrect == ConnSpec => []RestartLosesNothing
<1>1. IInv => RestartLosesNothing
  BY DEF IInv, VInv, KeysDrawn, UntornOpens, RestartLosesNothing, Free
<1> QED BY <1>1, Inductive, PTL

\* Whatever calls ran at a time, once none is left the vault holds the secret the
\* row names and no other, unless one of them failed or crossed another.
THEOREM SecretsCorrect == ConnSpec => []SecretsMatch
<1>1. IInv => SecretsMatch
  <2> SUFFICES ASSUME IInv, NEW c \in Conns \ crossed, Rested(c) PROVE Held(c) = Named(c)
    BY DEF SecretsMatch
  <2>1. HeldIsAccounted(c) /\ NamedIsActive(c) BY DEF IInv, Accounted
  <2>2. \A k \in Callers : calls[k].id # c BY DEF Rested
  <2>3. HeldBy[c] = Held(c) BY DEF HeldBy
  <2>4. ASSUME NEW s \in Held(c) PROVE s \in Named(c)
    <3>1. conn[c] # None /\ s = conn[c].secret BY <2>1, <2>2, <2>3 DEF HeldIsAccounted
    <3>2. s # None BY VaultAssumption DEF Held
    <3> QED BY <3>1, <3>2 DEF Named
  <2>5. ASSUME NEW s \in Named(c) PROVE s \in Held(c)
    <3>1. conn[c] # None /\ s = conn[c].secret /\ s # None BY DEF Named
    <3>2. s \in Secrets /\ Active(s) BY <3>1, <2>1, <2>2 DEF NamedIsActive, ActiveSecrets
    <3>3. sealed[s].owner = c BY <3>1 DEF IInv, OwnSecret, OfConn
    <3> QED BY <3>2, <3>3 DEF Held
  <2> QED BY <2>4, <2>5
<1> QED BY <1>1, Inductive, PTL
=============================================================================
