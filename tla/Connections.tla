----------------------------- MODULE Connections ----------------------------
(***************************************************************************)
(* ConnectionService (ordo-connections) over the vault: a connection is a  *)
(* row of the connections table that names a sealed secret.  A call locks  *)
(* the table and the vault one after the other, never both: one action is  *)
(* one critical section.  Calls are handlers of the control API; a client  *)
(* that disconnects drops its handler where it waits.                      *)
(***************************************************************************)
EXTENDS Vault

CONSTANTS
  Conns,        \* connection ids (ULIDs, never reused)
  Callers,
  Fields        \* contents of fields_json that a test tells apart

ConnRow == [fields : Fields, secret : Secrets \union {None}, status : {"untested", "ok", "error"}]

\* A secret's allowed_providers is ["connection:<id>"].
ASSUME ConnectionsAssumption ==
  /\ Owners = Conns /\ None \notin Conns \union Fields \union ConnRow

VARIABLES
  conn,     \* the table: None, or fields, secret and status
  calls,    \* the call of each caller
  created,  \* ids handed out
  crossed   \* history: connections with a call that failed or was cut short, or two updates at a time

connVars == <<conn, calls, created, crossed>>
allVars == <<vaultVars, connVars>>

Idle == [at |-> "idle", id |-> None, seen |-> None, secret |-> None, fields |-> None, got |-> FALSE]

ConnInit ==
  /\ Init
  /\ conn = [c \in Conns |-> None] /\ calls = [k \in Callers |-> Idle]
  /\ created = {} /\ crossed = {}

Rested(c) == \A k \in Callers : calls[k].id # c

Goto(k, at) == calls' = [calls EXCEPT ![k].at = at]
Return(k) == calls' = [calls EXCEPT ![k] = Idle]
ThenTest(k) == calls' = [calls EXCEPT ![k] = [Idle EXCEPT !.at = "test", !.id = calls[k].id]]

\* The call ends with work half done.
GivesUp(k) == crossed' = crossed \union {calls[k].id} /\ Return(k)

-----------------------------------------------------------------------------
(* create: seal the secret, insert the row, test it.                       *)

Create(k, c, f, withSecret) ==
  /\ calls[k] = Idle /\ c \notin created
  /\ created' = created \union {c}
  /\ calls' = [calls EXCEPT ![k] = [Idle EXCEPT !.at = IF withSecret THEN "seal" ELSE "insert",
                                                !.id = c, !.fields = f]]
  /\ UNCHANGED <<vaultVars, conn, crossed>>

\* vault.put, in create and in update.
Seal(k) ==
  /\ calls[k].at = "seal"
  /\ \E s \in Secrets :
       /\ Put(s, calls[k].id)
       /\ calls' = [calls EXCEPT ![k].secret = s,
                                 ![k].at = IF calls[k].seen = None THEN "insert" ELSE "write"]
  /\ UNCHANGED <<faults, conn, created, crossed>>

\* A failed put ends the call by `?`; an update has retired the old secret.
SealFails(k) ==
  /\ calls[k].at = "seal" /\ Free /\ CallFails
  /\ GivesUp(k)
  /\ UNCHANGED <<conn, created>>

Inserted(k) == [fields |-> calls[k].fields, secret |-> calls[k].secret, status |-> "untested"]

Insert(k) ==
  /\ calls[k].at = "insert"
  /\ conn' = [conn EXCEPT ![calls[k].id] = Inserted(k)]
  /\ ThenTest(k)
  /\ UNCHANGED <<vaultVars, created, crossed>>

InsertFails(k) ==
  /\ calls[k].at = "insert" /\ CallFails
  /\ GivesUp(k)
  /\ UNCHANGED <<conn, created>>

-----------------------------------------------------------------------------
(* update: read the row, replace the secret if one is given, write, test.  *)

KeepsOld(c) == "seal"   \* (mutant) the secret that is replaced stays
FirstStep(c) == IF conn[c].secret = None THEN "seal" ELSE "retire_old"

\* get: NotFound ends the call.
Update(k, c, f, withSecret) ==
  /\ calls[k] = Idle /\ conn[c] # None
  /\ calls' = [calls EXCEPT ![k] =
       [Idle EXCEPT !.id = c, !.seen = conn[c], !.fields = f,
          !.at = IF withSecret THEN FirstStep(c) ELSE "write",
          !.secret = IF withSecret THEN None ELSE conn[c].secret]]
  /\ UNCHANGED <<vaultVars, conn, created, crossed>>

RetireOld(k) ==
  /\ calls[k].at = "retire_old" /\ Active(calls[k].seen.secret)
  /\ Retire(calls[k].seen.secret)
  /\ Goto(k, "seal")
  /\ UNCHANGED <<faults, conn, created, crossed>>

\* An error of retire is ignored, here and in delete.
Ignored(k) ==
  \/ ~Active(calls[k].seen.secret) /\ UNCHANGED <<vaultVars, crossed>>
  \/ Active(calls[k].seen.secret) /\ CallFails /\ crossed' = crossed \union {calls[k].id}
SkipRetireOld(k) ==
  /\ calls[k].at = "retire_old" /\ Free
  /\ Ignored(k) /\ Goto(k, "seal")
  /\ UNCHANGED <<conn, created>>

StatusReset(k) == "untested"
Updated(k) == [fields |-> calls[k].fields, secret |-> calls[k].secret, status |-> StatusReset(k)]

Others(k, stages) == \E j \in Callers \ {k} : calls[j].id = calls[k].id /\ calls[j].at \in stages
With(set, k, yes) == IF yes THEN set \union {calls[k].id} ELSE set

Write(k) ==
  /\ calls[k].at = "write" /\ conn[calls[k].id] # None
  /\ conn' = [conn EXCEPT ![calls[k].id] = Updated(k)]
  /\ crossed' = With(crossed, k, Others(k, {"retire_old", "seal", "write"}))
  /\ ThenTest(k)
  /\ UNCHANGED <<vaultVars, created>>

\* The row was deleted meanwhile, or SQLite failed: the call ends by `?`.
WriteFails(k) ==
  /\ calls[k].at = "write"
  /\ IF conn[calls[k].id] = None THEN UNCHANGED vaultVars ELSE CallFails
  /\ GivesUp(k)
  /\ UNCHANGED <<conn, created>>

-----------------------------------------------------------------------------
(* delete: remove the row, then retire the secret it named.                *)

Delete(k, c) ==
  /\ calls[k] = Idle /\ conn[c] # None
  /\ conn' = [conn EXCEPT ![c] = None]
  /\ calls' = [calls EXCEPT ![k] = IF conn[c].secret = None THEN Idle
                                   ELSE [Idle EXCEPT !.at = "retire", !.id = c, !.seen = conn[c]]]
  /\ UNCHANGED <<vaultVars, created, crossed>>

RetireDeleted(k) ==
  /\ calls[k].at = "retire" /\ Active(calls[k].seen.secret)
  /\ Retire(calls[k].seen.secret) /\ Return(k)
  /\ UNCHANGED <<faults, conn, created, crossed>>

SkipRetire(k) ==
  /\ calls[k].at = "retire" /\ Free
  /\ Ignored(k) /\ Return(k)
  /\ UNCHANGED <<conn, created>>

-----------------------------------------------------------------------------
(* test, called for itself and at the end of create and update.            *)

Test(k, c) ==
  /\ calls[k] = Idle /\ conn[c] # None
  /\ calls' = [calls EXCEPT ![k] = [Idle EXCEPT !.at = "test", !.id = c]]
  /\ UNCHANGED <<vaultVars, conn, created, crossed>>

Load(k) ==
  LET c == calls[k].id IN
  /\ calls[k].at = "test"
  /\ calls' = [calls EXCEPT ![k] =
       IF conn[c] = None THEN Idle
       ELSE [Idle EXCEPT !.at = IF conn[c].secret = None THEN "judge" ELSE "open",
                         !.id = c, !.seen = conn[c], !.got = TRUE]]
  /\ UNCHANGED <<vaultVars, conn, created, crossed>>

\* vault.get_for_provider(secret, "connection:<id>").
Open(k) ==
  /\ calls[k].at = "open" /\ Free
  /\ calls' = [calls EXCEPT ![k].at = "judge",
                            ![k].got = Granted(calls[k].seen.secret, calls[k].id)]
  /\ UNCHANGED <<vaultVars, conn, created, crossed>>

\* The tester's verdict, or Error when the vault refused.
Reports(k) == IF calls[k].got THEN {"ok", "error", "untested"} ELSE {"error"}

Judge(k, status) ==
  LET c == calls[k].id IN
  /\ calls[k].at = "judge" /\ status \in Reports(k)
  /\ conn' = IF conn[c] = None THEN conn ELSE [conn EXCEPT ![c].status = status]
  /\ Return(k)
  /\ UNCHANGED <<vaultVars, created, crossed>>

JudgeFails(k) ==
  /\ calls[k].at = "judge" /\ CallFails /\ Return(k)
  /\ UNCHANGED <<conn, created, crossed>>

-----------------------------------------------------------------------------
Testing == {"test", "open", "judge"}

\* The client disconnects: the handler is dropped at the lock or the test it
\* waits for.
HangUp(k) ==
  /\ calls[k] # Idle /\ CallFails
  /\ IF calls[k].at \in Testing THEN Return(k) /\ UNCHANGED crossed ELSE GivesUp(k)
  /\ UNCHANGED <<conn, created>>

Restart ==
  /\ Fails /\ Rebuild
  /\ crossed' = crossed \union
       {calls[k].id : k \in {j \in Callers : calls[j].at \notin Testing \union {"idle"}}}
  /\ calls' = [k \in Callers |-> Idle]
  /\ UNCHANGED <<conn, created>>

\* An update brings new fields or a new secret: one that brings both takes the
\* same steps.
Begin(k) ==
  \E c \in Conns :
    \/ \E f \in Fields, b \in BOOLEAN : Create(k, c, f, b)
    \/ \E f \in Fields : Update(k, c, f, FALSE)
    \/ conn[c] # None /\ Update(k, c, conn[c].fields, TRUE)
    \/ Delete(k, c) \/ Test(k, c)

Proceed(k) ==
  \/ Seal(k) \/ Insert(k) \/ RetireOld(k) \/ SkipRetireOld(k) \/ Write(k) \/ RetireDeleted(k)
  \/ SkipRetire(k) \/ Load(k) \/ Open(k) \/ (\E st \in Reports(k) : Judge(k, st))

Breaks(k) == SealFails(k) \/ InsertFails(k) \/ WriteFails(k) \/ JudgeFails(k) \/ HangUp(k)

ConnNext ==
  \/ \E k \in Callers : Begin(k) \/ Proceed(k) \/ Breaks(k)
  \/ Rotation /\ UNCHANGED connVars
  \/ Restart

ConnSpec == ConnInit /\ [][ConnNext]_allVars
-----------------------------------------------------------------------------
(* Properties.                                                             *)

\* Types, and a secret named by a row or a call is one of that connection
\* ("binds each secret to the connection it belongs to", service.rs:22-23).
CallStates == {"idle", "seal", "insert", "retire_old", "write", "retire", "test", "open", "judge"}
Call == [at : CallStates, id : Conns \union {None}, seen : ConnRow \union {None},
         secret : Secrets \union {None}, fields : Fields \union {None}, got : BOOLEAN]

ConnTypeOK ==
  /\ TypeOK
  /\ conn \in [Conns -> ConnRow \union {None}]
  /\ calls \in [Callers -> Call]
  /\ created \subseteq Conns /\ crossed \subseteq Conns

OfConn(s, c) == s = None \/ (sealed[s] # None /\ sealed[s].owner = c)
OwnSecret ==
  /\ \A c \in Conns : conn[c] # None => OfConn(conn[c].secret, c)
  /\ \A k \in Callers :
       /\ OfConn(calls[k].secret, calls[k].id)
       /\ calls[k].seen # None => OfConn(calls[k].seen.secret, calls[k].id)

Held(c) == {s \in Secrets : Active(s) /\ sealed[s].owner = c}
Named(c) == IF conn[c] = None THEN {} ELSE {conn[c].secret} \ {None}

\* The vault and the table agree: a connection's secret is usable and the vault
\* keeps no other secret for it, none once it is deleted ("remove the row +
\* retire the secret", service.rs:16).  Excused are connections one of whose
\* calls failed, was dropped or changed what another call had read.
SecretsMatch == \A c \in Conns \ crossed : Rested(c) => Held(c) = Named(c)

=============================================================================
