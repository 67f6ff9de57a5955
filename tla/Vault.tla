------------------------------- MODULE Vault --------------------------------
(***************************************************************************)
(* VaultService (ordo-secrets-vault): rows sealed under a data key (DEK),  *)
(* and one vault_state row that holds the sealed key and its generation.   *)
(* One mutex serialises the calls; put, retire and get_for_provider do not *)
(* wait inside it, rotate does, and it writes every row by itself.         *)
(* A key is the number of the rotation that drew it: keys never repeat.    *)
(* The host's sealer is taken not to change.                               *)
(***************************************************************************)
EXTENDS Naturals

CONSTANTS
  Secrets,       \* ids of sealed_secrets rows (ULIDs, never reused)
  Owners,        \* provider ids that a row may allow
  None,
  MaxRotations,  \* bound on calls of rotate
  MaxFaults      \* bound on what goes wrong: SQLite, the sealer, a restart

Row == [owner : Owners, active : BOOLEAN, key : 0..MaxRotations, gen : Nat]
RotateCall == [key : 1..MaxRotations, gen : Nat, todo : SUBSET Secrets]

ASSUME VaultAssumption ==
  /\ MaxRotations \in Nat /\ MaxFaults \in Nat
  /\ None \notin Secrets \union Owners \union Row \union RotateCall

VARIABLES
  sealed,  \* the rows: None, or owner, whether not retired, key and dek_generation
  state,   \* the vault_state row: the key it wraps and the generation
  mem,     \* Inner.dek and Inner.generation
  rot,     \* the rotate call that holds the mutex, or None
  drawn,   \* data keys drawn so far
  torn,    \* history: a rotation broke off with rows already resealed
  faults

vaultVars == <<sealed, state, mem, rot, drawn, torn, faults>>

Key == [key : 0..MaxRotations, gen : Nat]

Init ==
  /\ sealed = [s \in Secrets |-> None]
  /\ state = [key |-> 0, gen |-> 0] /\ mem = state
  /\ rot = None /\ drawn = 0 /\ torn = FALSE /\ faults = 0

Fails == faults < MaxFaults /\ faults' = faults + 1

\* A call that fails changes nothing.
CallFails == Fails /\ UNCHANGED <<sealed, state, mem, rot, drawn, torn>>

Active(s) == sealed[s] # None /\ sealed[s].active
Free == rot = None

-----------------------------------------------------------------------------
(* put, retire, get_for_provider.                                          *)

Sealed(owner) == [owner |-> owner, active |-> TRUE, key |-> mem.key, gen |-> mem.gen]

Put(s, owner) ==
  /\ Free /\ sealed[s] = None
  /\ sealed' = [sealed EXCEPT ![s] = Sealed(owner)]
  /\ UNCHANGED <<state, mem, rot, drawn, torn>>

\* The row stays, its ciphertext is overwritten with zeros.
Retire(s) ==
  /\ Free /\ Active(s)
  /\ sealed' = [sealed EXCEPT ![s].active = FALSE]
  /\ UNCHANGED <<state, mem, rot, drawn, torn>>

OpensWith(s, key) == sealed[s].key = key

Granted(s, provider) ==
  Active(s) /\ sealed[s].owner = provider /\ OpensWith(s, mem.key)

-----------------------------------------------------------------------------
(* rotate.                                                                 *)

BeginRotate ==
  /\ Free /\ drawn < MaxRotations
  /\ drawn' = drawn + 1
  /\ rot' = [key |-> drawn + 1, gen |-> mem.gen + 1, todo |-> {s \in Secrets : Active(s)}]
  /\ UNCHANGED <<sealed, state, mem, torn, faults>>

OldGeneration(s) == [sealed[s] EXCEPT !.key = rot.key]   \* (mutant) dek_generation stays
Resealed(s) == [sealed[s] EXCEPT !.key = rot.key, !.gen = rot.gen]

\* Open under the old key, seal under the new, rewrap_in_place: one UPDATE.
Reseal(s) ==
  /\ ~Free /\ s \in rot.todo /\ OpensWith(s, mem.key)
  /\ sealed' = [sealed EXCEPT ![s] = Resealed(s)]
  /\ rot' = [rot EXCEPT !.todo = @ \ {s}]
  /\ UNCHANGED <<state, mem, drawn, torn, faults>>

\* What is left when a rotation does not reach its end.
Torn == torn \/ \E s \in Secrets : Active(s) /\ sealed[s].key = rot.key
Abandon == rot' = None /\ torn' = Torn /\ UNCHANGED <<sealed, state, drawn>>

\* A row that does not open under the key in memory ends the call by `?`.
Unopened == ~Free /\ Abandon /\ UNCHANGED <<mem, faults>>
             /\ \E s \in rot.todo : ~OpensWith(s, mem.key)

\* So does SQLite or the sealer, or the caller goes away while it wraps.
RotateFails == ~Free /\ Abandon /\ Fails /\ UNCHANGED mem

KeepsOldKey == mem   \* (mutant) the key in memory is not swapped
NewKey == [key |-> rot.key, gen |-> rot.gen]

\* The new key is wrapped and stored, then swapped in.
Finish ==
  /\ ~Free /\ rot.todo = {}
  /\ state' = [key |-> rot.key, gen |-> rot.gen] /\ mem' = NewKey
  /\ rot' = None /\ UNCHANGED <<sealed, drawn, torn, faults>>

Rotation == BeginRotate \/ (\E s \in Secrets : Reseal(s)) \/ Unopened \/ RotateFails \/ Finish

\* The next start unwraps the key of the vault_state row.
Rebuild ==
  /\ mem' = state
  /\ IF Free THEN UNCHANGED <<sealed, state, rot, drawn, torn>> ELSE Abandon

Next ==
  \/ \E s \in Secrets, p \in Owners : Put(s, p) /\ UNCHANGED faults
  \/ \E s \in Secrets : Retire(s) /\ UNCHANGED faults
  \/ Rotation
  \/ Rebuild /\ Fails
  \/ CallFails

Spec == Init /\ [][Next]_vaultVars
-----------------------------------------------------------------------------
(* Properties.                                                             *)

TypeOK ==
  /\ sealed \in [Secrets -> Row \union {None}]
  /\ state \in Key /\ mem \in Key
  /\ rot \in RotateCall \union {None}
  /\ drawn \in 0..MaxRotations /\ torn \in BOOLEAN /\ faults \in 0..MaxFaults

\* "Every secret carries the generation of the DEK that wrapped it so a
\* half-finished rotation is visible" (store.rs:10-11): whatever rotations
\* failed, were repeated or died with the process, dek_generation tells the
\* rows that open with the stored key from those that do not.
HalfRotationVisible ==
  \A s \in Secrets : Active(s) =>
    (sealed[s].gen = state.gen <=> OpensWith(s, state.key))

\* A restart makes no secret readable or unreadable (the key in memory is the
\* one in the vault_state row), and only a rotation that broke off loses one.
RestartLosesNothing ==
  /\ mem = state
  /\ Free /\ ~torn => \A s \in Secrets : Active(s) => OpensWith(s, state.key)
=============================================================================
