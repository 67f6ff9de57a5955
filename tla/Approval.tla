------------------------------ MODULE Approval ------------------------------
(***************************************************************************)
(* What the human approval lane promises, whatever way it is implemented.  *)
(* A request is asked once and settled at most once; a caller that gets a  *)
(* verdict gets the one that was settled; a caller that is refused is      *)
(* refused a request that is settled already; and an operator whose        *)
(* decision is acknowledged is the one whose decision stands.  A call may  *)
(* always fail without an answer (the store is unavailable).               *)
(* Module Review is shown to implement it.                                 *)
(***************************************************************************)

CONSTANTS Requests, Agents, Operators, Verdicts

VARIABLES
  state,  \* state[r]: "absent", "open", or the verdict r is settled with
  told,   \* told[a]:  what the last finished wait of agent a returned
  reply   \* reply[o]: what the last finished decision of operator o returned

vars == <<state, told, reply>>

Settled(r) == state[r] \in Verdicts

NoAnswer == [kind |-> "none"]

Init ==
  /\ state = [r \in Requests |-> "absent"]
  /\ told = [a \in Agents |-> NoAnswer]
  /\ reply = [o \in Operators |-> NoAnswer]

Ask(r) ==
  /\ state[r] = "absent"
  /\ state' = [state EXCEPT ![r] = "open"]
  /\ UNCHANGED <<told, reply>>

Decided(r, v) == state[r] = "open" /\ state' = [state EXCEPT ![r] = v]

Settle(r, v) == Decided(r, v) /\ UNCHANGED <<told, reply>>

\* A failed call promises nothing: it may have settled the request or not.
Unknown(r) == UNCHANGED state \/ \E v \in Verdicts : Decided(r, v)

\* The verdict is handed to an agent.
Tell(a, r) ==
  /\ Settled(r)
  /\ told' = [told EXCEPT ![a] = [kind |-> "ok", req |-> r, state |-> state[r]]]
  /\ UNCHANGED <<state, reply>>

\* The agent gets an error instead of a verdict: the request is no longer open.
\* The error carries a label, which need not be the settled verdict.
Refuse(a, r, label) ==
  /\ Settled(r)
  /\ told' = [told EXCEPT ![a] = [kind |-> "refused", req |-> r, state |-> label]]
  /\ UNCHANGED <<state, reply>>

Fail(a, r) ==
  /\ Unknown(r)
  /\ told' = [told EXCEPT ![a] = [kind |-> "failed", req |-> r]]
  /\ UNCHANGED reply

\* The operator is told how the request stands.
Acknowledge(o, r) ==
  /\ Settled(r)
  /\ reply' = [reply EXCEPT ![o] = [kind |-> "ok", req |-> r, state |-> state[r]]]
  /\ UNCHANGED <<state, told>>

Reject(o, r) ==
  /\ Unknown(r)
  /\ reply' = [reply EXCEPT ![o] = [kind |-> "refused", req |-> r]]
  /\ UNCHANGED told

Next ==
  \/ \E r \in Requests : Ask(r) \/ \E v \in Verdicts : Settle(r, v)
  \/ \E r \in Requests, a \in Agents :
        Tell(a, r) \/ Fail(a, r) \/ \E label \in Verdicts : Refuse(a, r, label)
  \/ \E r \in Requests, o \in Operators : Acknowledge(o, r) \/ Reject(o, r)

Spec == Init /\ [][Next]_vars
=============================================================================
