-------------------------- MODULE SubmissionContract --------------------------
(***************************************************************************)
(* What the paper order path promises about one client order ID, with no   *)
(* processes, pauses or reconciliations: an approved order is durable      *)
(* before it is sent, it is sent at most once, it exists at the broker     *)
(* only because it was sent, it is resolved only if it exists, and a       *)
(* resolved or rejected outcome is final.                                  *)
(***************************************************************************)
EXTENDS Naturals

CONSTANT Orders

VARIABLES durable,  \* orders with a durable row
          sends,    \* order -> submissions sent
          exists,   \* orders that exist at the broker
          outcome   \* order -> "open", "resolved" or "rejected"

vars == <<durable, sends, exists, outcome>>

Init ==
  /\ durable = {}
  /\ sends = [c \in Orders |-> 0]
  /\ exists = {}
  /\ outcome = [c \in Orders |-> "open"]

Approve(c) ==
  /\ c \notin durable
  /\ durable' = durable \cup {c}
  /\ UNCHANGED <<sends, exists, outcome>>

Send(c) ==
  /\ c \in durable
  /\ sends[c] = 0
  /\ sends' = [sends EXCEPT ![c] = 1]
  /\ UNCHANGED <<durable, exists, outcome>>

Create(c) ==
  /\ sends[c] = 1
  /\ exists' = exists \cup {c}
  /\ UNCHANGED <<durable, sends, outcome>>

\* One reconciliation may resolve several orders.
Resolve(S) ==
  /\ S \subseteq exists \cap durable
  /\ \A c \in S : outcome[c] # "rejected"
  /\ outcome' = [c \in Orders |-> IF c \in S THEN "resolved" ELSE outcome[c]]
  /\ UNCHANGED <<durable, sends, exists>>

Reject(c) ==
  /\ c \in durable
  /\ outcome[c] = "open"
  /\ outcome' = [outcome EXCEPT ![c] = "rejected"]
  /\ UNCHANGED <<durable, sends, exists>>

Next ==
  \/ \E c \in Orders : Approve(c) \/ Send(c) \/ Create(c) \/ Reject(c)
  \/ \E S \in SUBSET Orders : Resolve(S)

Spec == Init /\ [][Next]_vars
=============================================================================
