--------------------------- MODULE EvidenceContract ---------------------------
(***************************************************************************)
(* What the journal promises about broker fills, with no processes, pages, *)
(* order snapshots or conflicts: fills are retained only from what the     *)
(* broker executed, without a gap up to the activity that the checkpoint   *)
(* is set to in the same transaction, and neither a fill nor its           *)
(* attribution is ever taken back.  The checkpoint itself may move         *)
(* backwards: a slower reconciliation may commit after a faster one.       *)
(***************************************************************************)
EXTENDS Integers

VARIABLES activities,  \* number of fills the broker executed
          stored,      \* activities with a row
          attributed,  \* those whose client order ID is known
          checkpoint   \* last activity of the last commit that had any

vars == <<activities, stored, attributed, checkpoint>>

Init ==
  /\ activities = 0
  /\ stored = {} /\ attributed = {}
  /\ checkpoint = 0

Execute ==
  /\ activities' = activities + 1
  /\ UNCHANGED <<stored, attributed, checkpoint>>

\* Everything up to activity n is retained, with the owners of some of it.
Commit(n, owned) ==
  /\ stored' = stored \cup (1 .. n)
  /\ attributed' = attributed \cup owned
  /\ checkpoint' = IF n = 0 THEN checkpoint ELSE n
  /\ UNCHANGED activities

Next ==
  \/ Execute
  \/ \E n \in 0 .. activities : \E owned \in SUBSET (1 .. n) : Commit(n, owned)

Spec == Init /\ [][Next]_vars
=============================================================================
