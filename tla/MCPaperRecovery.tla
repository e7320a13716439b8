--------------------------- MODULE MCPaperRecovery ---------------------------
(***************************************************************************)
(* Instances of PaperExecution for liveness: recoveries fail finitely      *)
(* often.  A crash of a recovery is not told apart from its ordinary end   *)
(* by the variables of PaperExecution, so it is counted.                   *)
(***************************************************************************)
EXTENDS MCPaperExecution

CONSTANT MaxFailures  \* bound on the crashes of recoveries
VARIABLE failures

RecoveryNext ==
  \/ /\ \/ \E a \in Attempts : ExecuteStep(a)
        \/ \E v \in Recoverers : RecoverStep(v)
        \/ \E o \in Operators : OperatorStep(o)
        \/ \E p \in Procs : ReconcileStep(p)
        \/ \E p \in Attempts \cup Operators : Crash(p)
        \/ VenueStep
     /\ UNCHANGED failures
  \/ /\ failures < MaxFailures
     /\ failures' = failures + 1
     /\ \E v \in Recoverers : Crash(v)

\* Calls run on, and an operator keeps repeating the recovery of every row.
\* Attempts may crash at any point, and the broker need not answer.
RecoverySpec ==
  /\ Init /\ failures = 0
  /\ [][RecoveryNext]_<<vars, failures>>
  /\ \A p \in Procs : WF_vars(Running(p))
  /\ \A v \in Recoverers : \A c \in Orders : SF_vars(RecoverStart(v, c))
=============================================================================
