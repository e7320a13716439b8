---------------------------- MODULE MCFillProgress ----------------------------
(***************************************************************************)
(* Instances of FillReconciliation for liveness: reconcile is called again *)
(* and again and fails from outside finitely often.  Such a failure is not *)
(* told apart by the other variables from a call that raises on its own,   *)
(* so it is counted.                                                       *)
(***************************************************************************)
EXTENDS MCFillReconciliation

CONSTANT MaxFailures  \* bound on failed reads and crashes
VARIABLE failures

ProgressNext ==
  \/ /\ \/ \E o \in OrderIds : BrokerFill(o) \/ BrokerCancel(o)
        \/ \E r \in Reconcilers : Reconcile(r)
     /\ UNCHANGED failures
  \/ /\ failures < MaxFailures
     /\ failures' = failures + 1
     /\ \E r \in Reconcilers : Fail(r)

ProgressSpec ==
  /\ Init /\ failures = 0
  /\ [][ProgressNext]_<<vars, failures>>
  /\ \A r \in Reconcilers : WF_vars(Reconcile(r))
=============================================================================
