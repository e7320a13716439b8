------------------------ MODULE MCFillReconciliation ------------------------
(***************************************************************************)
(* Instances of FillReconciliation: an owned buy b, an owned sell s and a  *)
(* foreign order f.                                                        *)
(***************************************************************************)
EXTENDS FillReconciliation
CONSTANTS r1, r2, b, s, f

MCSign == [o \in OrderIds |-> IF o = s THEN -1 ELSE 1]
=============================================================================
