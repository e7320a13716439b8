--------------------------- MODULE MCPaperSession ---------------------------
(***************************************************************************)
(* Two callers; two builds for one account, and one of them also for       *)
(* another account; a budget of two requests in two ticks.                 *)
(***************************************************************************)
EXTENDS PaperSession, TLC
CONSTANTS k1, k2, n1, b1, b2, x1, u1, u2

MCDeployment(code, account) ==
  [namespace |-> n1,
   fingerprint |-> [code |-> code, configuration |-> x1, account |-> account]]
MCDeployments == {MCDeployment(b1, u1), MCDeployment(b2, u1), MCDeployment(b1, u2)}
MCSymmetry == Permutations(Callers)
=============================================================================
