------------------------- MODULE MCResearchCommands -------------------------
(***************************************************************************)
(* ResearchCommands for TLC: two protocols with windows of one bar, of     *)
(* which B locks one bar more than A, and two lengths of data.  A has one  *)
(* or two folds and an offset that may or may not fit before the holdout;  *)
(* B has one fold or none.                                                 *)
(***************************************************************************)
EXTENDS ResearchCommands, TLC

CONSTANTS A, B

MCWindows ==
  [q \in Protocols |->
     [train |-> 1, validation |-> 1, test |-> 1, step |-> 1,
      holdout |-> IF q = A THEN 1 ELSE 2, offsets |-> {0, 1}]]

MCMinFolds == [q \in Protocols |-> IF q = A THEN 2 ELSE 1]

MCSymmetry == Permutations(Procs)

\* Bound: once commands have overlapped, those that run are followed to their
\* end but no other is started.
MCOneOverlap ==
  /\ disturbed => runs' = runs
  /\ overlapped => simRuns' = simRuns
=============================================================================
