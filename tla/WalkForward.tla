---------------------------- MODULE WalkForward ----------------------------
(***************************************************************************)
(* The geometry of a walk-forward evaluation (application/evaluation.py):  *)
(* which bars each trial of run_walk_forward reads and scores, and which   *)
(* the locked holdout scores, under the windows w of a protocol.  Bars are *)
(* numbered from 0; bars is how many an asset has.  What a trial measures  *)
(* is left to the callers.                                                 *)
(***************************************************************************)
EXTENDS Integers, FiniteSets, FiniteSetsExt

\* The windows of a protocol and its robustness.start_offset_bars.
\* load_protocol checks that the windows are positive; that offsets are not
\* negative is what every protocol of the repository satisfies, and is not
\* checked.
WindowSettings ==
  [train : Nat \ {0}, validation : Nat \ {0}, test : Nat \ {0}, step : Nat \ {0},
   holdout : Nat \ {0}, offsets : SUBSET Nat]

PreHoldoutEnd(w, bars) == bars - w.holdout

\* The values of fold_start for which the loop runs.
FoldStarts(w, bars) ==
  {f \in 0 .. bars :
     /\ f % w.step = 0
     /\ f + w.train + w.validation + w.test <= PreHoldoutEnd(w, bars)}

\* A trial reads the bars from its context on and scores those from start to
\* the one before end.
Slice(context, start, end) == [context |-> context, start |-> start, end |-> end]

\* _run_slice raises for any other indices.
Valid(slice, bars) ==
  /\ 0 <= slice.context /\ slice.context < slice.start
  /\ slice.start < slice.end /\ slice.end <= bars

Validation(w, f) == Slice(f, f + w.train, f + w.train + w.validation)

Testing(w, f) ==
  Slice(f, f + w.train + w.validation, f + w.train + w.validation + w.test)

Shifted(slice, n) == Slice(slice.context + n, slice.start + n, slice.end + n)

\* Mutant: an offset may run to the end of the data.
MutOffsetFits(w, f, offset, bars) == offset # 0 /\ Testing(w, f).end + offset <= bars

\* The start-offset trials that run_walk_forward does not skip.
OffsetFits(w, f, offset, bars) ==
  offset # 0 /\ Testing(w, f).end + offset <= PreHoldoutEnd(w, bars)

\* Every slice of an evaluation in which the folds of chosen had an eligible
\* candidate.  Cost scenarios and price buffers repeat the testing slice.
Trials(w, bars, chosen) ==
  {Validation(w, f) : f \in FoldStarts(w, bars)}
    \cup {Testing(w, f) : f \in chosen}
    \cup UNION {{Shifted(Testing(w, f), n) : n \in {m \in w.offsets : OffsetFits(w, f, m, bars)}} :
                f \in chosen}

\* The bars that the trials of an evaluation have read.
BarsRead(w, bars, chosen) == UNION {t.context .. (t.end - 1) : t \in Trials(w, bars, chosen)}

\* The slice of the locked holdout.
HoldoutSlice(w, bars) ==
  Slice(Max({0, PreHoldoutEnd(w, bars) - (w.train + w.validation)}),
        PreHoldoutEnd(w, bars), bars)

BarsScored(slice) == slice.start .. (slice.end - 1)
=============================================================================
