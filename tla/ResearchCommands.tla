-------------------------- MODULE ResearchCommands --------------------------
(***************************************************************************)
(* The offline commands of cli.py together: simulate on an output          *)
(* directory, evaluate and open-holdout on an evaluation directory, each   *)
(* run by any of several processes, one command at a time per process.     *)
(***************************************************************************)
EXTENDS EvaluationDirectory, SimulationDirectory

CONSTANT MaxRuns  \* bound on the commands started

ASSUME CommandsAssumption ==
  /\ Simulators = Procs
  /\ MaxRuns \in Nat
  /\ Lengths \subseteq Nat
  /\ None \notin Nat /\ None \notin Evaluation /\ None \notin Receipt /\ None \notin Results
  /\ NoFile \notin Simulators

vars == <<evaluationVars, simVars>>

Init == EvaluationInit /\ SimulationInit

\* main() dispatches one command to a process that runs none.
Free(p) == pc[p] = "idle" /\ step[p] = "idle" /\ runs + simRuns < MaxRuns

EvaluationStep(p) ==
  \/ Free(p) /\ EvaluateStart(p)
  \/ \E overwrite \in BOOLEAN : EvaluatePanel(p, overwrite)
  \/ EvaluateUnlink(p) \/ EvaluateCompute(p) \/ EvaluateWrite(p)
  \/ Free(p) /\ HoldoutStart(p)
  \/ HoldoutCheck(p) \/ HoldoutReceipt(p) \/ HoldoutPanel(p) \/ HoldoutLook(p)
  \/ HoldoutResults(p) \/ HoldoutComplete(p)
  \/ Abort(p)

SimulationStep(p) ==
  \/ \E overwrite \in BOOLEAN : Free(p) /\ SimulateStart(p, overwrite)
  \/ SimulateUnlink(p) \/ Acquire(p) \/ OpenStore(p) \/ AppendEvents(p)
  \/ WriteReport(p) \/ WriteTrades(p) \/ SimAbort(p)

Next ==
  \/ \E p \in Procs : EvaluationStep(p) /\ UNCHANGED simVars
  \/ \E p \in Procs : SimulationStep(p) /\ UNCHANGED evaluationVars
  \/ (EditProtocol \/ FetchData) /\ UNCHANGED simVars

Spec == Init /\ [][Next]_vars

-----------------------------------------------------------------------------
\* Every file and every local variable has its type; a completed receipt
\* names its results, and exactly the runs between acquire and release hold
\* the lock.
ResearchTypeOK == EvaluationTypeOK /\ SimulationTypeOK

\* The bars that the locked holdout scored were read by no trial of the
\* evaluation whose candidates it used, start-offset robustness trials
\* included: neither a protocol edited between the two commands, nor crashes,
\* overwriting and overlapping commands, make it score under other windows than
\* those of the trials.  The conditions: the protocol was never edited while a
\* command was running, and both ran on data of the same length.
HoldoutUnseen ==
  results # None /\ ~ edited /\ results.bars = results.ledger.bars =>
    BarsScored(HoldoutSlice(Windows[results.used], results.bars))
      \cap BarsRead(Windows[results.ledger.used], results.ledger.bars, results.ledger.chosen) = {}

\* Holdout bars are scored only under a receipt, and, unless commands
\* overlapped, once in the life of the directory: neither a crash after the
\* receipt, a new evaluation with --overwrite, an edited protocol nor fetched
\* data opens it again.
OpenedOnce ==
  /\ looks > 0 => receipt # None
  /\ ~ disturbed => looks <= 1

\* A receipt that says "accepted" rests on one evaluation: unless commands
\* overlapped, the summary and the ledger it names are of the same run, that
\* run used the protocol of the receipt and passed its gate with enough folds,
\* and the results next to it were computed from that ledger under that protocol.
AcceptanceEarned ==
  receipt # None /\ receipt.accepted /\ ~ disturbed =>
    /\ receipt.summary = receipt.ledger
    /\ receipt.ledger.used = receipt.digest
    /\ receipt.summary.passed
    /\ Cardinality(receipt.ledger.chosen) >= MinFolds[receipt.digest]
    /\ results # None /\ results.run = receipt.results /\ results.used = receipt.digest
    /\ results.ledger = receipt.ledger /\ results.complete

\* Unless runs overlapped, a ledger holds the events of one run, and a report
\* next to it is of that run, whatever was killed or overwritten before.
LedgerOneRun ==
  ~ overlapped /\ ledger # NoFile =>
    /\ \E n \in 1 .. simRuns : events[ledger] \subseteq {n}
    /\ \A f \in ReportFiles : reports[f] # NoFile => events[ledger] = {reports[f]}

-----------------------------------------------------------------------------
(* Inductive strengthening *)

HoldoutOpened == {"h_panel", "h_look", "h_results", "h_complete"}

\* What the local variables of a command hold at each of its steps.
Locals(p) ==
  /\ pc[p] # "idle" /\ pc[p] # "h_complete" => job[p].used \in Protocols
  /\ pc[p] \in {"e_unlink", "e_compute"} => job[p].bars \in Lengths
  /\ pc[p] \in {"e_write", "h_results"} => job[p].made \in Evaluation
  /\ pc[p] \in HoldoutOpened \cup {"h_receipt"} => job[p].pre \in Evaluation
  /\ pc[p] \in HoldoutOpened => job[p].receipt \in Receipt /\ receipt # None
  /\ pc[p] \in {"h_look", "h_results"} => job[p].bars \in Lengths
  /\ pc[p] = "h_complete" => results # None

\* Every evaluation that anyone holds selected in folds of its own protocol and
\* data, and every result was computed from such an evaluation.
InFolds(e) == e.chosen \subseteq FoldStarts(Windows[e.used], e.bars)

FoldsInv ==
  /\ \A a \in ArtifactNames : files[a] # None => InFolds(files[a])
  /\ \A p \in Procs : job[p].made # None => InFolds(job[p].made)
  /\ results # None => InFolds(results.ledger)

\* A protocol that was never edited under a running command: every artifact that
\* is there is of one protocol, the recorded one, and a command works under the
\* protocol in the file.  Artifacts of another one are still to be unlinked by
\* every evaluation that has found them, and none is there when it computes.
AllUnder(q) == \A a \in ArtifactNames : files[a] # None => files[a].used = q

OneProtocol ==
  /\ \A a \in ArtifactNames : files[a] # None =>
       files[a].used = files[a].digest /\ AllUnder(files[a].used)
  /\ results # None => results.used = results.ledger.used

SameProtocol(p) ==
  /\ pc[p] # "idle" /\ pc[p] # "h_complete" => job[p].used = protocol
  /\ pc[p] = "e_unlink" =>
       \A i \in 1 .. Len(Artifacts) :
         files[Artifacts[i]] # None /\ files[Artifacts[i]].used # protocol => i \in job[p].todo
  /\ pc[p] \in {"e_compute", "e_write", "h_receipt", "h_panel", "h_look"} => AllUnder(protocol)
  /\ pc[p] = "e_write" => job[p].made.used = protocol /\ job[p].made.digest = protocol
  /\ pc[p] = "h_results" => job[p].made.used = protocol

UneditedInv == ~ edited => OneProtocol /\ \A p \in Procs : SameProtocol(p)

\* An evaluation under one protocol, whose gate was passed with enough folds.
Honest(e) ==
  e.used = e.digest /\ (e.passed => Cardinality(e.chosen) >= MinFolds[e.used])

\* Commands that never overlapped: the artifacts that are there are of one
\* honest evaluation, an evaluation writes into an emptied directory, and an
\* opened holdout works on what its receipt names.
Alone == \A p, q \in Procs : pc[p] # "idle" /\ pc[q] # "idle" => p = q

OneEvaluation ==
  \A a \in ArtifactNames : files[a] # None =>
    /\ Honest(files[a])
    /\ \A b \in ArtifactNames : files[b] # None => files[b] = files[a]

EvaluateAlone(p) ==
  /\ pc[p] \in {"e_panel", "e_unlink", "e_compute"} => job[p].used = protocol
  /\ pc[p] = "e_unlink" => Existing \subseteq job[p].todo
  /\ pc[p] = "e_compute" => Existing = {}
  /\ pc[p] = "e_write" => /\ Honest(job[p].made)
                          /\ \A a \in ArtifactNames : files[a] \in {None, job[p].made}

HoldoutAlone(p) ==
  /\ pc[p] = "h_check" => job[p].used = protocol
  /\ pc[p] \in HoldoutOpened \cup {"h_receipt"} => job[p].used = job[p].pre.digest
  /\ pc[p] \in {"h_receipt", "h_panel", "h_look"} =>
       looks = 0 /\ files["ledger"] = job[p].pre
  /\ pc[p] = "h_receipt" => receipt = None /\ files["summary"] = job[p].pre
  /\ pc[p] \in HoldoutOpened =>
       /\ receipt = job[p].receipt /\ ~ receipt.accepted
       /\ receipt.summary = job[p].pre /\ receipt.ledger = job[p].pre
       /\ receipt.digest = job[p].pre.digest /\ Honest(job[p].pre)
  /\ pc[p] = "h_results" => job[p].made = job[p].pre
  /\ pc[p] = "h_complete" =>
       /\ results.ledger = job[p].pre /\ results.used = job[p].pre.digest
       /\ job[p].accepted => job[p].pre.passed /\ results.complete

AloneInv ==
  ~ disturbed =>
    /\ Alone /\ OneEvaluation
    /\ \A p \in Procs : EvaluateAlone(p) /\ HoldoutAlone(p)

EvaluationInv ==
  /\ EvaluationTypeOK /\ FoldsInv /\ UneditedInv /\ AloneInv
  /\ \A p \in Procs : Locals(p)
  /\ OpenedOnce /\ AcceptanceEarned

\* Runs that never overlapped: a run takes the lock in an emptied directory
\* and is the only one to write there.
SimulateAlone(p) ==
  /\ step[p] = "s_unlink" => Present \subseteq sim[p].todo
  /\ step[p] \in {"s_lock", "s_open"} => Present = {}
  /\ step[p] \in {"s_append", "s_report", "s_trades"} => ledger = sim[p].file
  /\ step[p] \in {"s_unlink", "s_lock", "s_open", "s_append"} => events[sim[p].run] = {}
  /\ step[p] = "s_append" => \A f \in ReportFiles : reports[f] = NoFile
  /\ step[p] = "s_append" => sim[p].file = sim[p].run
  /\ step[p] \in {"s_report", "s_trades"} => events[sim[p].file] = {sim[p].run}

SimulationInv ==
  /\ SimulationTypeOK
  /\ \A p \in Simulators : step[p] # "idle" => sim[p].run \in 1 .. simRuns
  /\ ~ overlapped =>
       /\ \A p, q \in Simulators : step[p] # "idle" /\ step[q] # "idle" => p = q
       /\ \A p \in Simulators : SimulateAlone(p)
  /\ LedgerOneRun

IInv == EvaluationInv /\ SimulationInv /\ HoldoutUnseen
=============================================================================
