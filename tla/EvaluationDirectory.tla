------------------------ MODULE EvaluationDirectory ------------------------
(***************************************************************************)
(* The commands evaluate (run_walk_forward) and open-holdout               *)
(* (run_locked_holdout) on one evaluation directory.  Several processes    *)
(* may run them, and each may be killed between any two of its file        *)
(* operations; a researcher may edit the protocol or fetch data again.     *)
(* One asset stands for the panel.                                         *)
(***************************************************************************)
EXTENDS WalkForward, Sequences

CONSTANTS Procs,
          Protocols,  \* what the protocol file may contain
          Windows,    \* the windows and start offsets of each protocol
          MinFolds,   \* promotion_gates.minimum_folds_per_asset of each protocol
          Lengths,    \* how many bars a fetch may return
          None

ASSUME ProtocolsAssumption ==
  /\ Windows \in [Protocols -> WindowSettings]
  /\ MinFolds \in [Protocols -> Nat]

VARIABLES protocol,   \* the protocol file
          manifest,   \* the protocol that source_manifest.json names
          panel,      \* the number of bars of the fetched data
          files,      \* snapshot, ledger and summary of an evaluation
          receipt,    \* holdout_receipt.json
          results,    \* holdout_results.csv, _selections.csv and _summary.json
          pc, job,    \* the step of each process and its local variables
          runs,       \* history: how many commands were started
          looks,      \* history: how often holdout bars were scored
          disturbed,  \* history: a command started, or the protocol or the
                      \* data changed, while another command was running
          edited      \* history: the protocol changed while a command was running

inputVars == <<protocol, manifest, panel>>
dirVars == <<files, receipt, results>>
historyVars == <<looks, disturbed, edited>>
evaluationVars == <<inputVars, dirVars, pc, job, runs, historyVars>>

\* The artifacts in the order of run_walk_forward's outputs; the others are
\* handled like their neighbours and nothing reads them.
Artifacts == <<"snapshot", "ledger", "summary">>
ArtifactNames == {"snapshot", "ledger", "summary"}
NoFiles == [a \in ArtifactNames |-> None]

\* What the artifacts of an evaluation say: who wrote them, the protocol it
\* loaded, the digest it recorded, the bars and the folds with a selection,
\* and the promotion gate.
Evaluation == [run : Nat, used : Protocols, digest : Protocols, bars : Lengths,
               chosen : SUBSET Nat, passed : BOOLEAN]

\* A receipt names the artifacts it was opened on by their digests.
Receipt == [status : {"opened", "completed"}, digest : Protocols,
            summary : Evaluation, ledger : Evaluation, results : Nat \cup {None},
            accepted : BOOLEAN]

\* Holdout results: who wrote them, the protocol that open-holdout loaded, the
\* bars of the data, and the ledger that the candidates were taken from.
Results == [run : Nat, used : Protocols, bars : Lengths, ledger : Evaluation, complete : BOOLEAN,
            accepted : BOOLEAN]

\* The local variables of a command; todo is the part of Artifacts that it has
\* still to unlink or to write.
Jobs == [run : Nat, used : Protocols \cup {None}, bars : Lengths \cup {None},
         todo : SUBSET (1 .. Len(Artifacts)), made : Evaluation \cup {None},
         pre : Evaluation \cup {None}, receipt : Receipt \cup {None}, accepted : BOOLEAN]

NoJob == [run |-> 0, used |-> None, bars |-> None, todo |-> {},
          made |-> None, pre |-> None, receipt |-> None, accepted |-> FALSE]

Steps == {"idle", "e_panel", "e_unlink", "e_compute", "e_write",
          "h_check", "h_receipt", "h_panel", "h_look", "h_results", "h_complete"}

EvaluationTypeOK ==
  /\ protocol \in Protocols /\ manifest \in Protocols /\ panel \in Lengths
  /\ files \in [ArtifactNames -> Evaluation \cup {None}]
  /\ receipt \in Receipt \cup {None}
  /\ results \in Results \cup {None}
  /\ pc \in [Procs -> Steps] /\ job \in [Procs -> Jobs]
  /\ runs \in Nat /\ looks \in Nat /\ disturbed \in BOOLEAN /\ edited \in BOOLEAN
  /\ receipt # None /\ receipt.status = "completed" => receipt.results # None

EvaluationInit ==
  /\ protocol \in Protocols /\ manifest = protocol /\ panel \in Lengths
  /\ files = NoFiles /\ receipt = None /\ results = None
  /\ pc = [p \in Procs |-> "idle"]
  /\ job = [p \in Procs |-> NoJob]
  /\ runs = 0 /\ looks = 0 /\ disturbed = FALSE /\ edited = FALSE

Busy == \E p \in Procs : pc[p] # "idle"

\* A command begins with load_protocol: what it does from now on follows the
\* protocol that it has read.  The history notes whether another one is running.
Begin(p, step) ==
  /\ pc[p] = "idle"
  /\ pc' = [pc EXCEPT ![p] = step]
  /\ job' = [job EXCEPT ![p] = [NoJob EXCEPT !.run = runs + 1, !.used = protocol]]
  /\ runs' = runs + 1
  /\ disturbed' = (disturbed \/ Busy)
  /\ UNCHANGED <<inputVars, dirVars, looks, edited>>

\* The command returns, raises or is killed.
End(p) ==
  /\ pc' = [pc EXCEPT ![p] = "idle"]
  /\ job' = [job EXCEPT ![p] = NoJob]

Goto(p, step) == pc' = [pc EXCEPT ![p] = step]

-----------------------------------------------------------------------------
(* evaluate *)

Existing == {i \in 1 .. Len(Artifacts) : files[Artifacts[i]] # None}

\* The next one of todo, in the order of Artifacts.
First(p) == Min(job[p].todo)

\* run_walk_forward up to load_protocol.
EvaluateStart(p) == Begin(p, "e_panel")

\* Mutant: the old artifacts stay until they are written over.
MutEvaluatePanel(p, overwrite) ==
  /\ pc[p] = "e_panel"
  /\ IF manifest # protocol \/ (Existing # {} /\ ~ overwrite)
       THEN End(p)
       ELSE job' = [job EXCEPT ![p].bars = panel] /\ Goto(p, "e_compute")
  /\ UNCHANGED <<inputVars, dirVars, runs, historyVars>>

\* load_panel, which raises unless the manifest names the protocol file as it
\* is now, and the look for artifacts of an earlier evaluation, which raises
\* when there are any and --overwrite was not given.  The data are checked
\* against the manifest that was read, so both are of one fetch.
EvaluatePanel(p, overwrite) ==
  /\ pc[p] = "e_panel"
  /\ IF manifest # protocol \/ (Existing # {} /\ ~ overwrite)
       THEN End(p)
       ELSE /\ job' = [job EXCEPT ![p].bars = panel, ![p].todo = Existing]
            /\ Goto(p, IF Existing = {} THEN "e_compute" ELSE "e_unlink")
  /\ UNCHANGED <<inputVars, dirVars, runs, historyVars>>

\* path.unlink(), which raises when the file has gone.
EvaluateUnlink(p) ==
  /\ pc[p] = "e_unlink"
  /\ LET file == Artifacts[First(p)] IN
       IF files[file] = None
         THEN End(p) /\ UNCHANGED files
         ELSE /\ files' = [files EXCEPT ![file] = None]
              /\ job' = [job EXCEPT ![p].todo = @ \ {First(p)}]
              /\ Goto(p, IF job[p].todo = {First(p)} THEN "e_compute" ELSE "e_unlink")
  /\ UNCHANGED <<inputVars, receipt, results, runs, historyVars>>

\* _gate_summary: every asset needs enough folds with a selection; the other
\* checks are about what the trials measured.
GatePasses(used, chosen) == Cardinality(chosen) >= MinFolds[used]

\* The fold loop, the gate and the summary, under the protocol that was loaded;
\* the summary's digest is of the protocol file as it is at the end.  A
\* measurement may raise (see Abort).
EvaluateCompute(p) ==
  /\ pc[p] = "e_compute"
  /\ \E chosen \in SUBSET FoldStarts(Windows[job[p].used], job[p].bars), passed \in BOOLEAN :
       /\ passed => GatePasses(job[p].used, chosen)
       /\ \A t \in Trials(Windows[job[p].used], job[p].bars, chosen) : Valid(t, job[p].bars)
       /\ job' = [job EXCEPT
            ![p].made = [run |-> job[p].run, used |-> job[p].used, digest |-> protocol,
                         bars |-> job[p].bars, chosen |-> chosen, passed |-> passed],
            ![p].todo = 1 .. Len(Artifacts)]
  /\ Goto(p, "e_write")
  /\ UNCHANGED <<inputVars, dirVars, runs, historyVars>>

\* The artifacts are written one after the other.
EvaluateWrite(p) ==
  /\ pc[p] = "e_write"
  /\ files' = [files EXCEPT ![Artifacts[First(p)]] = job[p].made]
  /\ IF job[p].todo = {First(p)}
       THEN End(p)
       ELSE job' = [job EXCEPT ![p].todo = @ \ {First(p)}] /\ UNCHANGED pc
  /\ UNCHANGED <<inputVars, receipt, results, runs, historyVars>>

-----------------------------------------------------------------------------
(* open-holdout *)

\* run_locked_holdout up to load_protocol.
HoldoutStart(p) == Begin(p, "h_check")

\* Mutant: a holdout that did not complete may be tried again.
MutReopens(p) ==
  /\ pc[p] = "h_check"
  /\ IF /\ receipt # None => receipt.status = "opened"
        /\ \A a \in ArtifactNames : files[a] # None
        /\ files["summary"].digest = protocol
       THEN job' = [job EXCEPT ![p].pre = files["summary"]] /\ Goto(p, "h_receipt")
       ELSE End(p)
  /\ UNCHANGED <<inputVars, dirVars, runs, historyVars>>

\* Mutant: the summary may be of any protocol.
MutAnySummary(p) ==
  /\ pc[p] = "h_check"
  /\ IF receipt = None /\ \A a \in ArtifactNames : files[a] # None
       THEN job' = [job EXCEPT ![p].pre = files["summary"]] /\ Goto(p, "h_receipt")
       ELSE End(p)
  /\ UNCHANGED <<inputVars, dirVars, runs, historyVars>>

\* run_locked_holdout from the look for a receipt to the comparison of the
\* summary's digest with that of the protocol file as it is now, which need not
\* be the protocol that was loaded.  The confirmation names the protocol.
HoldoutCheck(p) ==
  /\ pc[p] = "h_check"
  /\ IF /\ receipt = None
        /\ \A a \in ArtifactNames : files[a] # None
        /\ files["summary"].digest = protocol
       THEN job' = [job EXCEPT ![p].pre = files["summary"]] /\ Goto(p, "h_receipt")
       ELSE End(p)
  /\ UNCHANGED <<inputVars, dirVars, runs, historyVars>>

\* The receipt is written over whatever is there.  Its digests are of the
\* files as they are now; a missing one raises.
HoldoutReceipt(p) ==
  /\ pc[p] = "h_receipt"
  /\ IF files["summary"] = None \/ files["ledger"] = None
       THEN End(p) /\ UNCHANGED receipt
       ELSE LET new == [status |-> "opened", digest |-> job[p].pre.digest,
                        summary |-> files["summary"], ledger |-> files["ledger"],
                        results |-> None, accepted |-> FALSE]
            IN  /\ receipt' = new
                /\ job' = [job EXCEPT ![p].receipt = new]
                /\ Goto(p, "h_panel")
  /\ UNCHANGED <<inputVars, files, results, runs, historyVars>>

\* load_panel, which raises unless the manifest names the protocol file.
HoldoutPanel(p) ==
  /\ pc[p] = "h_panel"
  /\ IF manifest # protocol
       THEN End(p)
       ELSE job' = [job EXCEPT ![p].bars = panel] /\ Goto(p, "h_look")
  /\ UNCHANGED <<inputVars, dirVars, runs, historyVars>>

\* Read the ledger, rank its candidates, and run the best one on the holdout.
\* Without an eligible candidate nothing is run.
HoldoutLook(p) ==
  /\ pc[p] = "h_look"
  /\ LET ledger == files["ledger"]
         slice == HoldoutSlice(Windows[job[p].used], job[p].bars)
     IN
       IF ledger = None \/ (ledger.chosen # {} /\ ~ Valid(slice, job[p].bars))
         THEN End(p) /\ UNCHANGED looks
         ELSE /\ job' = [job EXCEPT ![p].made = ledger]
              /\ looks' = IF ledger.chosen = {} THEN looks ELSE looks + 1
              /\ Goto(p, "h_results")
  /\ UNCHANGED <<inputVars, dirVars, runs, disturbed, edited>>

\* overall_research_acceptance
Accepts(pre, complete, passed) == pre.passed /\ complete /\ passed

\* The result files and the holdout's own gate: the asset must have been
\* run, the other checks are about what was measured.
HoldoutResults(p) ==
  /\ pc[p] = "h_results"
  /\ \E passed \in BOOLEAN :
       LET complete == job[p].made.chosen # {}
           accepted == Accepts(job[p].pre, complete, passed)
       IN  /\ results' = [run |-> job[p].run, used |-> job[p].used, bars |-> job[p].bars,
                          ledger |-> job[p].made, complete |-> complete, accepted |-> accepted]
           /\ job' = [job EXCEPT ![p].accepted = accepted]
  /\ Goto(p, "h_complete")
  /\ UNCHANGED <<inputVars, files, receipt, runs, historyVars>>

\* The process's own receipt is completed with the digests of the result files
\* as they are now and with its own verdict, and written again.
HoldoutComplete(p) ==
  /\ pc[p] = "h_complete"
  /\ receipt' = [job[p].receipt EXCEPT !.status = "completed", !.results = results.run,
                                       !.accepted = job[p].accepted]
  /\ End(p)
  /\ UNCHANGED <<inputVars, files, results, runs, historyVars>>

-----------------------------------------------------------------------------
(* The environment *)

\* A trial raises, the disk is full, or the process is killed.
Abort(p) ==
  /\ pc[p] # "idle"
  /\ End(p)
  /\ UNCHANGED <<inputVars, dirVars, runs, historyVars>>

\* The researcher changes the protocol file, windows and gates included; its
\* receipt_filename stays.
EditProtocol ==
  /\ protocol' \in Protocols \ {protocol}
  /\ disturbed' = (disturbed \/ Busy)
  /\ edited' = (edited \/ Busy)
  /\ UNCHANGED <<manifest, panel, dirVars, pc, job, runs, looks>>

\* scripts/fetch-evaluation-data.py fills the emptied data directory again.
FetchData ==
  /\ manifest' = protocol
  /\ panel' \in Lengths
  /\ disturbed' = (disturbed \/ Busy)
  /\ UNCHANGED <<protocol, dirVars, pc, job, runs, looks, edited>>
=============================================================================
