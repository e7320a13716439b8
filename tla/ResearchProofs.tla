--------------------------- MODULE ResearchProofs ---------------------------
(***************************************************************************)
(* Proofs about ResearchCommands, for any number of processes and runs and *)
(* any protocols, each with windows and offsets of its own: its types,     *)
(* that the holdout is not seen by the evaluation and is opened once, that *)
(* acceptance is earned, and that a ledger holds one run.                  *)
(***************************************************************************)
EXTENDS ResearchCommands, TLAPS

-----------------------------------------------------------------------------
(* The geometry of the folds *)

\* The windows of every protocol are positive integers, its offsets natural
\* numbers, and its fold gate is a natural number.
LEMMA ProtocolSettings ==
  /\ \A q \in Protocols : Windows[q] \in WindowSettings
  /\ \A q \in Protocols : MinFolds[q] \in Nat
  BY ProtocolsAssumption

\* The assumptions on the other constants that the proofs use.
LEMMA Constants ==
  /\ Lengths \subseteq Nat
  /\ Simulators = Procs /\ NoFile \notin Simulators
  /\ None \notin Nat /\ None \notin Evaluation /\ None \notin Receipt /\ None \notin Results
  BY CommandsAssumption

\* Numbers of bars are integers.
LEMMA LengthsInt == \A n \in Lengths : n \in Int
  BY CommandsAssumption

\* No trial of run_walk_forward reads a bar of the holdout of its own protocol.
LEMMA TrialsEnd ==
  ASSUME NEW w \in WindowSettings, NEW bars \in Int, NEW chosen \in SUBSET FoldStarts(w, bars),
         NEW t \in Trials(w, bars, chosen)
  PROVE  t.context \in Int /\ t.end \in Int /\ t.end <= PreHoldoutEnd(w, bars)
<1>0. /\ w.train \in Nat /\ w.validation \in Nat /\ w.test \in Nat /\ w.holdout \in Nat
      /\ w.offsets \subseteq Nat
  BY DEF WindowSettings
<1>1. CASE \E f \in FoldStarts(w, bars) : t = Validation(w, f)
  <2>1. PICK f \in FoldStarts(w, bars) : t = Validation(w, f)
    BY <1>1
  <2>2. f \in Int /\ f + w.train + w.validation + w.test <= PreHoldoutEnd(w, bars)
    BY <2>1 DEF FoldStarts
  <2> QED BY <2>1, <2>2, <1>0 DEF Validation, Slice, PreHoldoutEnd
<1>2. CASE \E f \in chosen : t = Testing(w, f)
  <2>1. PICK f \in chosen : t = Testing(w, f)
    BY <1>2
  <2>2. f \in Int /\ f + w.train + w.validation + w.test <= PreHoldoutEnd(w, bars)
    BY <2>1 DEF FoldStarts
  <2> QED BY <2>1, <2>2, <1>0 DEF Testing, Slice, PreHoldoutEnd
<1>3. CASE \E f \in chosen, n \in w.offsets :
             OffsetFits(w, f, n, bars) /\ t = Shifted(Testing(w, f), n)
  <2>1. PICK f \in chosen, n \in w.offsets :
          OffsetFits(w, f, n, bars) /\ t = Shifted(Testing(w, f), n)
    BY <1>3
  <2>2. f \in Int /\ n \in Int
    BY <2>1, <1>0 DEF FoldStarts
  <2> QED BY <2>1, <2>2, <1>0 DEF OffsetFits, Shifted, Testing, Slice, PreHoldoutEnd
<1> QED BY <1>1, <1>2, <1>3 DEF Trials

\* When the holdout is scored under the protocol of the trials, the bars that it
\* scores begin where those that the trials have read end.
LEMMA Unseen ==
  ASSUME EvaluationTypeOK, FoldsInv, UneditedInv
  PROVE  HoldoutUnseen
<1> DEFINE q == results.ledger.used
<1> DEFINE w == Windows[q]
<1> SUFFICES ASSUME results # None, ~ edited, results.bars = results.ledger.bars,
                    NEW b \in BarsScored(HoldoutSlice(Windows[results.used], results.bars)),
                    b \in BarsRead(w, results.bars, results.ledger.chosen)
             PROVE  FALSE
  BY DEF HoldoutUnseen
<1>1. results \in Results /\ results.ledger \in Evaluation
  BY DEF EvaluationTypeOK, Results
<1>2. results.used = q
  BY DEF UneditedInv, OneProtocol
<1>3. w \in WindowSettings
  BY <1>1, ProtocolSettings DEF Evaluation
<1>4. results.bars \in Int
  <2>1. results.bars \in Lengths
    BY <1>1 DEF Results
  <2> QED BY <2>1, LengthsInt
<1>5. results.ledger.chosen \in SUBSET FoldStarts(w, results.bars)
  BY DEF FoldsInv, InFolds
<1>6. b \in BarsScored(HoldoutSlice(w, results.bars))
  BY <1>2
<1> HIDE DEF w, q
<1>7. PICK t \in Trials(w, results.bars, results.ledger.chosen) : b \in t.context .. (t.end - 1)
  BY DEF BarsRead
<1>8. t.context \in Int /\ t.end \in Int /\ t.end <= PreHoldoutEnd(w, results.bars)
  BY <1>3, <1>4, <1>5, <1>7, TrialsEnd
<1>9. b \in PreHoldoutEnd(w, results.bars) .. (results.bars - 1)
  BY <1>6 DEF BarsScored, HoldoutSlice, Slice
<1>10. PreHoldoutEnd(w, results.bars) \in Int
  BY <1>3, <1>4 DEF PreHoldoutEnd, WindowSettings
<1> QED BY <1>4, <1>7, <1>8, <1>9, <1>10

-----------------------------------------------------------------------------
(* Commands on the evaluation directory *)

\* The initial local variables of a command.
LEMMA NoJobTyped == NoJob \in Jobs
  BY DEF NoJob, Jobs

\* A process that runs no command promises nothing.
LEMMA IdleAlone ==
  ASSUME NEW p \in Procs, pc[p] = "idle"
  PROVE  EvaluateAlone(p) /\ HoldoutAlone(p) /\ Locals(p) /\ SameProtocol(p)
  BY DEF EvaluateAlone, HoldoutAlone, Locals, SameProtocol, HoldoutOpened

\* A step of one process: what it has to establish for the invariant.
LEMMA Frame ==
  ASSUME EvaluationInv, NEW p \in Procs, NEW s \in Steps, NEW j \in Jobs,
         pc[p] # "idle",
         pc' = [pc EXCEPT ![p] = s], job' = [job EXCEPT ![p] = j],
         UNCHANGED <<protocol, manifest, panel, runs, disturbed, edited>>,
         files' \in [ArtifactNames -> Evaluation \cup {None}],
         receipt' \in Receipt \cup {None}, receipt # None => receipt' # None,
         receipt' # None /\ receipt'.status = "completed" => receipt'.results # None,
         results' \in Results \cup {None}, results # None => results' # None,
         looks' \in Nat,
         Locals(p)',
         \A a \in ArtifactNames : files'[a] # None => InFolds(files'[a]),
         j.made # None => InFolds(j.made),
         results' # None => InFolds(results'.ledger),
         ~ edited => OneProtocol' /\ SameProtocol(p)',
         ~ edited => \A a \in ArtifactNames : files'[a] # None =>
                       files'[a] = files[a] \/ files'[a].used = protocol,
         ~ disturbed => OneEvaluation' /\ EvaluateAlone(p)' /\ HoldoutAlone(p)',
         OpenedOnce', AcceptanceEarned'
  PROVE  EvaluationInv'
<1>1. EvaluationTypeOK /\ pc \in [Procs -> Steps] /\ job \in [Procs -> Jobs]
  BY DEF EvaluationInv, EvaluationTypeOK
<1>2. EvaluationTypeOK'
  BY <1>1 DEF EvaluationTypeOK
<1>3. \A q \in Procs : q # p => pc'[q] = pc[q] /\ job'[q] = job[q]
  BY <1>1
<1>4. pc'[p] = s /\ job'[p] = j
  BY <1>1
<1>5. FoldsInv'
  <2>1. \A q \in Procs : job'[q].made # None => InFolds(job'[q].made)
    BY <1>3, <1>4 DEF EvaluationInv, FoldsInv
  <2> QED BY <2>1 DEF FoldsInv, InFolds
<1>6. \A q \in Procs : Locals(q)'
  <2> SUFFICES ASSUME NEW q \in Procs, q # p PROVE Locals(q)'
    OBVIOUS
  <2>1. Locals(q)
    BY DEF EvaluationInv
  <2> QED BY <1>3, <2>1 DEF Locals
<1>7. AloneInv'
  <2> SUFFICES ASSUME ~ disturbed PROVE /\ Alone' /\ OneEvaluation'
                                        /\ \A q \in Procs : (EvaluateAlone(q) /\ HoldoutAlone(q))'
    BY DEF AloneInv
  <2>1. \A q \in Procs : q # p => pc'[q] = "idle"
    BY <1>3 DEF EvaluationInv, AloneInv, Alone
  <2>2. Alone'
    BY <2>1 DEF Alone
  <2>3. \A q \in Procs : q # p => (EvaluateAlone(q) /\ HoldoutAlone(q))'
    BY <2>1 DEF EvaluateAlone, HoldoutAlone, HoldoutOpened
  <2> QED BY <2>2, <2>3
<1>8. UneditedInv'
  <2> SUFFICES ASSUME ~ edited, NEW q \in Procs, q # p PROVE SameProtocol(q)'
    BY DEF UneditedInv
  <2>1. SameProtocol(q)
    BY DEF EvaluationInv, UneditedInv
  <2>2. AllUnder(protocol) => AllUnder(protocol)'
    BY DEF AllUnder
  <2>3. \A i \in 1 .. Len(Artifacts) :
          files'[Artifacts[i]] # None /\ files'[Artifacts[i]].used # protocol =>
            files[Artifacts[i]] # None /\ files[Artifacts[i]].used # protocol
    <3>1. \A i \in 1 .. Len(Artifacts) : Artifacts[i] \in ArtifactNames
      BY DEF Artifacts, ArtifactNames
    <3> QED BY <3>1
  <2> QED BY <1>3, <2>1, <2>2, <2>3 DEF SameProtocol, AllUnder
<1> QED BY <1>2, <1>5, <1>6, <1>7, <1>8 DEF EvaluationInv

\* A step that changes neither artifacts nor results keeps them of one protocol.
LEMMA OneProtocolKept ==
  ASSUME EvaluationInv, files' = files, results' = results
  PROVE  /\ ~ edited => OneProtocol'
         /\ \A a \in ArtifactNames : files'[a] # None =>
              files'[a] = files[a] \/ files'[a].used = protocol
  BY DEF EvaluationInv, UneditedInv, OneProtocol, AllUnder

\* What the invariant says about the fields of a process's job.
LEMMA JobTyped ==
  ASSUME EvaluationInv, NEW p \in Procs
  PROVE  /\ pc \in [Procs -> Steps] /\ job \in [Procs -> Jobs] /\ job[p] \in Jobs
         /\ job[p].made # None => InFolds(job[p].made)
         /\ Locals(p)
         /\ ~ edited => OneProtocol /\ SameProtocol(p)
         /\ ~ disturbed => OneEvaluation /\ EvaluateAlone(p) /\ HoldoutAlone(p)
  BY DEF EvaluationInv, EvaluationTypeOK, FoldsInv, UneditedInv, AloneInv

\* A command that returns, raises or is killed without another effect.
LEMMA EndInv ==
  ASSUME EvaluationInv, NEW p \in Procs, pc[p] # "idle", End(p),
         UNCHANGED <<inputVars, dirVars, runs, historyVars>>
  PROVE  EvaluationInv'
<1>1. UNCHANGED <<protocol, manifest, panel, files, receipt, results, runs, looks, disturbed, edited>>
  BY DEF inputVars, dirVars, historyVars
<1>2. pc' = [pc EXCEPT ![p] = "idle"] /\ job' = [job EXCEPT ![p] = NoJob]
  BY DEF End
<1>3. "idle" \in Steps /\ NoJob.made = None
  BY DEF Steps, NoJob
<1>4. pc'[p] = "idle"
  BY <1>2, JobTyped
<1>5. Locals(p)' /\ EvaluateAlone(p)' /\ HoldoutAlone(p)' /\ SameProtocol(p)'
  BY <1>4 DEF Locals, EvaluateAlone, HoldoutAlone, SameProtocol, HoldoutOpened
<1>6. /\ EvaluationTypeOK /\ FoldsInv /\ OpenedOnce /\ AcceptanceEarned
      /\ ~ disturbed => OneEvaluation
  BY DEF EvaluationInv, AloneInv
<1>7. OpenedOnce' /\ AcceptanceEarned' /\ (~ disturbed => OneEvaluation')
  BY <1>1, <1>6 DEF OpenedOnce, AcceptanceEarned, OneEvaluation, Honest
<1> QED BY <1>1, <1>2, <1>3, <1>5, <1>6, <1>7, NoJobTyped, OneProtocolKept, Frame
        DEF EvaluationTypeOK, FoldsInv

\* path.unlink() of run_walk_forward.
LEMMA UnlinkInv ==
  ASSUME EvaluationInv, NEW p \in Procs, EvaluateUnlink(p)
  PROVE  EvaluationInv'
<1> DEFINE file == Artifacts[First(p)]
<1>1. pc[p] = "e_unlink" /\ UNCHANGED <<inputVars, receipt, results, runs, historyVars>>
  BY DEF EvaluateUnlink
<1>2. CASE files[file] = None
  <2>1. End(p) /\ UNCHANGED files
    BY <1>2 DEF EvaluateUnlink
  <2> QED BY <1>1, <2>1, EndInv DEF dirVars
<1>3. CASE files[file] # None
  <2> DEFINE s == IF job[p].todo = {First(p)} THEN "e_compute" ELSE "e_unlink"
  <2> DEFINE j == [job[p] EXCEPT !.todo = @ \ {First(p)}]
  <2>1. /\ files' = [files EXCEPT ![file] = None]
        /\ job' = [job EXCEPT ![p] = j] /\ pc' = [pc EXCEPT ![p] = s]
    BY <1>3 DEF EvaluateUnlink, Goto
  <2>2. job[p] \in Jobs /\ Locals(p)
    BY JobTyped
  <2>3. j \in Jobs /\ s \in Steps /\ j.made = job[p].made
        /\ j.todo = job[p].todo \ {First(p)} /\ j.used = job[p].used /\ j.bars = job[p].bars
    BY <2>2 DEF Jobs, Steps
  <2>4. pc'[p] = s /\ job'[p] = j
    BY <2>1, JobTyped
  <2>5. UNCHANGED <<protocol, manifest, panel, receipt, results, runs, looks, disturbed, edited>>
    BY <1>1 DEF inputVars, historyVars
  <2> HIDE DEF s, j
  <2>6. files \in [ArtifactNames -> Evaluation \cup {None}] /\ FoldsInv
    BY DEF EvaluationInv, EvaluationTypeOK
  <2>7. /\ files' \in [ArtifactNames -> Evaluation \cup {None}]
        /\ \A a \in ArtifactNames : files'[a] = IF a = file THEN None ELSE files[a]
    BY <2>1, <2>6
  <2>8. Locals(p)'
    BY <1>1, <2>2, <2>3, <2>4, <2>5 DEF Locals, s, HoldoutOpened
  <2>9. OpenedOnce' /\ AcceptanceEarned'
    BY <2>5 DEF EvaluationInv, OpenedOnce, AcceptanceEarned
  <2>10. ASSUME ~ disturbed PROVE OneEvaluation' /\ EvaluateAlone(p)' /\ HoldoutAlone(p)'
    <3>1. OneEvaluation /\ EvaluateAlone(p)
      BY <2>10, JobTyped
    <3>2. OneEvaluation'
      BY <3>1, <2>7 DEF OneEvaluation, Honest
    <3>3. HoldoutAlone(p)'
      BY <2>4 DEF HoldoutAlone, HoldoutOpened, s
    <3>4. Existing' \subseteq job[p].todo \ {First(p)}
      BY <3>1, <1>1, <2>7 DEF EvaluateAlone, Existing, ArtifactNames, Artifacts
    <3>5. EvaluateAlone(p)'
      BY <3>1, <3>4, <1>1, <2>3, <2>4, <2>5 DEF EvaluateAlone, s
    <3> QED BY <3>2, <3>3, <3>5
  <2>11. /\ \A a \in ArtifactNames : files'[a] # None => InFolds(files'[a])
         /\ j.made # None => InFolds(j.made)
         /\ results' # None => InFolds(results'.ledger)
    BY <2>3, <2>5, <2>6, <2>7, JobTyped DEF FoldsInv
  <2>12. ASSUME ~ edited PROVE OneProtocol' /\ SameProtocol(p)'
    <3>1. OneProtocol /\ SameProtocol(p)
      BY <2>12, JobTyped
    <3>2. OneProtocol'
      BY <3>1, <2>5, <2>7 DEF OneProtocol, AllUnder
    <3>3. \A i \in 1 .. Len(Artifacts) :
            files'[Artifacts[i]] # None /\ files'[Artifacts[i]].used # protocol => i \in j.todo
      <4>1. \A i \in 1 .. Len(Artifacts) : Artifacts[i] \in ArtifactNames
        BY DEF Artifacts, ArtifactNames
      <4> QED BY <1>1, <2>3, <2>7, <3>1, <4>1 DEF SameProtocol
    <3>4. s = "e_compute" => AllUnder(protocol)'
      <4>1. \A a \in ArtifactNames : \E i \in 1 .. Len(Artifacts) : a = Artifacts[i]
        BY DEF Artifacts, ArtifactNames
      <4>2. s = "e_compute" => j.todo = {}
        BY <2>3 DEF s
      <4> QED BY <2>5, <3>3, <4>1, <4>2 DEF AllUnder
    <3>5. s \in {"e_compute", "e_unlink"} /\ j.used = protocol
      BY <1>1, <2>3, <3>1 DEF SameProtocol, s
    <3>6. SameProtocol(p)'
      BY <2>4, <2>5, <3>3, <3>4, <3>5 DEF SameProtocol, AllUnder
    <3> QED BY <3>2, <3>6
  <2> QED BY <1>1, <2>1, <2>3, <2>5, <2>7, <2>8, <2>9, <2>10, <2>11, <2>12, Frame
          DEF EvaluationInv, EvaluationTypeOK
<1> QED BY <1>2, <1>3

\* The fold loop and the summary of run_walk_forward.
LEMMA ComputeInv ==
  ASSUME EvaluationInv, NEW p \in Procs, EvaluateCompute(p)
  PROVE  EvaluationInv'
<1>1. pc[p] = "e_compute" /\ UNCHANGED <<inputVars, dirVars, runs, historyVars>>
  BY DEF EvaluateCompute
<1>2. PICK chosen \in SUBSET FoldStarts(Windows[job[p].used], job[p].bars), passed \in BOOLEAN :
        /\ passed => GatePasses(job[p].used, chosen)
        /\ job' = [job EXCEPT
             ![p].made = [run |-> job[p].run, used |-> job[p].used, digest |-> protocol,
                          bars |-> job[p].bars, chosen |-> chosen, passed |-> passed],
             ![p].todo = 1 .. Len(Artifacts)]
  BY DEF EvaluateCompute
<1> DEFINE e == [run |-> job[p].run, used |-> job[p].used, digest |-> protocol,
                 bars |-> job[p].bars, chosen |-> chosen, passed |-> passed]
<1> DEFINE j == [job[p] EXCEPT !.made = e, !.todo = 1 .. Len(Artifacts)]
<1>3. job[p] \in Jobs /\ Locals(p) /\ job \in [Procs -> Jobs]
  BY JobTyped
<1>4. job' = [job EXCEPT ![p] = j] /\ pc' = [pc EXCEPT ![p] = "e_write"]
  BY <1>2, <1>3 DEF EvaluateCompute, Goto
<1>5. e \in Evaluation /\ InFolds(e)
  <2>1. job[p].run \in Nat /\ job[p].used \in Protocols /\ job[p].bars \in Lengths
    BY <1>1, <1>3 DEF Jobs, Locals
  <2>2. chosen \in SUBSET Nat
    BY <1>2, <2>1, LengthsInt DEF FoldStarts
  <2>3. protocol \in Protocols
    BY DEF EvaluationInv, EvaluationTypeOK
  <2> QED BY <2>1, <2>2, <2>3, <1>2 DEF Evaluation, InFolds
<1>6. j \in Jobs /\ j.made = e /\ "e_write" \in Steps
  BY <1>3, <1>5 DEF Jobs, Steps
<1>7. pc'[p] = "e_write" /\ job'[p].made = e
  BY <1>4, <1>6, JobTyped
<1>8. UNCHANGED <<protocol, manifest, panel, files, receipt, results, runs, looks, disturbed, edited>>
  BY <1>1 DEF inputVars, dirVars, historyVars
<1>9. e.used = job[p].used /\ e.digest = protocol /\ e.chosen = chosen /\ e.passed = passed
  OBVIOUS
<1> HIDE DEF e, j
<1>10. Locals(p)'
  <2>1. job'[p].used \in Protocols
    BY <1>1, <1>2, <1>3 DEF Locals, Jobs
  <2> QED BY <1>5, <1>7, <2>1 DEF Locals, HoldoutOpened
<1>11. OpenedOnce' /\ AcceptanceEarned'
  BY <1>8 DEF EvaluationInv, OpenedOnce, AcceptanceEarned
<1>12. ASSUME ~ disturbed PROVE OneEvaluation' /\ EvaluateAlone(p)' /\ HoldoutAlone(p)'
  <2>1. OneEvaluation /\ EvaluateAlone(p)
    BY <1>12, JobTyped
  <2>2. OneEvaluation' /\ HoldoutAlone(p)'
    BY <1>7, <1>8, <2>1 DEF OneEvaluation, Honest, HoldoutAlone, HoldoutOpened
  <2>3. Honest(e)
    BY <1>1, <1>2, <1>9, <2>1 DEF EvaluateAlone, Honest, GatePasses
  <2>4. \A a \in ArtifactNames : files[a] = None
    BY <1>1, <2>1 DEF EvaluateAlone, Existing, ArtifactNames, Artifacts
  <2> QED BY <1>7, <1>8, <2>2, <2>3, <2>4 DEF EvaluateAlone, Honest
<1>13. ASSUME ~ edited PROVE SameProtocol(p)'
  <2>1. SameProtocol(p)
    BY <1>13, JobTyped
  <2>2. AllUnder(protocol) /\ job[p].used = protocol
    BY <1>1, <2>1 DEF SameProtocol
  <2>3. job'[p].used = protocol
    BY <1>2, <1>3, <1>8, <2>2 DEF Jobs
  <2> QED BY <1>7, <1>8, <1>9, <2>2, <2>3 DEF SameProtocol, AllUnder
<1> QED BY <1>1, <1>4, <1>5, <1>6, <1>8, <1>10, <1>11, <1>12, <1>13, OneProtocolKept, Frame
        DEF EvaluationInv, EvaluationTypeOK, FoldsInv

\* The writing of the artifacts by run_walk_forward.
LEMMA WriteInv ==
  ASSUME EvaluationInv, NEW p \in Procs, EvaluateWrite(p)
  PROVE  EvaluationInv'
<1> DEFINE file == Artifacts[First(p)]
<1> DEFINE e == job[p].made
<1> DEFINE last == job[p].todo = {First(p)}
<1> DEFINE s == IF last THEN "idle" ELSE "e_write"
<1> DEFINE j == IF last THEN NoJob ELSE [job[p] EXCEPT !.todo = @ \ {First(p)}]
<1>1. pc[p] = "e_write" /\ UNCHANGED <<inputVars, receipt, results, runs, historyVars>>
      /\ files' = [files EXCEPT ![file] = e]
  BY DEF EvaluateWrite
<1>2. job[p] \in Jobs /\ Locals(p) /\ job \in [Procs -> Jobs] /\ pc \in [Procs -> Steps]
  BY JobTyped
<1>3. job' = [job EXCEPT ![p] = j] /\ pc' = [pc EXCEPT ![p] = s]
  BY <1>1, <1>2 DEF EvaluateWrite, End
<1>4. e \in Evaluation /\ (e # None => InFolds(e))
  BY <1>1, <1>2, JobTyped DEF Locals
<1>5. j \in Jobs /\ s \in Steps /\ j.made \in {None, e} /\ (~ last => j.made = e)
  BY <1>2, NoJobTyped DEF Jobs, Steps, NoJob
<1>6. pc'[p] = s /\ job'[p] = j
  BY <1>2, <1>3
<1>7. UNCHANGED <<protocol, manifest, panel, receipt, results, runs, looks, disturbed, edited>>
  BY <1>1 DEF inputVars, historyVars
<1>8. files \in [ArtifactNames -> Evaluation \cup {None}] /\ FoldsInv
  BY DEF EvaluationInv, EvaluationTypeOK
<1>9. /\ files' \in [ArtifactNames -> Evaluation \cup {None}]
      /\ \A a \in ArtifactNames : files'[a] = IF a = file THEN e ELSE files[a]
  BY <1>1, <1>4, <1>8
<1> HIDE DEF e, j
<1>10. Locals(p)'
  <2>1. s \in {"idle", "e_write"} /\ (s = "e_write" => ~ last)
    OBVIOUS
  <2>2. ~ last => j.used \in Protocols
    BY <1>1, <1>2 DEF Locals, Jobs, j
  <2> HIDE DEF s, last
  <2> QED BY <1>4, <1>5, <1>6, <2>1, <2>2 DEF Locals, HoldoutOpened
<1>11. OpenedOnce' /\ AcceptanceEarned'
  BY <1>7 DEF EvaluationInv, OpenedOnce, AcceptanceEarned
<1>12. ASSUME ~ disturbed PROVE OneEvaluation' /\ EvaluateAlone(p)' /\ HoldoutAlone(p)'
  <2>1. Honest(e) /\ \A a \in ArtifactNames : files[a] \in {None, e}
    BY <1>1, <1>12, JobTyped DEF EvaluateAlone, e
  <2>2. \A a \in ArtifactNames : files'[a] \in {None, e}
    BY <2>1, <1>9
  <2>3. OneEvaluation'
    BY <2>1, <2>2 DEF OneEvaluation, Honest
  <2>4. EvaluateAlone(p)' /\ HoldoutAlone(p)'
    BY <1>5, <1>6, <2>1, <2>2 DEF EvaluateAlone, HoldoutAlone, HoldoutOpened, Honest
  <2> QED BY <2>3, <2>4
<1>13. /\ \A a \in ArtifactNames : files'[a] # None => InFolds(files'[a])
       /\ j.made # None => InFolds(j.made)
       /\ results' # None => InFolds(results'.ledger)
  BY <1>4, <1>5, <1>7, <1>8, <1>9 DEF FoldsInv
<1>14. ASSUME ~ edited
       PROVE  /\ OneProtocol' /\ SameProtocol(p)'
              /\ \A a \in ArtifactNames : files'[a] # None =>
                   files'[a] = files[a] \/ files'[a].used = protocol
  <2>1. OneProtocol /\ SameProtocol(p)
    BY <1>14, JobTyped
  <2>2. /\ AllUnder(protocol) /\ job[p].used = protocol
        /\ e.used = protocol /\ e.digest = protocol
    BY <1>1, <2>1 DEF SameProtocol, e
  <2>3. /\ \A a \in ArtifactNames : files'[a] # None => files'[a].used = protocol
        /\ \A a \in ArtifactNames : files'[a] # None => files'[a].used = files'[a].digest
    BY <1>9, <2>1, <2>2 DEF OneProtocol, AllUnder
  <2>4. OneProtocol'
    BY <1>7, <2>1, <2>3 DEF OneProtocol, AllUnder
  <2>5. s \in {"idle", "e_write"} /\ (s = "e_write" => j.used = protocol /\ j.made = e)
    BY <1>2, <2>2 DEF s, j, e, Jobs
  <2>6. SameProtocol(p)'
    BY <1>6, <1>7, <2>2, <2>3, <2>5 DEF SameProtocol, AllUnder
  <2> QED BY <2>3, <2>4, <2>6
<1> QED BY <1>1, <1>3, <1>5, <1>7, <1>9, <1>10, <1>11, <1>12, <1>13, <1>14, Frame
        DEF EvaluationInv, EvaluationTypeOK

\* The receipt of run_locked_holdout.
LEMMA ReceiptInv ==
  ASSUME EvaluationInv, NEW p \in Procs, HoldoutReceipt(p)
  PROVE  EvaluationInv'
<1>1. pc[p] = "h_receipt" /\ UNCHANGED <<inputVars, files, results, runs, historyVars>>
  BY DEF HoldoutReceipt
<1>2. CASE files["summary"] = None \/ files["ledger"] = None
  <2>1. End(p) /\ UNCHANGED receipt
    BY <1>2 DEF HoldoutReceipt
  <2> QED BY <1>1, <2>1, EndInv DEF dirVars
<1>3. CASE ~ (files["summary"] = None \/ files["ledger"] = None)
  <2> DEFINE new == [status |-> "opened", digest |-> job[p].pre.digest,
                     summary |-> files["summary"], ledger |-> files["ledger"],
                     results |-> None, accepted |-> FALSE]
  <2> DEFINE j == [job[p] EXCEPT !.receipt = new]
  <2>1. receipt' = new /\ job' = [job EXCEPT ![p] = j] /\ pc' = [pc EXCEPT ![p] = "h_panel"]
    BY <1>3 DEF HoldoutReceipt, Goto
  <2>2. job[p] \in Jobs /\ Locals(p) /\ job \in [Procs -> Jobs] /\ pc \in [Procs -> Steps]
    BY JobTyped
  <2>3. files \in [ArtifactNames -> Evaluation \cup {None}] /\ FoldsInv
    BY DEF EvaluationInv, EvaluationTypeOK
  <2>4. job[p].pre \in Evaluation
    BY <1>1, <2>2 DEF Locals
  <2>5. files["summary"] \in Evaluation /\ files["ledger"] \in Evaluation
    BY <1>3, <2>3 DEF ArtifactNames
  <2>6. new \in Receipt
    BY <2>4, <2>5 DEF Receipt, Evaluation
  <2>7. /\ j \in Jobs /\ "h_panel" \in Steps
        /\ j.made = job[p].made /\ j.pre = job[p].pre /\ j.receipt = new
        /\ j.used = job[p].used
    BY <2>2, <2>6 DEF Jobs, Steps
  <2>8. /\ new.status = "opened" /\ new.accepted = FALSE /\ new.summary = files["summary"]
        /\ new.ledger = files["ledger"] /\ new.digest = job[p].pre.digest
    OBVIOUS
  <2> HIDE DEF new, j
  <2>9. pc'[p] = "h_panel" /\ job'[p] = j /\ new # None
    BY <2>1, <2>2, <2>6, Constants
  <2>10. UNCHANGED <<protocol, manifest, panel, files, results, runs, looks, disturbed, edited>>
    BY <1>1 DEF inputVars, historyVars
  <2>11. Locals(p)'
    BY <1>1, <2>1, <2>2, <2>4, <2>6, <2>7, <2>9 DEF Locals, HoldoutOpened
  <2>12. OpenedOnce' /\ AcceptanceEarned'
    BY <2>1, <2>8, <2>9, <2>10 DEF EvaluationInv, OpenedOnce, AcceptanceEarned
  <2>13. ASSUME ~ disturbed PROVE OneEvaluation' /\ EvaluateAlone(p)' /\ HoldoutAlone(p)'
    <3>1. OneEvaluation /\ HoldoutAlone(p)
      BY <2>13, JobTyped
    <3>2. OneEvaluation' /\ EvaluateAlone(p)'
      BY <2>9, <2>10, <3>1 DEF OneEvaluation, Honest, EvaluateAlone
    <3>3. /\ looks = 0 /\ files["ledger"] = job[p].pre /\ files["summary"] = job[p].pre
          /\ Honest(job[p].pre) /\ job[p].used = job[p].pre.digest
      BY <1>1, <1>3, <3>1 DEF HoldoutAlone, OneEvaluation, ArtifactNames
    <3>4. HoldoutAlone(p)'
      BY <2>1, <2>7, <2>8, <2>9, <2>10, <3>3 DEF HoldoutAlone, HoldoutOpened, Honest
    <3> QED BY <3>2, <3>4
  <2>14. ASSUME ~ edited PROVE SameProtocol(p)'
    BY <1>1, <2>7, <2>9, <2>10, <2>14, JobTyped DEF SameProtocol, AllUnder
  <2> QED BY <1>1, <2>1, <2>3, <2>6, <2>7, <2>8, <2>9, <2>10, <2>11, <2>12, <2>13, <2>14, JobTyped,
             OneProtocolKept, Frame
          DEF EvaluationInv, EvaluationTypeOK, FoldsInv
<1> QED BY <1>2, <1>3

\* load_panel in run_locked_holdout.
LEMMA PanelInv ==
  ASSUME EvaluationInv, NEW p \in Procs, HoldoutPanel(p)
  PROVE  EvaluationInv'
<1>1. pc[p] = "h_panel" /\ UNCHANGED <<inputVars, dirVars, runs, historyVars>>
  BY DEF HoldoutPanel
<1>2. CASE manifest # protocol
  BY <1>1, <1>2, EndInv DEF HoldoutPanel
<1>3. CASE manifest = protocol
  <2> DEFINE j == [job[p] EXCEPT !.bars = panel]
  <2>1. job' = [job EXCEPT ![p] = j] /\ pc' = [pc EXCEPT ![p] = "h_look"]
    BY <1>3 DEF HoldoutPanel, Goto
  <2>2. job[p] \in Jobs /\ Locals(p) /\ job \in [Procs -> Jobs] /\ pc \in [Procs -> Steps]
    BY JobTyped
  <2>3. panel \in Lengths
    BY DEF EvaluationInv, EvaluationTypeOK
  <2>4. /\ j \in Jobs /\ "h_look" \in Steps /\ j.bars = panel /\ j.used = job[p].used
        /\ j.made = job[p].made /\ j.pre = job[p].pre /\ j.receipt = job[p].receipt
    BY <2>2, <2>3 DEF Jobs, Steps
  <2> HIDE DEF j
  <2>5. pc'[p] = "h_look" /\ job'[p] = j
    BY <2>1, <2>2
  <2>6. UNCHANGED <<protocol, manifest, panel, files, receipt, results, runs, looks, disturbed, edited>>
    BY <1>1 DEF inputVars, dirVars, historyVars
  <2>7. Locals(p)'
    BY <1>1, <2>2, <2>3, <2>4, <2>5, <2>6 DEF Locals, HoldoutOpened
  <2>8. OpenedOnce' /\ AcceptanceEarned'
    BY <2>6 DEF EvaluationInv, OpenedOnce, AcceptanceEarned
  <2>9. ASSUME ~ disturbed PROVE OneEvaluation' /\ EvaluateAlone(p)' /\ HoldoutAlone(p)'
    <3>1. OneEvaluation /\ HoldoutAlone(p)
      BY <2>9, JobTyped
    <3>2. OneEvaluation' /\ EvaluateAlone(p)'
      BY <2>5, <2>6, <3>1 DEF OneEvaluation, Honest, EvaluateAlone
    <3>3. HoldoutAlone(p)'
      BY <1>1, <2>4, <2>5, <2>6, <3>1 DEF HoldoutAlone, HoldoutOpened, Honest
    <3> QED BY <3>2, <3>3
  <2>10. ASSUME ~ edited PROVE SameProtocol(p)'
    BY <1>1, <2>4, <2>5, <2>6, <2>10, JobTyped DEF SameProtocol, AllUnder
  <2> QED BY <1>1, <2>1, <2>4, <2>6, <2>7, <2>8, <2>9, <2>10, JobTyped, OneProtocolKept, Frame
          DEF EvaluationInv, EvaluationTypeOK, FoldsInv
<1> QED BY <1>2, <1>3

\* The runs of run_locked_holdout on the locked bars.
LEMMA LookInv ==
  ASSUME EvaluationInv, NEW p \in Procs, HoldoutLook(p)
  PROVE  EvaluationInv'
<1> DEFINE e == files["ledger"]
<1> DEFINE slice == HoldoutSlice(Windows[job[p].used], job[p].bars)
<1> DEFINE raises == e = None \/ (e.chosen # {} /\ ~ Valid(slice, job[p].bars))
<1>1. pc[p] = "h_look" /\ UNCHANGED <<inputVars, dirVars, runs, disturbed, edited>>
  BY DEF HoldoutLook
<1>2. CASE raises
  <2>1. End(p) /\ UNCHANGED looks
    BY <1>2 DEF HoldoutLook
  <2> QED BY <1>1, <2>1, EndInv DEF historyVars
<1>3. CASE ~ raises
  <2> DEFINE j == [job[p] EXCEPT !.made = e]
  <2>1. job' = [job EXCEPT ![p] = j] /\ pc' = [pc EXCEPT ![p] = "h_results"]
        /\ looks' = IF e.chosen = {} THEN looks ELSE looks + 1
    BY <1>3 DEF HoldoutLook, Goto
  <2>2. job[p] \in Jobs /\ Locals(p) /\ job \in [Procs -> Jobs] /\ pc \in [Procs -> Steps]
    BY JobTyped
  <2>3. /\ files \in [ArtifactNames -> Evaluation \cup {None}] /\ looks \in Nat
        /\ FoldsInv /\ OpenedOnce /\ AcceptanceEarned
    BY DEF EvaluationInv, EvaluationTypeOK
  <2>4. e \in Evaluation /\ InFolds(e)
    BY <1>3, <2>3 DEF ArtifactNames, FoldsInv
  <2>5. looks' \in Nat /\ looks' <= looks + 1
    BY <2>1, <2>3
  <2>6. /\ j \in Jobs /\ "h_results" \in Steps /\ j.made = e /\ j.used = job[p].used
        /\ j.bars = job[p].bars /\ j.pre = job[p].pre /\ j.receipt = job[p].receipt
    BY <2>2, <2>4 DEF Jobs, Steps
  <2> HIDE DEF j
  <2>7. pc'[p] = "h_results" /\ job'[p] = j
    BY <2>1, <2>2
  <2>8. UNCHANGED <<protocol, manifest, panel, files, receipt, results, runs, disturbed, edited>>
    BY <1>1 DEF inputVars, dirVars
  <2>9. Locals(p)'
    BY <1>1, <2>2, <2>4, <2>6, <2>7, <2>8 DEF Locals, HoldoutOpened
  <2>10. receipt # None
    BY <1>1, <2>2 DEF Locals, HoldoutOpened
  <2>11. ASSUME ~ disturbed PROVE looks = 0 /\ e = job[p].pre
    BY <1>1, <2>11, JobTyped DEF HoldoutAlone
  <2>12. OpenedOnce' /\ AcceptanceEarned'
    <3>1. OpenedOnce'
      BY <2>5, <2>8, <2>10, <2>11 DEF OpenedOnce
    <3> QED BY <3>1, <2>3, <2>8 DEF AcceptanceEarned
  <2>13. ASSUME ~ disturbed PROVE OneEvaluation' /\ EvaluateAlone(p)' /\ HoldoutAlone(p)'
    <3>1. OneEvaluation /\ HoldoutAlone(p)
      BY <2>13, JobTyped
    <3>2. OneEvaluation' /\ EvaluateAlone(p)'
      BY <2>7, <2>8, <3>1 DEF OneEvaluation, Honest, EvaluateAlone
    <3>3. HoldoutAlone(p)'
      BY <1>1, <2>6, <2>7, <2>8, <2>11, <2>13, <3>1 DEF HoldoutAlone, HoldoutOpened, Honest
    <3> QED BY <3>2, <3>3
  <2>14. ASSUME ~ edited PROVE SameProtocol(p)'
    <3>1. job[p].used = protocol /\ AllUnder(protocol)
      BY <1>1, <2>14, JobTyped DEF SameProtocol
    <3>2. e.used = protocol
      BY <1>3, <3>1 DEF AllUnder, ArtifactNames
    <3> QED BY <2>6, <2>7, <2>8, <3>1, <3>2 DEF SameProtocol
  <2> QED BY <1>1, <2>1, <2>4, <2>5, <2>6, <2>8, <2>9, <2>12, <2>13, <2>14, OneProtocolKept, Frame
          DEF EvaluationInv, EvaluationTypeOK, FoldsInv
<1> QED BY <1>2, <1>3

\* The result files of run_locked_holdout.
LEMMA ResultsInv ==
  ASSUME EvaluationInv, NEW p \in Procs, HoldoutResults(p)
  PROVE  EvaluationInv'
<1> DEFINE complete == job[p].made.chosen # {}
<1>1. pc[p] = "h_results" /\ UNCHANGED <<inputVars, files, receipt, runs, historyVars>>
  BY DEF HoldoutResults
<1>2. PICK accepted \in BOOLEAN :
        /\ accepted => job[p].pre.passed /\ complete
        /\ results' = [run |-> job[p].run, used |-> job[p].used, bars |-> job[p].bars,
                       ledger |-> job[p].made, complete |-> complete, accepted |-> accepted]
        /\ job' = [job EXCEPT ![p].accepted = accepted]
  <2>1. job[p].pre \in Evaluation
    BY <1>1, JobTyped DEF Locals, HoldoutOpened
  <2>2. job[p].pre.passed \in BOOLEAN
    BY <2>1 DEF Evaluation
  <2>3. \A passed \in BOOLEAN : Accepts(job[p].pre, complete, passed) \in BOOLEAN
    BY <2>2 DEF Accepts
  <2> QED BY <2>3 DEF HoldoutResults, Accepts
<1> DEFINE new == [run |-> job[p].run, used |-> job[p].used, bars |-> job[p].bars,
                   ledger |-> job[p].made, complete |-> complete, accepted |-> accepted]
<1> DEFINE j == [job[p] EXCEPT !.accepted = accepted]
<1>3. job' = [job EXCEPT ![p] = j] /\ pc' = [pc EXCEPT ![p] = "h_complete"]
  BY <1>2 DEF HoldoutResults, Goto
<1>4. job[p] \in Jobs /\ Locals(p) /\ job \in [Procs -> Jobs] /\ pc \in [Procs -> Steps]
  BY JobTyped
<1>5. /\ job[p].made \in Evaluation /\ job[p].bars \in Lengths /\ job[p].run \in Nat
      /\ job[p].used \in Protocols
  BY <1>1, <1>4 DEF Locals, Jobs
<1>6. /\ new \in Results /\ new.ledger = job[p].made /\ new.complete = complete
      /\ new.used = job[p].used
  BY <1>2, <1>5 DEF Results
<1>7. /\ j \in Jobs /\ "h_complete" \in Steps /\ j.accepted = accepted
      /\ j.made = job[p].made /\ j.pre = job[p].pre /\ j.receipt = job[p].receipt
      /\ j.used = job[p].used
  BY <1>2, <1>4 DEF Jobs, Steps
<1>8. InFolds(job[p].made)
  BY <1>5, JobTyped, Constants
<1>9. results' = new
  BY <1>2
<1> HIDE DEF new, j, complete
<1>10. pc'[p] = "h_complete" /\ job'[p] = j /\ new # None
  BY <1>3, <1>4, <1>6, Constants
<1>11. UNCHANGED <<protocol, manifest, panel, files, receipt, runs, looks, disturbed, edited>>
  BY <1>1 DEF inputVars, historyVars
<1>12. Locals(p)'
  BY <1>1, <1>4, <1>7, <1>9, <1>10, <1>11 DEF Locals, HoldoutOpened
<1>13. ASSUME ~ disturbed PROVE OneEvaluation' /\ EvaluateAlone(p)' /\ HoldoutAlone(p)'
  <2>1. OneEvaluation /\ HoldoutAlone(p)
    BY <1>13, JobTyped
  <2>2. OneEvaluation' /\ EvaluateAlone(p)'
    BY <1>10, <1>11, <2>1 DEF OneEvaluation, Honest, EvaluateAlone
  <2>3. HoldoutAlone(p)'
    BY <1>1, <1>2, <1>6, <1>7, <1>9, <1>10, <1>11, <2>1 DEF HoldoutAlone, HoldoutOpened, Honest
  <2> QED BY <2>2, <2>3
<1>14. OpenedOnce' /\ AcceptanceEarned'
  <2>1. ~ disturbed => ~ receipt.accepted
    BY <1>1, JobTyped DEF HoldoutAlone, HoldoutOpened
  <2> QED BY <2>1, <1>11 DEF EvaluationInv, OpenedOnce, AcceptanceEarned
<1>15. ASSUME ~ edited PROVE OneProtocol' /\ SameProtocol(p)'
  <2>1. OneProtocol /\ SameProtocol(p)
    BY <1>15, JobTyped
  <2>2. new.used = protocol /\ new.ledger.used = protocol
    BY <1>1, <1>6, <2>1 DEF SameProtocol
  <2>3. OneProtocol'
    BY <1>9, <1>11, <2>1, <2>2 DEF OneProtocol, AllUnder
  <2> QED BY <1>10, <2>3 DEF SameProtocol
<1> QED BY <1>1, <1>3, <1>6, <1>7, <1>8, <1>9, <1>10, <1>11, <1>12, <1>13, <1>14, <1>15, Frame
        DEF EvaluationInv, EvaluationTypeOK, FoldsInv

\* The completed receipt of run_locked_holdout.
LEMMA CompleteInv ==
  ASSUME EvaluationInv, NEW p \in Procs, HoldoutComplete(p)
  PROVE  EvaluationInv'
<1> DEFINE new == [job[p].receipt EXCEPT !.status = "completed", !.results = results.run,
                                         !.accepted = job[p].accepted]
<1>1. /\ pc[p] = "h_complete" /\ UNCHANGED <<inputVars, files, results, runs, historyVars>>
      /\ receipt' = new /\ End(p)
  BY DEF HoldoutComplete
<1>2. job[p] \in Jobs /\ Locals(p) /\ job \in [Procs -> Jobs] /\ pc \in [Procs -> Steps]
  BY JobTyped
<1>3. job[p].receipt \in Receipt /\ results # None /\ job[p].accepted \in BOOLEAN
  BY <1>1, <1>2 DEF Locals, HoldoutOpened, Jobs
<1>4. results \in Results
  BY <1>3 DEF EvaluationInv, EvaluationTypeOK
<1>5. results.run \in Nat
  BY <1>4 DEF Results
<1>6. /\ new \in Receipt /\ new.results = results.run /\ new.accepted = job[p].accepted
      /\ new.summary = job[p].receipt.summary /\ new.ledger = job[p].receipt.ledger
      /\ new.digest = job[p].receipt.digest
  BY <1>3, <1>5 DEF Receipt
<1> HIDE DEF new
<1>7. new # None /\ new.results # None
  BY <1>5, <1>6, Constants
<1>8. UNCHANGED <<protocol, manifest, panel, files, results, runs, looks, disturbed, edited>>
  BY <1>1 DEF inputVars, historyVars
<1>9. /\ pc' = [pc EXCEPT ![p] = "idle"] /\ job' = [job EXCEPT ![p] = NoJob]
      /\ "idle" \in Steps /\ NoJob.made = None
  BY <1>1 DEF End, Steps, NoJob
<1>10. pc'[p] = "idle"
  BY <1>2, <1>9
<1>11. Locals(p)' /\ EvaluateAlone(p)' /\ HoldoutAlone(p)' /\ SameProtocol(p)'
  BY <1>10 DEF Locals, EvaluateAlone, HoldoutAlone, SameProtocol, HoldoutOpened
<1>12. OpenedOnce'
  BY <1>1, <1>7, <1>8 DEF EvaluationInv, OpenedOnce
<1>13. AcceptanceEarned'
  <2> SUFFICES ASSUME new.accepted, ~ disturbed
               PROVE  /\ new.summary = new.ledger /\ new.ledger.used = new.digest
                      /\ new.summary.passed
                      /\ Cardinality(new.ledger.chosen) >= MinFolds[new.digest]
                      /\ results.run = new.results /\ results.used = new.digest
                      /\ results.ledger = new.ledger /\ results.complete
    BY <1>1, <1>3, <1>8 DEF AcceptanceEarned
  <2>1. HoldoutAlone(p)
    BY JobTyped
  <2> QED BY <1>1, <1>6, <2>1 DEF HoldoutAlone, HoldoutOpened, Honest
<1>14. ~ disturbed => OneEvaluation'
  BY <1>8, JobTyped DEF OneEvaluation, Honest
<1> QED BY <1>1, <1>6, <1>7, <1>8, <1>9, <1>11, <1>12, <1>13, <1>14, NoJobTyped,
           OneProtocolKept, Frame
        DEF EvaluationInv, EvaluationTypeOK, FoldsInv

\* The first step of a command, which loads the protocol.
LEMMA BeginInv ==
  ASSUME EvaluationInv, NEW p \in Procs, NEW s \in {"e_panel", "h_check"}, Begin(p, s)
  PROVE  EvaluationInv'
<1> DEFINE j == [NoJob EXCEPT !.run = runs + 1, !.used = protocol]
<1>1. /\ pc[p] = "idle" /\ pc' = [pc EXCEPT ![p] = s] /\ job' = [job EXCEPT ![p] = j]
      /\ runs' = runs + 1 /\ disturbed' = (disturbed \/ Busy)
      /\ UNCHANGED <<protocol, manifest, panel, files, receipt, results, looks, edited>>
  BY DEF Begin, inputVars, dirVars
<1>2. EvaluationTypeOK /\ pc \in [Procs -> Steps] /\ job \in [Procs -> Jobs] /\ runs \in Nat
      /\ disturbed \in BOOLEAN /\ protocol \in Protocols
  BY DEF EvaluationInv, EvaluationTypeOK
<1>3. j \in Jobs /\ j.made = None /\ j.used = protocol
  <2>1. [NoJob EXCEPT !.run = runs + 1] \in Jobs
    <3>1. runs + 1 \in Nat
      BY <1>2
    <3> QED BY <3>1, NoJobTyped DEF Jobs
  <2>2. j \in Jobs
    BY <1>2, <2>1 DEF Jobs
  <2>3. j.made = NoJob.made /\ j.used = protocol
    BY NoJobTyped DEF Jobs
  <2> HIDE DEF j
  <2> QED BY <2>2, <2>3 DEF NoJob
<1> HIDE DEF j
<1>4. EvaluationTypeOK'
  <2>1. disturbed' \in BOOLEAN
    BY <1>1, <1>2, Zenon DEF Busy
  <2>2. s \in Steps
    BY DEF Steps
  <2>3. runs' \in Nat /\ pc' \in [Procs -> Steps] /\ job' \in [Procs -> Jobs]
    BY <1>1, <1>2, <1>3, <2>2
  <2> QED BY <1>1, <1>2, <2>1, <2>3 DEF EvaluationTypeOK
<1>5. \A q \in Procs : q # p => pc'[q] = pc[q] /\ job'[q] = job[q]
  BY <1>1, <1>2
<1>6. pc'[p] = s /\ job'[p] = j
  BY <1>1, <1>2
<1>7. FoldsInv'
  <2>1. \A q \in Procs : job'[q].made # None => InFolds(job'[q].made)
    BY <1>3, <1>5, <1>6 DEF EvaluationInv, FoldsInv
  <2> QED BY <1>1, <2>1 DEF EvaluationInv, FoldsInv, InFolds
<1>8. \A q \in Procs : Locals(q)'
  <2>1. Locals(p)'
    BY <1>2, <1>3, <1>6 DEF Locals, HoldoutOpened
  <2> SUFFICES ASSUME NEW q \in Procs, q # p PROVE Locals(q)'
    BY <2>1
  <2>2. Locals(q)
    BY DEF EvaluationInv
  <2> QED BY <1>1, <1>5, <2>2 DEF Locals
<1>9. AloneInv'
  <2> SUFFICES ASSUME ~ disturbed' PROVE /\ Alone' /\ OneEvaluation'
                                         /\ \A q \in Procs : (EvaluateAlone(q) /\ HoldoutAlone(q))'
    BY DEF AloneInv
  <2>1. ~ disturbed /\ ~ Busy
    BY <1>1
  <2>2. \A q \in Procs : q # p => pc'[q] = "idle"
    BY <1>5, <2>1 DEF Busy
  <2>3. Alone'
    BY <2>2 DEF Alone
  <2>4. OneEvaluation'
    BY <1>1, <2>1 DEF EvaluationInv, AloneInv, OneEvaluation, Honest
  <2>5. \A q \in Procs : q # p => (EvaluateAlone(q) /\ HoldoutAlone(q))'
    BY <2>2 DEF EvaluateAlone, HoldoutAlone, HoldoutOpened
  <2>6. (EvaluateAlone(p) /\ HoldoutAlone(p))'
    BY <1>1, <1>3, <1>6 DEF EvaluateAlone, HoldoutAlone, HoldoutOpened
  <2> QED BY <2>3, <2>4, <2>5, <2>6
<1>10. UneditedInv'
  <2> SUFFICES ASSUME ~ edited PROVE OneProtocol' /\ \A q \in Procs : SameProtocol(q)'
    BY <1>1 DEF UneditedInv
  <2>1. OneProtocol /\ \A q \in Procs : SameProtocol(q)
    BY DEF EvaluationInv, UneditedInv
  <2>2. OneProtocol'
    BY <1>1, <2>1 DEF OneProtocol, AllUnder
  <2>3. SameProtocol(p)'
    BY <1>1, <1>3, <1>6 DEF SameProtocol
  <2>4. \A q \in Procs : q # p => SameProtocol(q)'
    BY <1>1, <1>5, <2>1 DEF SameProtocol, AllUnder
  <2> QED BY <2>2, <2>3, <2>4
<1>11. OpenedOnce' /\ AcceptanceEarned'
  BY <1>1 DEF EvaluationInv, OpenedOnce, AcceptanceEarned
<1> QED BY <1>4, <1>7, <1>8, <1>9, <1>10, <1>11 DEF EvaluationInv

\* load_panel in run_walk_forward, and its look for earlier artifacts.
LEMMA EvaluatePanelInv ==
  ASSUME EvaluationInv, NEW p \in Procs, NEW overwrite \in BOOLEAN, EvaluatePanel(p, overwrite)
  PROVE  EvaluationInv'
<1> DEFINE refused == manifest # protocol \/ (Existing # {} /\ ~ overwrite)
<1>1. pc[p] = "e_panel" /\ UNCHANGED <<inputVars, dirVars, runs, historyVars>>
  BY DEF EvaluatePanel
<1>2. CASE refused
  BY <1>1, <1>2, EndInv DEF EvaluatePanel
<1>3. CASE ~ refused
  <2> DEFINE s == IF Existing = {} THEN "e_compute" ELSE "e_unlink"
  <2> DEFINE j == [job[p] EXCEPT !.bars = panel, !.todo = Existing]
  <2>1. job[p] \in Jobs /\ Locals(p) /\ job \in [Procs -> Jobs] /\ pc \in [Procs -> Steps]
    BY JobTyped
  <2>2. job' = [job EXCEPT ![p] = j] /\ pc' = [pc EXCEPT ![p] = s]
    BY <1>3, <2>1 DEF EvaluatePanel, Goto
  <2>3. panel \in Lengths /\ Existing \in SUBSET (1 .. Len(Artifacts))
    BY DEF EvaluationInv, EvaluationTypeOK, Existing
  <2>4. /\ j \in Jobs /\ s \in Steps /\ j.bars = panel /\ j.todo = Existing
        /\ j.used = job[p].used /\ j.made = job[p].made
    BY <2>1, <2>3 DEF Jobs, Steps
  <2>5. s \in {"e_compute", "e_unlink"} /\ (s = "e_compute" => Existing = {})
    OBVIOUS
  <2> HIDE DEF s, j
  <2>6. pc'[p] = s /\ job'[p] = j
    BY <2>1, <2>2
  <2>7. UNCHANGED <<protocol, manifest, panel, files, receipt, results, runs, looks, disturbed, edited>>
    BY <1>1 DEF inputVars, dirVars, historyVars
  <2>8. Locals(p)'
    BY <1>1, <2>1, <2>3, <2>4, <2>5, <2>6, <2>7 DEF Locals, HoldoutOpened
  <2>9. OpenedOnce' /\ AcceptanceEarned'
    BY <2>7 DEF EvaluationInv, OpenedOnce, AcceptanceEarned
  <2>10. Existing' = Existing
    BY <2>7 DEF Existing
  <2>11. ASSUME ~ disturbed PROVE OneEvaluation' /\ EvaluateAlone(p)' /\ HoldoutAlone(p)'
    <3>1. OneEvaluation /\ EvaluateAlone(p)
      BY <2>11, JobTyped
    <3>2. OneEvaluation' /\ HoldoutAlone(p)'
      BY <2>5, <2>6, <2>7, <3>1 DEF OneEvaluation, Honest, HoldoutAlone, HoldoutOpened
    <3>3. EvaluateAlone(p)'
      BY <1>1, <2>4, <2>5, <2>6, <2>7, <2>10, <3>1 DEF EvaluateAlone
    <3> QED BY <3>2, <3>3
  <2>12. ASSUME ~ edited PROVE SameProtocol(p)'
    <3>1. j.used = protocol
      BY <1>1, <2>4, <2>12, JobTyped DEF SameProtocol
    <3>2. \A i \in 1 .. Len(Artifacts) : files[Artifacts[i]] # None => i \in j.todo
      BY <2>4 DEF Existing
    <3>3. s = "e_compute" => AllUnder(protocol)
      <4>1. \A a \in ArtifactNames : \E i \in 1 .. Len(Artifacts) : a = Artifacts[i]
        BY DEF Artifacts, ArtifactNames
      <4> QED BY <2>4, <2>5, <3>2, <4>1 DEF AllUnder
    <3> QED BY <2>5, <2>6, <2>7, <3>1, <3>2, <3>3 DEF SameProtocol, AllUnder
  <2> QED BY <1>1, <2>2, <2>4, <2>7, <2>8, <2>9, <2>11, <2>12, JobTyped, OneProtocolKept, Frame
          DEF EvaluationInv, EvaluationTypeOK, FoldsInv
<1> QED BY <1>2, <1>3

\* The checks of run_locked_holdout before it writes a receipt.
LEMMA HoldoutCheckInv ==
  ASSUME EvaluationInv, NEW p \in Procs, HoldoutCheck(p)
  PROVE  EvaluationInv'
<1> DEFINE e == files["summary"]
<1> DEFINE passes == /\ receipt = None
                     /\ \A a \in ArtifactNames : files[a] # None
                     /\ e.digest = protocol
<1>1. pc[p] = "h_check" /\ UNCHANGED <<inputVars, dirVars, runs, historyVars>>
  BY DEF HoldoutCheck
<1>2. CASE ~ passes
  BY <1>1, <1>2, EndInv DEF HoldoutCheck
<1>3. CASE passes
  <2> DEFINE j == [job[p] EXCEPT !.pre = e]
  <2>1. job[p] \in Jobs /\ Locals(p) /\ job \in [Procs -> Jobs] /\ pc \in [Procs -> Steps]
    BY JobTyped
  <2>2. job' = [job EXCEPT ![p] = j] /\ pc' = [pc EXCEPT ![p] = "h_receipt"]
    BY <1>3 DEF HoldoutCheck, Goto
  <2>3. files \in [ArtifactNames -> Evaluation \cup {None}] /\ looks \in Nat
    BY DEF EvaluationInv, EvaluationTypeOK
  <2>4. e \in Evaluation
    BY <1>3, <2>3 DEF ArtifactNames
  <2>5. /\ j \in Jobs /\ "h_receipt" \in Steps /\ j.pre = e
        /\ j.used = job[p].used /\ j.made = job[p].made
    BY <2>1, <2>4 DEF Jobs, Steps
  <2> HIDE DEF j
  <2>6. pc'[p] = "h_receipt" /\ job'[p] = j
    BY <2>1, <2>2
  <2>7. UNCHANGED <<protocol, manifest, panel, files, receipt, results, runs, looks, disturbed, edited>>
    BY <1>1 DEF inputVars, dirVars, historyVars
  <2>8. Locals(p)'
    BY <1>1, <2>1, <2>4, <2>5, <2>6, <2>7 DEF Locals, HoldoutOpened
  <2>9. OpenedOnce' /\ AcceptanceEarned'
    BY <2>7 DEF EvaluationInv, OpenedOnce, AcceptanceEarned
  <2>10. ASSUME ~ disturbed PROVE OneEvaluation' /\ EvaluateAlone(p)' /\ HoldoutAlone(p)'
    <3>1. OneEvaluation /\ HoldoutAlone(p)
      BY <2>10, JobTyped
    <3>2. OneEvaluation' /\ EvaluateAlone(p)'
      BY <2>6, <2>7, <3>1 DEF OneEvaluation, Honest, EvaluateAlone
    <3>3. looks = 0 /\ files["ledger"] = e /\ job[p].used = e.digest
      BY <1>1, <1>3, <2>3, <3>1 DEF EvaluationInv, OpenedOnce, OneEvaluation, HoldoutAlone,
                                    ArtifactNames
    <3>4. HoldoutAlone(p)'
      BY <1>3, <2>5, <2>6, <2>7, <3>3 DEF HoldoutAlone, HoldoutOpened
    <3> QED BY <3>2, <3>4
  <2>11. ASSUME ~ edited PROVE SameProtocol(p)'
    <3>1. OneProtocol /\ job[p].used = protocol
      BY <1>1, <2>11, JobTyped DEF SameProtocol
    <3>2. AllUnder(protocol)
      BY <1>3, <3>1 DEF OneProtocol, ArtifactNames
    <3> QED BY <2>5, <2>6, <2>7, <3>1, <3>2 DEF SameProtocol, AllUnder
  <2> QED BY <1>1, <2>2, <2>5, <2>7, <2>8, <2>9, <2>10, <2>11, JobTyped, OneProtocolKept, Frame
          DEF EvaluationInv, EvaluationTypeOK, FoldsInv
<1> QED BY <1>2, <1>3

\* The researcher edits the protocol or fetches data.
LEMMA InputsInv ==
  ASSUME EvaluationInv, EditProtocol \/ FetchData
  PROVE  EvaluationInv'
<1>1. /\ protocol' \in Protocols /\ manifest' \in Protocols /\ panel' \in Lengths
      /\ disturbed' = (disturbed \/ Busy)
      /\ UNCHANGED <<files, receipt, results, pc, job, runs, looks>>
  BY DEF EvaluationInv, EvaluationTypeOK, EditProtocol, FetchData, dirVars
<1>2. EvaluationTypeOK'
  <2>1. disturbed' \in BOOLEAN /\ edited' \in BOOLEAN
    <3>1. disturbed \in BOOLEAN /\ edited \in BOOLEAN /\ Busy \in BOOLEAN
      BY Zenon DEF EvaluationInv, EvaluationTypeOK, Busy
    <3>2. edited' = edited \/ edited' = (edited \/ Busy)
      BY Zenon DEF EditProtocol, FetchData
    <3> QED BY <1>1, <3>1, <3>2
  <2> QED BY <1>1, <2>1 DEF EvaluationInv, EvaluationTypeOK
<1>3. FoldsInv' /\ OpenedOnce' /\ AcceptanceEarned'
  BY <1>1 DEF EvaluationInv, FoldsInv, InFolds, OpenedOnce, AcceptanceEarned
<1>4. \A q \in Procs : Locals(q)'
  BY <1>1 DEF EvaluationInv, Locals
<1>5. AloneInv'
  <2> SUFFICES ASSUME ~ disturbed' PROVE /\ Alone' /\ OneEvaluation'
                                         /\ \A q \in Procs : (EvaluateAlone(q) /\ HoldoutAlone(q))'
    BY DEF AloneInv
  <2>1. ~ disturbed /\ \A q \in Procs : pc'[q] = "idle"
    BY <1>1 DEF Busy
  <2>2. Alone' /\ OneEvaluation'
    BY <1>1, <2>1 DEF Alone, EvaluationInv, AloneInv, OneEvaluation, Honest
  <2>3. \A q \in Procs : (EvaluateAlone(q) /\ HoldoutAlone(q))'
    BY <2>1 DEF EvaluateAlone, HoldoutAlone, HoldoutOpened
  <2> QED BY <2>2, <2>3
<1>6. UneditedInv'
  <2> SUFFICES ASSUME ~ edited' PROVE OneProtocol' /\ \A q \in Procs : SameProtocol(q)'
    BY DEF UneditedInv
  <2>1. ~ edited /\ (protocol' = protocol \/ ~ Busy)
    <3>1. CASE EditProtocol
      BY <3>1, Zenon DEF EditProtocol
    <3>2. CASE FetchData
      BY <3>2 DEF FetchData
    <3> QED BY <3>1, <3>2
  <2>2. OneProtocol /\ \A q \in Procs : SameProtocol(q)
    BY <2>1 DEF EvaluationInv, UneditedInv
  <2>3. OneProtocol'
    BY <1>1, <2>2 DEF OneProtocol, AllUnder
  <2>4. CASE protocol' = protocol
    BY <1>1, <2>2, <2>3, <2>4 DEF SameProtocol, AllUnder
  <2>5. CASE ~ Busy
    BY <1>1, <2>3, <2>5 DEF SameProtocol, Busy
  <2> QED BY <2>1, <2>4, <2>5
<1> QED BY <1>2, <1>3, <1>4, <1>5, <1>6 DEF EvaluationInv

\* An empty evaluation directory satisfies the invariant.
LEMMA InitEvaluation ==
  ASSUME EvaluationInit
  PROVE  EvaluationInv
<1>1. \A p \in Procs : pc[p] = "idle" /\ job[p] = NoJob
  BY DEF EvaluationInit
<1>2. EvaluationTypeOK
  BY NoJobTyped DEF EvaluationInit, EvaluationTypeOK, NoFiles, Steps
<1>3. \A a \in ArtifactNames : files[a] = None
  BY DEF EvaluationInit, NoFiles
<1>4. FoldsInv
  BY <1>1, <1>3 DEF EvaluationInit, FoldsInv, NoJob
<1>5. \A p \in Procs : EvaluateAlone(p) /\ HoldoutAlone(p) /\ Locals(p) /\ SameProtocol(p)
  BY <1>1, IdleAlone
<1>6. AloneInv
  BY <1>1, <1>3, <1>5 DEF AloneInv, Alone, OneEvaluation
<1>7. UneditedInv
  BY <1>3, <1>5 DEF UneditedInv, OneProtocol, EvaluationInit
<1> QED BY <1>2, <1>4, <1>5, <1>6, <1>7
        DEF EvaluationInv, EvaluationInit, OpenedOnce, AcceptanceEarned

\* Every step of a command on the evaluation directory keeps the invariant.
LEMMA EvaluationStepInv ==
  ASSUME EvaluationInv, NEW p \in Procs, EvaluationStep(p)
  PROVE  EvaluationInv'
<1>1. CASE Abort(p)
  BY <1>1, EndInv DEF Abort
<1>2. CASE EvaluateStart(p) \/ HoldoutStart(p)
  BY <1>2, BeginInv DEF EvaluateStart, HoldoutStart
<1> QED BY <1>1, <1>2, EvaluatePanelInv, UnlinkInv, ComputeInv, WriteInv, HoldoutCheckInv,
           ReceiptInv, PanelInv, LookInv, ResultsInv, CompleteInv DEF EvaluationStep

-----------------------------------------------------------------------------
(* Runs of simulate on the output directory *)

\* One more run has no events yet, and the others keep theirs.
LEMMA AppendOne ==
  ASSUME SimulationTypeOK
  PROVE  /\ Append(events, {}) \in [1 .. simRuns + 1 -> SUBSET (1 .. simRuns)]
         /\ \A i \in 1 .. simRuns : Append(events, {})[i] = events[i]
         /\ Append(events, {})[simRuns + 1] = {}
<1> DEFINE S == SUBSET (1 .. simRuns)
<1> DEFINE g == Append(events, {})
<1>1. simRuns \in Nat /\ events \in [1 .. simRuns -> S] /\ {} \in S
  BY DEF SimulationTypeOK
<1> HIDE DEF S
<1>2. events \in Seq(S) /\ Len(events) = simRuns
  BY <1>1
<1>3. g \in Seq(S) /\ Len(g) = simRuns + 1 /\ g[simRuns + 1] = {}
  BY <1>1, <1>2
<1>4. \A i \in 1 .. simRuns : g[i] = events[i]
  BY <1>1, <1>2
<1> HIDE DEF g
<1>5. g \in [1 .. simRuns + 1 -> S]
  BY <1>1, <1>3
<1> QED BY <1>3, <1>4, <1>5, Zenon DEF g, S

\* A step of one run: what it has to establish for the invariant.
LEMMA SimFrame ==
  ASSUME SimulationInv, NEW p \in Simulators, NEW s \in SimSteps, NEW j \in SimLocals,
         step[p] # "idle",
         step' = [step EXCEPT ![p] = s], sim' = [sim EXCEPT ![p] = j],
         UNCHANGED <<simRuns, overlapped>>,
         ledger' \in 1 .. simRuns \cup {NoFile},
         events' \in [1 .. simRuns -> SUBSET (1 .. simRuns)],
         reports' \in [ReportFiles -> 1 .. simRuns \cup {NoFile}],
         lock' \in Simulators \cup {NoFile},
         s \in Locked <=> lock' = p,
         \A q \in Simulators : q # p => (lock' = q <=> lock = q),
         s # "idle" => j.run \in 1 .. simRuns,
         ~ overlapped => SimulateAlone(p)',
         LedgerOneRun'
  PROVE  SimulationInv'
<1>1. /\ SimulationTypeOK /\ step \in [Simulators -> SimSteps]
      /\ sim \in [Simulators -> SimLocals] /\ SimLocals' = SimLocals
  BY DEF SimulationInv, SimulationTypeOK, SimLocals
<1>2. \A q \in Simulators : q # p => step'[q] = step[q] /\ sim'[q] = sim[q]
  BY <1>1
<1>3. step'[p] = s /\ sim'[p] = j
  BY <1>1
<1>4. SimulationTypeOK'
  <2>1. \A q \in Simulators : step'[q] \in Locked <=> lock' = q
    BY <1>1, <1>2, <1>3 DEF SimulationTypeOK
  <2>2. step' \in [Simulators -> SimSteps] /\ sim' \in [Simulators -> SimLocals']
    BY <1>1
  <2> QED BY <1>1, <2>1, <2>2 DEF SimulationTypeOK
<1>5. \A q \in Simulators : step'[q] # "idle" => sim'[q].run \in 1 .. simRuns'
  BY <1>2, <1>3 DEF SimulationInv
<1>6. ASSUME ~ overlapped
      PROVE  /\ \A q, r \in Simulators : step'[q] # "idle" /\ step'[r] # "idle" => q = r
             /\ \A q \in Simulators : SimulateAlone(q)'
  <2>1. \A q \in Simulators : q # p => step'[q] = "idle"
    BY <1>2, <1>6 DEF SimulationInv
  <2>2. \A q \in Simulators : q # p => SimulateAlone(q)'
    BY <2>1 DEF SimulateAlone
  <2> QED BY <1>6, <2>1, <2>2
<1> QED BY <1>4, <1>5, <1>6 DEF SimulationInv

\* The types and, for runs that never overlapped, the promises of a process.
LEMMA SimTyped ==
  ASSUME SimulationInv, NEW p \in Simulators
  PROVE  /\ SimulationTypeOK /\ step \in [Simulators -> SimSteps]
         /\ sim \in [Simulators -> SimLocals] /\ sim[p] \in SimLocals
         /\ step[p] # "idle" => sim[p].run \in 1 .. simRuns
         /\ ~ overlapped => SimulateAlone(p)
         /\ LedgerOneRun
  BY DEF SimulationInv, SimulationTypeOK

\* A run that returns, raises or is killed; its lock is free.
LEMMA SimEndInv ==
  ASSUME SimulationInv, NEW p \in Simulators, step[p] # "idle", SimEnd(p),
         UNCHANGED <<ledger, events, simRuns, overlapped>>,
         reports' \in [ReportFiles -> 1 .. simRuns \cup {NoFile}], LedgerOneRun'
  PROVE  SimulationInv'
<1>1. NoSim \in SimLocals
  BY SimTyped DEF NoSim, SimLocals, SimulationTypeOK
<1>2. /\ step' = [step EXCEPT ![p] = "idle"] /\ sim' = [sim EXCEPT ![p] = NoSim]
      /\ lock' = IF lock = p THEN NoFile ELSE lock
  BY DEF SimEnd
<1>3. step'[p] = "idle"
  BY <1>2, SimTyped
<1>4. SimulateAlone(p)'
  BY <1>3 DEF SimulateAlone
<1>5. /\ ledger' \in 1 .. simRuns \cup {NoFile}
      /\ events' \in [1 .. simRuns -> SUBSET (1 .. simRuns)]
      /\ lock \in Simulators \cup {NoFile}
  BY SimTyped DEF SimulationTypeOK
<1>6. /\ lock' \in Simulators \cup {NoFile} /\ lock' # p
      /\ \A q \in Simulators : q # p => (lock' = q <=> lock = q)
  BY <1>2, <1>5, Constants
<1>7. "idle" \in SimSteps /\ "idle" \notin Locked
  BY DEF SimSteps, Locked
<1> QED BY <1>1, <1>2, <1>4, <1>5, <1>6, <1>7, SimFrame

\* SingleInstanceLock.acquire.
LEMMA AcquireInv ==
  ASSUME SimulationInv, NEW p \in Simulators, Acquire(p)
  PROVE  SimulationInv'
<1>1. step[p] = "s_lock" /\ UNCHANGED <<ledger, events, reports, simRuns, overlapped>>
  BY DEF Acquire
<1>2. /\ ledger' \in 1 .. simRuns \cup {NoFile}
      /\ events' \in [1 .. simRuns -> SUBSET (1 .. simRuns)]
      /\ reports' \in [ReportFiles -> 1 .. simRuns \cup {NoFile}]
  BY <1>1, SimTyped DEF SimulationTypeOK
<1>3. LedgerOneRun'
  BY <1>1, SimTyped DEF LedgerOneRun
<1>4. CASE lock # NoFile
  BY <1>1, <1>2, <1>3, <1>4, SimEndInv DEF Acquire
<1>5. CASE lock = NoFile
  <2>1. /\ lock' = p /\ step' = [step EXCEPT ![p] = "s_open"]
        /\ sim' = [sim EXCEPT ![p] = sim[p]]
    BY <1>5, SimTyped DEF Acquire, SimGoto
  <2>2. step'[p] = "s_open" /\ sim'[p] = sim[p]
    BY <2>1, SimTyped
  <2>3. Present' = Present
    BY <1>1 DEF Present, Named
  <2>4. ~ overlapped => SimulateAlone(p)'
    BY <1>1, <2>2, <2>3, SimTyped DEF SimulateAlone
  <2>5. "s_open" \in SimSteps /\ "s_open" \in Locked
    BY DEF SimSteps, Locked
  <2>6. \A q \in Simulators : q # p => (lock' = q <=> lock = q)
    BY <1>5, <2>1, Constants
  <2> QED BY <1>1, <1>2, <1>3, <2>1, <2>4, <2>5, <2>6, SimTyped, SimFrame
<1> QED BY <1>4, <1>5

\* path.unlink() of an artifact of an earlier run.
LEMMA SimulateUnlinkInv ==
  ASSUME SimulationInv, NEW p \in Simulators, SimulateUnlink(p)
  PROVE  SimulationInv'
<1> DEFINE next == Min(sim[p].todo)
<1> DEFINE f == ArtifactPaths[next]
<1> DEFINE s == IF sim[p].todo = {next} THEN "s_lock" ELSE "s_unlink"
<1> DEFINE j == [sim[p] EXCEPT !.todo = @ \ {next}]
<1>1. step[p] = "s_unlink" /\ UNCHANGED <<events, simRuns, overlapped>>
  BY DEF SimulateUnlink
<1>2. /\ ledger \in 1 .. simRuns \cup {NoFile}
      /\ events' \in [1 .. simRuns -> SUBSET (1 .. simRuns)]
      /\ reports \in [ReportFiles -> 1 .. simRuns \cup {NoFile}]
      /\ sim[p] \in SimLocals
      /\ lock \in Simulators \cup {NoFile} /\ lock # p
  BY <1>1, SimTyped DEF SimulationTypeOK, Locked
<1>3. CASE Named(f) = NoFile
  <2>1. SimEnd(p) /\ UNCHANGED <<ledger, reports>>
    BY <1>3 DEF SimulateUnlink
  <2>2. LedgerOneRun'
    BY <1>1, <2>1, SimTyped DEF LedgerOneRun
  <2> QED BY <1>1, <1>2, <2>1, <2>2, SimEndInv
<1>4. CASE Named(f) # NoFile
  <2>1. /\ ledger' = IF f = "ledger" THEN NoFile ELSE ledger
        /\ reports' = IF f = "ledger" THEN reports ELSE [reports EXCEPT ![f] = NoFile]
        /\ sim' = [sim EXCEPT ![p] = j] /\ step' = [step EXCEPT ![p] = s]
        /\ UNCHANGED lock
    BY <1>4 DEF SimulateUnlink, SimGoto
  <2>2. s \in SimSteps /\ s \notin Locked /\ s # "idle" /\ s \in {"s_unlink", "s_lock"}
    BY DEF SimSteps, Locked
  <2>3. j \in SimLocals /\ j.run = sim[p].run /\ j.todo = sim[p].todo \ {next}
    BY <1>2 DEF SimLocals
  <2>4. step'[p] = s /\ sim'[p] = j
    BY <2>1, SimTyped
  <2>5. /\ reports' \in [ReportFiles -> 1 .. simRuns \cup {NoFile}]
        /\ ledger' \in 1 .. simRuns \cup {NoFile}
    BY <1>2, <2>1
  <2>6. /\ ledger' # NoFile => ledger' = ledger
        /\ \A g \in ReportFiles : reports'[g] # NoFile => reports'[g] = reports[g]
    BY <1>2, <2>1
  <2>7. LedgerOneRun'
    BY <1>1, <2>6, SimTyped DEF LedgerOneRun
  <2>8. ArtifactPaths[1] = "ledger" /\ ArtifactPaths[2] = "report" /\ ArtifactPaths[3] = "trades"
        /\ Len(ArtifactPaths) = 3
    BY DEF ArtifactPaths
  <2>9. Present' \subseteq Present \ {next}
    <3> SUFFICES ASSUME NEW i \in 1 .. 3, Named(ArtifactPaths[i])' # NoFile
                 PROVE  Named(ArtifactPaths[i]) # NoFile /\ i # next
      BY <2>8 DEF Present
    <3>1. Named(ArtifactPaths[i]) # NoFile
      BY <2>6, <2>8 DEF Named, ReportFiles
    <3>2. i # next
      BY <1>2, <2>1, <2>8 DEF Named, ReportFiles
    <3> QED BY <3>1, <3>2
  <2> HIDE DEF s, j, next
  <2>10. ASSUME ~ overlapped PROVE SimulateAlone(p)'
    <3>1. Present' \subseteq j.todo /\ events'[j.run] = {}
      BY <1>1, <2>3, <2>9, <2>10, SimTyped DEF SimulateAlone
    <3>2. s = "s_lock" => Present' = {}
      BY <2>3, <3>1 DEF s
    <3> QED BY <2>2, <2>4, <3>1, <3>2 DEF SimulateAlone
  <2> QED BY <1>1, <1>2, <2>1, <2>2, <2>3, <2>5, <2>7, <2>10, SimTyped, SimFrame
<1> QED BY <1>3, <1>4

\* SQLiteEventStore() opens or creates the ledger.
LEMMA OpenStoreInv ==
  ASSUME SimulationInv, NEW p \in Simulators, OpenStore(p)
  PROVE  SimulationInv'
<1> DEFINE file == IF ledger = NoFile THEN sim[p].run ELSE ledger
<1> DEFINE j == [sim[p] EXCEPT !.file = file]
<1>1. /\ step[p] = "s_open" /\ ledger' = file
      /\ sim' = [sim EXCEPT ![p] = j] /\ step' = [step EXCEPT ![p] = "s_append"]
      /\ UNCHANGED <<events, reports, lock, simRuns, overlapped>>
  BY DEF OpenStore, SimGoto
<1>2. /\ ledger \in 1 .. simRuns \cup {NoFile}
      /\ events \in [1 .. simRuns -> SUBSET (1 .. simRuns)]
      /\ reports \in [ReportFiles -> 1 .. simRuns \cup {NoFile}]
      /\ sim[p] \in SimLocals /\ sim[p].run \in 1 .. simRuns /\ lock \in Simulators
      /\ lock = p
  BY <1>1, SimTyped DEF SimulationTypeOK, Locked
<1>3. file \in 1 .. simRuns
  BY <1>2
<1>4. j \in SimLocals /\ j.run = sim[p].run /\ j.file = file
  BY <1>2, <1>3 DEF SimLocals
<1>5. step'[p] = "s_append" /\ sim'[p] = j
  BY <1>1, SimTyped
<1>6. ASSUME ~ overlapped
      PROVE  /\ file = sim[p].run /\ events[sim[p].run] = {}
             /\ \A f \in ReportFiles : reports[f] = NoFile
  <2>1. Present = {} /\ events[sim[p].run] = {}
    BY <1>1, <1>6, SimTyped DEF SimulateAlone
  <2>2. ledger = NoFile /\ \A f \in ReportFiles : reports[f] = NoFile
    BY <2>1 DEF Present, Named, ArtifactPaths, ReportFiles
  <2> QED BY <2>1, <2>2
<1> HIDE DEF j, file
<1>7. ~ overlapped => SimulateAlone(p)'
  BY <1>1, <1>4, <1>5, <1>6 DEF SimulateAlone
<1>8. LedgerOneRun'
  BY <1>1, <1>2, <1>6 DEF LedgerOneRun
<1>9. "s_append" \in SimSteps /\ "s_append" \in Locked
  BY DEF SimSteps, Locked
<1> QED BY <1>1, <1>2, <1>3, <1>4, <1>7, <1>8, <1>9, SimFrame

\* engine.run() appends the run's events to the file it has opened.
LEMMA AppendEventsInv ==
  ASSUME SimulationInv, NEW p \in Simulators, AppendEvents(p)
  PROVE  SimulationInv'
<1>1. /\ step[p] = "s_append"
      /\ events' = [events EXCEPT ![sim[p].file] = @ \cup {sim[p].run}]
      /\ sim' = [sim EXCEPT ![p] = sim[p]] /\ step' = [step EXCEPT ![p] = "s_report"]
      /\ UNCHANGED <<ledger, reports, lock, simRuns, overlapped>>
  BY SimTyped DEF AppendEvents, SimGoto
<1>2. /\ ledger \in 1 .. simRuns \cup {NoFile}
      /\ events \in [1 .. simRuns -> SUBSET (1 .. simRuns)]
      /\ reports \in [ReportFiles -> 1 .. simRuns \cup {NoFile}]
      /\ sim[p] \in SimLocals /\ sim[p].run \in 1 .. simRuns /\ lock \in Simulators
      /\ lock = p
  BY <1>1, SimTyped DEF SimulationTypeOK, Locked
<1>3. events' \in [1 .. simRuns -> SUBSET (1 .. simRuns)]
  BY <1>1, <1>2
<1>4. step'[p] = "s_report" /\ sim'[p] = sim[p]
  BY <1>1, SimTyped
<1>5. ASSUME ~ overlapped
      PROVE  /\ ledger = sim[p].run /\ sim[p].file = sim[p].run
             /\ events'[sim[p].run] = {sim[p].run}
             /\ \A f \in ReportFiles : reports[f] = NoFile
  BY <1>1, <1>2, <1>5, SimTyped DEF SimulateAlone
<1>6. ~ overlapped => SimulateAlone(p)'
  BY <1>1, <1>4, <1>5 DEF SimulateAlone
<1>7. LedgerOneRun'
  BY <1>1, <1>2, <1>5 DEF LedgerOneRun
<1>8. "s_report" \in SimSteps /\ "s_report" \in Locked
  BY DEF SimSteps, Locked
<1> QED BY <1>1, <1>2, <1>3, <1>6, <1>7, <1>8, SimFrame

\* A report file written by the run whose events the ledger holds.
LEMMA ReportOfRun ==
  ASSUME SimulationInv, NEW p \in Simulators, NEW f \in ReportFiles,
         step[p] \in {"s_report", "s_trades"},
         reports' = [reports EXCEPT ![f] = sim[p].run],
         UNCHANGED <<ledger, events, simRuns, overlapped>>
  PROVE  reports' \in [ReportFiles -> 1 .. simRuns \cup {NoFile}] /\ LedgerOneRun'
<1>1. reports \in [ReportFiles -> 1 .. simRuns \cup {NoFile}] /\ sim[p].run \in 1 .. simRuns
  BY SimTyped DEF SimulationTypeOK
<1>2. ~ overlapped => ledger = sim[p].file /\ events[sim[p].file] = {sim[p].run}
  BY SimTyped DEF SimulateAlone
<1>3. \A g \in ReportFiles : reports'[g] = reports[g] \/ reports'[g] = sim[p].run
  BY <1>1
<1>4. LedgerOneRun'
  BY <1>2, <1>3, SimTyped DEF LedgerOneRun
<1> QED BY <1>1, <1>4

\* The first file of write_report.
LEMMA WriteReportInv ==
  ASSUME SimulationInv, NEW p \in Simulators, WriteReport(p)
  PROVE  SimulationInv'
<1>1. /\ step[p] = "s_report" /\ reports' = [reports EXCEPT !["report"] = sim[p].run]
      /\ sim' = [sim EXCEPT ![p] = sim[p]] /\ step' = [step EXCEPT ![p] = "s_trades"]
      /\ UNCHANGED <<ledger, events, lock, simRuns, overlapped>>
  BY SimTyped DEF WriteReport, SimGoto
<1>2. /\ ledger \in 1 .. simRuns \cup {NoFile}
      /\ events \in [1 .. simRuns -> SUBSET (1 .. simRuns)]
      /\ sim[p] \in SimLocals /\ sim[p].run \in 1 .. simRuns /\ lock \in Simulators
      /\ lock = p
  BY <1>1, SimTyped DEF SimulationTypeOK, Locked
<1>3. "report" \in ReportFiles
  BY DEF ReportFiles
<1>4. reports' \in [ReportFiles -> 1 .. simRuns \cup {NoFile}] /\ LedgerOneRun'
  BY <1>1, <1>3, ReportOfRun
<1>5. step'[p] = "s_trades" /\ sim'[p] = sim[p]
  BY <1>1, SimTyped
<1>6. ~ overlapped => SimulateAlone(p)'
  BY <1>1, <1>5, SimTyped DEF SimulateAlone
<1>7. "s_trades" \in SimSteps /\ "s_trades" \in Locked
  BY DEF SimSteps, Locked
<1> QED BY <1>1, <1>2, <1>4, <1>6, <1>7, SimFrame

\* The last file of write_report, and the run that raises or is killed.
LEMMA WriteTradesInv ==
  ASSUME SimulationInv, NEW p \in Simulators, WriteTrades(p) \/ SimAbort(p)
  PROVE  SimulationInv'
<1>1. CASE WriteTrades(p)
  <2>1. "trades" \in ReportFiles
    BY DEF ReportFiles
  <2> QED BY <1>1, <2>1, ReportOfRun, SimEndInv DEF WriteTrades
<1>2. CASE SimAbort(p)
  <2>1. LedgerOneRun'
    BY <1>2, SimTyped DEF SimAbort, LedgerOneRun
  <2> QED BY <1>2, <2>1, SimTyped, SimEndInv DEF SimAbort, SimulationTypeOK
<1> QED BY <1>1, <1>2

\* The beginning of _simulate.
LEMMA SimulateStartInv ==
  ASSUME SimulationInv, NEW p \in Simulators, NEW overwrite \in BOOLEAN,
         SimulateStart(p, overwrite)
  PROVE  SimulationInv'
<1> DEFINE n == simRuns + 1
<1> DEFINE s == IF Present = {} THEN "s_lock" ELSE "s_unlink"
<1> DEFINE j == [run |-> n, todo |-> Present, file |-> NoFile]
<1>1. /\ step[p] = "idle" /\ simRuns' = n /\ events' = Append(events, {})
      /\ step' = [step EXCEPT ![p] = s] /\ sim' = [sim EXCEPT ![p] = j]
      /\ overlapped' = (overlapped \/ \E q \in Simulators : step[q] # "idle")
      /\ UNCHANGED <<ledger, reports, lock>>
  BY DEF SimulateStart
<1>2. SimulationTypeOK /\ simRuns \in Nat /\ n \in Nat
  BY SimTyped DEF SimulationTypeOK
<1>3. /\ events' \in [1 .. n -> SUBSET (1 .. simRuns)] /\ events'[n] = {}
      /\ \A i \in 1 .. simRuns : events'[i] = events[i]
  BY <1>1, <1>2, AppendOne, Zenon
<1>4. 1 .. simRuns \subseteq 1 .. n /\ 0 .. simRuns \subseteq 0 .. n /\ n \in 0 .. n /\ n \in 1 .. n
  BY <1>2
<1>5. events' \in [1 .. n -> SUBSET (1 .. n)]
  BY <1>3, <1>4
<1>6. SimLocals \subseteq SimLocals' /\ j \in SimLocals'
  BY <1>1, <1>4 DEF SimLocals, Present
<1>7. s \in SimSteps /\ s \notin Locked /\ s \in {"s_unlink", "s_lock"}
  BY DEF SimSteps, Locked
<1>8. Present' = Present
  BY <1>1 DEF Present, Named
<1> HIDE DEF n, s, j
<1>9. step'[p] = s /\ sim'[p] = j /\ \A q \in Simulators : q # p => step'[q] = step[q] /\ sim'[q] = sim[q]
  BY <1>1, SimTyped
<1>10. step' \in [Simulators -> SimSteps] /\ sim' \in [Simulators -> SimLocals']
  BY <1>1, <1>6, <1>7, SimTyped
<1>11. SimulationTypeOK'
  <2>1. \A q \in Simulators : step'[q] \in Locked <=> lock' = q
    BY <1>1, <1>2, <1>7, <1>9 DEF SimulationTypeOK, Locked
  <2>2. overlapped' \in BOOLEAN
    BY <1>1, <1>2, Zenon DEF SimulationTypeOK
  <2>3. /\ ledger' \in 1 .. n \cup {NoFile} /\ lock' \in Simulators \cup {NoFile}
        /\ reports' \in [ReportFiles -> 1 .. n \cup {NoFile}]
    BY <1>1, <1>2, <1>4 DEF SimulationTypeOK
  <2> QED BY <1>1, <1>2, <1>5, <1>10, <2>1, <2>2, <2>3 DEF SimulationTypeOK
<1>12. \A q \in Simulators : step'[q] # "idle" => sim'[q].run \in 1 .. n
  <2>1. j.run = n
    BY DEF j
  <2> QED BY <1>4, <1>9, <2>1 DEF SimulationInv
<1>13. ASSUME ~ overlapped'
       PROVE  /\ \A q, r \in Simulators : step'[q] # "idle" /\ step'[r] # "idle" => q = r
              /\ \A q \in Simulators : SimulateAlone(q)'
  <2>1. \A q \in Simulators : q # p => step'[q] = "idle"
    BY <1>1, <1>9, <1>13
  <2>2. SimulateAlone(p)'
    <3>1. j.run = n /\ j.todo = Present
      BY DEF j
    <3>2. s = "s_lock" => Present = {}
      BY DEF s
    <3> QED BY <1>3, <1>7, <1>8, <1>9, <3>1, <3>2 DEF SimulateAlone
  <2>3. \A q \in Simulators : q # p => SimulateAlone(q)'
    BY <2>1 DEF SimulateAlone
  <2> QED BY <2>1, <2>2, <2>3
<1>14. LedgerOneRun'
  <2> SUFFICES ASSUME ~ overlapped', ledger' # NoFile
               PROVE  /\ \E i \in 1 .. n : events'[ledger'] \subseteq {i}
                      /\ \A f \in ReportFiles : reports'[f] # NoFile => events'[ledger'] = {reports'[f]}
    BY <1>1 DEF LedgerOneRun
  <2>1. ledger' = ledger /\ reports' = reports /\ ledger \in 1 .. simRuns /\ ~ overlapped
    BY <1>1, <1>2 DEF SimulationTypeOK
  <2>2. events'[ledger'] = events[ledger]
    BY <1>3, <2>1
  <2> QED BY <1>4, <2>1, <2>2, SimTyped DEF LedgerOneRun
<1> QED BY <1>1, <1>11, <1>12, <1>13, <1>14 DEF SimulationInv

\* An empty output directory satisfies the invariant.
LEMMA InitSimulation ==
  ASSUME SimulationInit
  PROVE  SimulationInv
<1>1. \A p \in Simulators : step[p] = "idle"
  BY DEF SimulationInit
<1>2. SimulationTypeOK
  <2>1. NoSim \in SimLocals
    BY DEF SimulationInit, NoSim, SimLocals
  <2>2. events \in [1 .. 0 -> SUBSET (1 .. 0)]
    BY DEF SimulationInit
  <2> QED BY <1>1, <2>1, <2>2, Constants DEF SimulationInit, SimulationTypeOK, SimSteps, Locked
<1>3. \A p \in Simulators : SimulateAlone(p)
  BY <1>1 DEF SimulateAlone
<1> QED BY <1>1, <1>2, <1>3 DEF SimulationInv, LedgerOneRun, SimulationInit

\* Every step of a run of simulate keeps the invariant.
LEMMA SimulationStepInv ==
  ASSUME SimulationInv, NEW p \in Simulators, SimulationStep(p)
  PROVE  SimulationInv'
  BY SimulateStartInv, SimulateUnlinkInv, AcquireInv, OpenStoreInv, AppendEventsInv,
     WriteReportInv, WriteTradesInv DEF SimulationStep

-----------------------------------------------------------------------------
(* Both directories *)

\* A step that leaves the evaluation directory alone keeps its invariant.
LEMMA EvaluationUnchanged ==
  ASSUME EvaluationInv, UNCHANGED evaluationVars
  PROVE  EvaluationInv'
<1>1. UNCHANGED <<protocol, manifest, panel, files, receipt, results, pc, job, runs, looks,
                  disturbed, edited>>
  BY DEF evaluationVars, inputVars, dirVars, historyVars
<1>2. EvaluationTypeOK' /\ FoldsInv' /\ OpenedOnce' /\ AcceptanceEarned'
  BY <1>1 DEF EvaluationInv, EvaluationTypeOK, FoldsInv, OpenedOnce, AcceptanceEarned
<1>3. \A p \in Procs : Locals(p)'
  BY <1>1 DEF EvaluationInv, Locals
<1>4. AloneInv'
  <2>1. Existing' = Existing
    BY <1>1 DEF Existing
  <2>2. \A p \in Procs : (EvaluateAlone(p)' <=> EvaluateAlone(p)) /\ (HoldoutAlone(p)' <=> HoldoutAlone(p))
    BY <1>1, <2>1 DEF EvaluateAlone, HoldoutAlone
  <2>3. (Alone' <=> Alone) /\ (OneEvaluation' <=> OneEvaluation)
    BY <1>1 DEF Alone, OneEvaluation
  <2> QED BY <1>1, <2>2, <2>3 DEF EvaluationInv, AloneInv
<1>5. UneditedInv'
  <2>1. \A p \in Procs : SameProtocol(p)' <=> SameProtocol(p)
    BY <1>1 DEF SameProtocol, AllUnder
  <2>2. OneProtocol' <=> OneProtocol
    BY <1>1 DEF OneProtocol, AllUnder
  <2> QED BY <1>1, <2>1, <2>2 DEF EvaluationInv, UneditedInv
<1> QED BY <1>2, <1>3, <1>4, <1>5 DEF EvaluationInv

\* A step that leaves the output directory alone keeps its invariant.
LEMMA SimulationUnchanged ==
  ASSUME SimulationInv, UNCHANGED simVars
  PROVE  SimulationInv'
<1>1. UNCHANGED <<ledger, events, reports, lock, step, sim, simRuns, overlapped>>
  BY DEF simVars
<1>2. Present' = Present /\ SimLocals' = SimLocals
  BY <1>1 DEF Present, Named, SimLocals
<1>3. SimulationTypeOK' /\ LedgerOneRun'
  BY <1>1, <1>2 DEF SimulationInv, SimulationTypeOK, LedgerOneRun
<1>4. \A p \in Simulators : SimulateAlone(p)' <=> SimulateAlone(p)
  BY <1>1, <1>2 DEF SimulateAlone
<1> QED BY <1>1, <1>3, <1>4 DEF SimulationInv

\* The conjunction of both invariants and HoldoutUnseen is inductive, so it
\* holds in every state, whatever the commands, their overlaps and their crashes.
THEOREM ResearchSafe == Spec => []IInv
<1>1. Init => IInv
  BY InitEvaluation, InitSimulation, Unseen DEF Init, IInv, EvaluationInv
<1>2. IInv /\ [Next]_vars => IInv'
  <2> SUFFICES ASSUME IInv, [Next]_vars PROVE EvaluationInv' /\ SimulationInv'
    <3>1. EvaluationInv' => HoldoutUnseen'
      <4>1. EvaluationInv => HoldoutUnseen
        BY Unseen DEF EvaluationInv
      <4> QED BY <4>1, PTL
    <3> QED BY <3>1 DEF IInv
  <2>1. EvaluationInv /\ SimulationInv
    BY DEF IInv
  <2>2. CASE \E p \in Procs : EvaluationStep(p) /\ UNCHANGED simVars
    BY <2>1, <2>2, EvaluationStepInv, SimulationUnchanged
  <2>3. CASE \E p \in Procs : SimulationStep(p) /\ UNCHANGED evaluationVars
    BY <2>1, <2>3, Constants, SimulationStepInv, EvaluationUnchanged
  <2>4. CASE (EditProtocol \/ FetchData) /\ UNCHANGED simVars
    BY <2>1, <2>4, InputsInv, SimulationUnchanged
  <2>5. CASE UNCHANGED vars
    BY <2>1, <2>5, EvaluationUnchanged, SimulationUnchanged DEF vars
  <2> QED BY <2>2, <2>3, <2>4, <2>5 DEF Next
<1> QED BY <1>1, <1>2, PTL DEF Spec

\* Every file and local variable of the commands keeps its type; a completed
\* receipt names its results and the lock is held by exactly the run that is
\* between acquire and release.
THEOREM ResearchTypes == Spec => []ResearchTypeOK
<1>1. IInv => ResearchTypeOK
  BY DEF IInv, EvaluationInv, SimulationInv, ResearchTypeOK
<1> QED BY <1>1, ResearchSafe, PTL

\* Whatever windows, steps and start offsets each content of the protocol file
\* has, run_locked_holdout scores no bar that a trial of the evaluation read
\* from data of the same length, as long as the protocol file is not edited
\* while a command runs: commands may overlap, crash and overwrite.
THEOREM HoldoutNeverSeen == Spec => []HoldoutUnseen
<1>1. IInv => HoldoutUnseen
  BY DEF IInv
<1> QED BY <1>1, ResearchSafe, PTL

\* The one-use receipt: run_locked_holdout scores the holdout under a receipt,
\* and at most once as long as commands do not overlap.
THEOREM HoldoutOpenedOnce == Spec => []OpenedOnce
<1>1. IInv => OpenedOnce
  BY DEF IInv, EvaluationInv
<1> QED BY <1>1, ResearchSafe, PTL

\* An accepted receipt rests on one evaluation that passed its gate under the
\* receipt's protocol, as long as commands do not overlap.
THEOREM AcceptanceIsEarned == Spec => []AcceptanceEarned
<1>1. IInv => AcceptanceEarned
  BY DEF IInv, EvaluationInv
<1> QED BY <1>1, ResearchSafe, PTL

\* A simulation ledger holds the events of one run and the reports next to it
\* are of that run, as long as runs do not overlap.
THEOREM LedgerHoldsOneRun == Spec => []LedgerOneRun
<1>1. IInv => LedgerOneRun
  BY DEF IInv, SimulationInv
<1> QED BY <1>1, ResearchSafe, PTL
=============================================================================
