------------------------ MODULE SimulationDirectory ------------------------
(***************************************************************************)
(* The command simulate (cli.py, _simulate) on one output directory, with  *)
(* its SingleInstanceLock and the files of its SQLiteEventStore and        *)
(* write_report.  Several processes may run it and each may be killed      *)
(* between any two steps; the operating system then drops its file lock.   *)
(* A name in the directory refers to a file, and a process that has opened *)
(* a file keeps writing to it after its name is gone.                      *)
(***************************************************************************)
EXTENDS Integers, Sequences, FiniteSetsExt

CONSTANTS Simulators, NoFile

VARIABLES ledger,   \* the file that events.sqlite3 (with its -wal and -shm) names
          events,   \* the runs whose events each ledger file holds
          reports,  \* the run that wrote each report file, or NoFile
          lock,     \* who holds .simulation.lock
          step, sim,  \* the step of each process and its local variables
          simRuns,  \* history: how many runs were started
          overlapped  \* history: two runs were active at the same time

simVars == <<ledger, events, reports, lock, step, sim, simRuns, overlapped>>

\* write_report writes five files one after the other; the first and the last
\* stand for them.
ReportFiles == {"report", "trades"}

\* artifact_paths, in the order of the code.
ArtifactPaths == <<"ledger", "report", "trades">>

\* A file created by run n is file n.
NoSim == [run |-> 0, todo |-> {}, file |-> NoFile]

\* The steps inside `with lock`.
Locked == {"s_open", "s_append", "s_report", "s_trades"}
SimSteps == {"idle", "s_unlink", "s_lock"} \cup Locked

\* The local variables of _simulate; todo is the part of artifact_paths that it
\* has still to unlink, file the ledger that it has opened.
SimLocals == [run : 0 .. simRuns, todo : SUBSET (1 .. Len(ArtifactPaths)),
              file : 1 .. simRuns \cup {NoFile}]

SimulationTypeOK ==
  /\ simRuns \in Nat
  /\ ledger \in 1 .. simRuns \cup {NoFile}
  /\ events \in [1 .. simRuns -> SUBSET (1 .. simRuns)]
  /\ reports \in [ReportFiles -> 1 .. simRuns \cup {NoFile}]
  /\ lock \in Simulators \cup {NoFile}
  /\ step \in [Simulators -> SimSteps] /\ sim \in [Simulators -> SimLocals]
  /\ \A p \in Simulators : step[p] \in Locked <=> lock = p
  /\ overlapped \in BOOLEAN

SimulationInit ==
  /\ ledger = NoFile
  /\ events = <<>>
  /\ reports = [f \in ReportFiles |-> NoFile]
  /\ lock = NoFile
  /\ step = [p \in Simulators |-> "idle"]
  /\ sim = [p \in Simulators |-> NoSim]
  /\ simRuns = 0 /\ overlapped = FALSE

\* The name's file: the ledger or one of the reports.
Named(f) == IF f = "ledger" THEN ledger ELSE reports[f]

Present == {i \in 1 .. Len(ArtifactPaths) : Named(ArtifactPaths[i]) # NoFile}

\* Mutant: an artifact that is there is not a reason to refuse.
MutSimulateStart(p, overwrite) ==
  /\ step[p] = "idle"
  /\ simRuns' = simRuns + 1
  /\ events' = Append(events, {})
  /\ step' = [step EXCEPT ![p] = IF overwrite /\ Present # {} THEN "s_unlink" ELSE "s_lock"]
  /\ sim' = [sim EXCEPT ![p] = [run |-> simRuns + 1, todo |-> Present, file |-> NoFile]]
  /\ overlapped' = (overlapped \/ \E q \in Simulators : step[q] # "idle")
  /\ UNCHANGED <<ledger, reports, lock>>

\* Look for the artifacts of an earlier run; the lock comes later.
SimulateStart(p, overwrite) ==
  /\ step[p] = "idle"
  /\ Present # {} => overwrite
  /\ simRuns' = simRuns + 1
  /\ events' = Append(events, {})
  /\ step' = [step EXCEPT ![p] = IF Present = {} THEN "s_lock" ELSE "s_unlink"]
  /\ sim' = [sim EXCEPT ![p] = [run |-> simRuns + 1, todo |-> Present, file |-> NoFile]]
  /\ overlapped' = (overlapped \/ \E q \in Simulators : step[q] # "idle")
  /\ UNCHANGED <<ledger, reports, lock>>

\* The run returns, raises or is killed; its lock is free in every case.
SimEnd(p) ==
  /\ step' = [step EXCEPT ![p] = "idle"]
  /\ sim' = [sim EXCEPT ![p] = NoSim]
  /\ lock' = IF lock = p THEN NoFile ELSE lock

SimGoto(p, s) == step' = [step EXCEPT ![p] = s]

\* path.unlink(), which raises when the file has gone.
SimulateUnlink(p) ==
  /\ step[p] = "s_unlink"
  /\ LET next == Min(sim[p].todo)
         f == ArtifactPaths[next]
     IN
       IF Named(f) = NoFile
         THEN SimEnd(p) /\ UNCHANGED <<ledger, reports>>
         ELSE /\ ledger' = IF f = "ledger" THEN NoFile ELSE ledger
              /\ reports' = IF f = "ledger" THEN reports ELSE [reports EXCEPT ![f] = NoFile]
              /\ sim' = [sim EXCEPT ![p].todo = @ \ {next}]
              /\ SimGoto(p, IF sim[p].todo = {next} THEN "s_lock" ELSE "s_unlink")
              /\ UNCHANGED lock
  /\ UNCHANGED <<events, simRuns, overlapped>>

\* Mutant: the lock is taken whoever holds it.
MutAcquire(p) ==
  /\ step[p] = "s_lock"
  /\ lock' = p /\ SimGoto(p, "s_open") /\ UNCHANGED sim
  /\ UNCHANGED <<ledger, events, reports, simRuns, overlapped>>

\* SingleInstanceLock.acquire: non-blocking, raises when the lock is held.
Acquire(p) ==
  /\ step[p] = "s_lock"
  /\ IF lock = NoFile
       THEN lock' = p /\ SimGoto(p, "s_open") /\ UNCHANGED sim
       ELSE SimEnd(p)
  /\ UNCHANGED <<ledger, events, reports, simRuns, overlapped>>

\* SQLiteEventStore(): open the ledger that is there or create one.
OpenStore(p) ==
  /\ step[p] = "s_open"
  /\ LET file == IF ledger = NoFile THEN sim[p].run ELSE ledger IN
       /\ ledger' = file
       /\ sim' = [sim EXCEPT ![p].file = file]
  /\ SimGoto(p, "s_append")
  /\ UNCHANGED <<events, reports, lock, simRuns, overlapped>>

\* engine.run(): every event is committed as it is appended, so a run that is
\* killed here leaves its events behind (SimAbort at s_report).
AppendEvents(p) ==
  /\ step[p] = "s_append"
  /\ events' = [events EXCEPT ![sim[p].file] = @ \cup {sim[p].run}]
  /\ SimGoto(p, "s_report")
  /\ UNCHANGED <<ledger, reports, lock, sim, simRuns, overlapped>>

\* write_report: the files are opened for writing by name.
WriteReport(p) ==
  /\ step[p] = "s_report"
  /\ reports' = [reports EXCEPT !["report"] = sim[p].run]
  /\ SimGoto(p, "s_trades")
  /\ UNCHANGED <<ledger, events, lock, sim, simRuns, overlapped>>

\* The last file; then event_store.close() and release().
WriteTrades(p) ==
  /\ step[p] = "s_trades"
  /\ reports' = [reports EXCEPT !["trades"] = sim[p].run]
  /\ SimEnd(p)
  /\ UNCHANGED <<ledger, events, simRuns, overlapped>>

\* The run raises or is killed.
SimAbort(p) ==
  /\ step[p] # "idle"
  /\ SimEnd(p)
  /\ UNCHANGED <<ledger, events, reports, simRuns, overlapped>>
=============================================================================
