# Verification of Quantum Trader Pro

TLA+ models of the parts of Quantum Trader Pro that decide whether money moves:
the crash-safe paper order path, the arming and request budget in front of it,
the reconciliation of broker evidence, the pre-trade limits, the deterministic
simulation loop with its report, and the research commands that decide whether a
strategy is accepted. TLC checks the models on
small instances; TLAPS proves the central results for every value of the
constants. Paths such as `paper_execution.py` are under
`src/src/quantum_trader/`; documents are under `src/` and `src/docs/`.

## 1. Inventory

| Component | State it keeps | Operations | What is hard | What makes it correct |
|---|---|---|---|---|
| Paper order executor (`application/paper_execution.py`) | none; everything durable is in the journal and the operator store | `execute_once`, `recover_submission` | several processes, a crash between any two steps, lost responses, pauses at any time | one order is sent at most once, never before it is durably claimed; what the journal says about an order is true at the broker |
| Submission journal (`adapters/sqlite_broker_journal.py`) | one row per client order ID: state, reason, payload digest | `persist_approved_order`, `transition_submission`, `apply_reconciliation` | callers that read a row and write it later | terminal states are final; a claim belongs to one attempt |
| Evidence tables (same file) | order rows, fills, positions, checkpoint, reports | `apply_reconciliation` | two reconcilers commit in either order | no fill is skipped, no attribution lost, order rows do not go back |
| Paper reconciler (`application/reconciliation.py`) | none | `reconcile` | a sequence of reads while the broker trades | a ready report is backed by the stored evidence |
| Operator store (`adapters/sqlite_operator_control.py`, `domain/operator.py`) | pause switch, action records | `pause`, `resume`, `begin_action`, `complete_action` | approvals reused or overlapping | an approval works once; a kill in progress holds the pause |
| Operator actions (`application/operator_actions.py`) | none | pause, resume, cancel owned orders | partial failure of the kill | resume only with nothing unresolved |
| Alpaca paper adapter (`adapters/alpaca_paper.py`) | request budget | `submit_once`, lookups, listings, `cancel_order` | late, lost and ambiguous responses | never a second POST; "rejected" only when the order is known not to exist |
| Pre-trade controls (`domain/market_controls.py`, `application/paper_controls.py`) | none; reads submission timestamps | `assess`, `evaluate_paper_pretrade` | snapshots taken one after the other; orders that fill later | limits hold however the approved orders fill |
| Simulation engine, broker, portfolio, risk manager, clock (`application/engine.py`, `adapters/simulated_broker.py`, `domain/portfolio.py`, `domain/risk.py`, `domain/clock.py`) | pending orders, cash, position, cost, peak, halt | `run`, `on_market_event`, `apply_fill`, `observe`, `evaluate` | orders fill an event after they were approved; halts in between; rounding | the books balance; a halt stops buying and exits |
| Request budget (`domain/rate_limits.py`) | timestamps in a window | `acquire` | the clock is read outside the lock, may be set back, and the deque forgets | no window admits more than its requests |
| Execution gate (`domain/execution.py`) | arming records, the armed context | `issue_paper`, `state_at`, `arm_paper`, `verify_context` | records outlive processes, builds and clock corrections | what is sent was acknowledged for exactly this deployment, and recently |
| Reporting (`application/reporting.py`) | none; a loop over the fills | `_round_trip_trades`, `calculate_metrics`, `write_report` | it derives the trades a second time, from the fills alone | the report and the portfolio tell the same story |
| Evaluation and holdout (`application/evaluation.py`) | protocol, data, seven artifacts, receipt, results | `run_walk_forward`, `run_locked_holdout` | no lock: files are checked, read and written one by one while other commands run or die | holdout bars are not read before, scored once, and accepted only on one honest evaluation |
| Command `simulate`, lock, event store (`cli.py`, `application/lifecycle.py`, `adapters/sqlite_store.py`) | output directory, lock file, ledger | `_simulate`, `acquire`, `release`, `append` | the artifacts are looked for and removed before the lock is taken | a ledger and its reports are of one run |
| Strategy, CSV replay, credentials, control data, ports | - | - | pure functions, formatting, I/O | not modelled or only as a source of denials; see section 7 |

How they interact: `execute_once` calls the pre-trade controller, which runs a
reconciliation and reads the broker; it then moves the journal row through
persisted and started, calls `submit_once`, records the outcome, and reconciles
again. Recovery and the operator's resume and kill commands run the same
reconciler from other processes. All of them share two SQLite files and the
broker, and nothing else. Every HTTP request of a process passes its request
budget, and every mutating call verifies the armed context first. The simulation
is one sequential loop, and its report a second pass over its fills. The research
commands are separate processes that meet only in their directories.

The hazards of this code, each at its line and with the properties that cover
it, are listed in `PROJECT.json`.

## 2. Modules

| Module | Models |
|---|---|
| `SubmissionJournal` | the submissions table: one operator per transaction, its acceptance test separate from its update |
| `OperatorControl` | pause switch, action records, approval verification |
| `PaperExecution` | composes the two with the executor, recovery, reconciliation of submissions, operator actions, the adapter and an external broker |
| `SubmissionContract` | abstract specification of one order's life: durable, sent at most once, exists only if sent, resolved only if it exists, final |
| `EvidenceContract` | abstract specification of the stored fills: retained without a gap up to the checkpoint of the same transaction, only what the broker executed, never taken back |
| `FillReconciliation` | positions, open orders, paginated fills, attribution, projection, and the commit transaction |
| `PreTradeControls` | the assessment's reads and limits over sequences of orders |
| `SimulationEngine` | the replay loop with broker, portfolio and risk manager |
| `SimulationReport` | composes the engine with the round-trip loop over its fills |
| `RequestBudget` | the sliding-window deque and `acquire` |
| `ExecutionGate` | records, contexts, arming and verification |
| `PaperSession` | composes both: one trading process over restarts, its threads and their requests |
| `WalkForward` | which bars each trial and the holdout read and score |
| `EvaluationDirectory` | `evaluate` and `open-holdout`, one action per file operation |
| `SimulationDirectory` | `simulate` on its output directory, with lock, ledger and reports |
| `ResearchCommands` | composes the two directories: several processes, one command at a time each |
| `MCPaperExecution`, `MCFillReconciliation`, `MCPreTradeControls`, `MCPaperSession`, `MCResearchCommands` | constants for TLC |
| `MCPaperRecovery`, `MCFillProgress` | the fair specifications of the liveness runs, with the failures they allow counted |
| `PaperExecutionProofs`, `PaperContractProofs`, `FillProofs`, `SimulationProofs`, `SessionProofs`, `ResearchProofs`, `PreTradeProofs` | theorems and proofs |
| `FiniteSums` | lemmas about sums over finite sets, used by `FillProofs` and `PreTradeProofs` |

`PROJECT.json` maps every definition to the lines it stands for.

**PaperExecution.** A process is one running call: an attempt (`execute_once`),
a recoverer or an operator. Its `pc` label is the next transaction, durable read
or network request; the branching that follows a step belongs to it. `Crash` may
end any call at any label, and covers process death, an unhandled exception and
an injected fault. The journal variables are the columns of the row. `wire`
holds POSTs that have left and are not answered, `venue` is the broker's book,
`posts` counts POSTs per order. A POST may be accepted, refused or lost, and its
response may arrive, get lost or come as an error, independently. Deterministic
client IDs are the set `Orders`; a caller's contract that attempt digests are
unique is the assumption `UniqueDigests`. `Serialized = TRUE` restricts the
model to calls that do not overlap, which is how a single service process uses
these classes.

**FillReconciliation.** One symbol and unit fills; an activity ID is its index
in the broker's growing ledger. Each reconciler goes through the reads of
`reconcile` one at a time while others do the same and the broker fills and
cancels. A lookup of an owner may fail; any read may fail. `Stamped` says
whether the broker reports `updated_at`.

**PreTradeControls.** Each read of `assess` is a step. Every share costs one
unit and prices do not move, so that the limits are about quantities; fractions
of equity are percentages. The checks on clock, calendar, asset, quote and order
policy can only deny and are one action, `Deny`. The broker fills, one share at a
time, and expires orders at any moment, also between the reads of one
assessment. Two history variables measure what that does: `moved` counts the
shares filled since the running assessment began, `slip` is the most that any
assessment has seen. The limits are stated with `slip` as their allowance.

**SimulationEngine.** One symbol and integer money in place of `Decimal`. The
strategy may choose any target on any event, and the stream may be any sequence
of events, out of order too. `basis` is average price times quantity, so that no
division is needed; the quantisation of fill prices rounds half to even as
`Decimal.quantize` does.

**SimulationReport.** `_round_trip_trades` runs over `result.fills` after the run.
The loop is sequential and reads nothing else, so the model takes it one turn
further with every fill the engine keeps; its variables are the loop's state
after the fills so far.

**PaperSession.** A request of a thread is two steps, the clock reading and
`acquire` under the budget's lock, so readings may reach the lock out of order.
The threads share one transport and its budget; a transport that is given none
makes its own, so several of them are bounded one by one.
`Restart` starts another process, perhaps with other code, configuration or
account: contexts, calls and the budget are in memory and vanish, the operator's
records stay. `StepBack` sets the wall clock back. `admitted` is a history of
what the running process's budget let through.

**EvaluationDirectory and SimulationDirectory.** A process runs one command; each
of its steps is a file operation, or a computation between two of them, and
`Abort` or `SimAbort` may end it anywhere. Three artifacts stand for the seven of
an evaluation: the one written first, the trial ledger and the summary, which
the holdout reads. An artifact's content is what later code compares: the run,
the protocol used and the digest recorded, the bars and the selected folds, the
gate. What a trial measures is a nondeterministic verdict. A digest is its
content, so a receipt holds the evaluation it names. A name in the output
directory refers to a file, and a process that has opened a ledger keeps writing
to it after another one has unlinked its name. `EditProtocol` and `FetchData` are
the researcher's: the protocol keeps its `receipt_filename`, and data are fetched
into an emptied directory, as `scripts/fetch-evaluation-data.py` requires.
Everything else in the protocol file may change with an edit: `Windows` gives
each content its windows and start offsets, `MinFolds` its fold gate. A command
works under the protocol it has loaded (`used`), while the digest comparisons of
`load_panel`, of the summary and of the holdout read the file again, each in a
step of its own. `disturbed` and `overlapped` are histories: something happened
in the directory while a command was running there; `edited` is the part of
`disturbed` that is about the protocol file.

## 3. Runs

Passing runs:

| Run | Instance | Shows |
|---|---|---|
| `exec_duplicate` | two attempts at one order, one operator | at most one POST; the claim precedes it; terminal rows are final; the abstract contract is implemented |
| `exec_recovery` | one attempt, one recoverer, one operator with a resume and a cancel approval | acknowledged orders exist; the bot's own order is never "unexplained"; a kill holds the pause; approvals work once |
| `exec_serialized` | two attempts at two orders, one recoverer, one operator with two resume approvals, no overlap, fairness | rejected rows hide no order; one unresolved row at most; resume only with none; what a crash leaves is resolved |
| `fill_concurrent` | two reconcilers, two fills, pages of one, two pages at most | checkpoint coverage, `EvidenceContract` implemented, monotonic order rows |
| `fill_progress` | one reconciler, an owned and a foreign order, fairness | every fill is eventually stored; a ready report matches the stored fills |
| `sim_replay` | six timestamps, three prices (one of them a crash), three targets | accounting, halts, exits, sizing; the report's round trips agree with the portfolio |
| `pretrade_limits` | two symbols, two account sizes, three order sizes, four time units | gross exposure, reserve and rates stay bounded however and whenever orders fill; sells oversell by no more than the open-order limit lets them |
| `paper_session` | two threads, three deployments (two builds, two accounts), a budget of two requests in two ticks, one step back of the clock, one record, three admissions | no window admits more than its requests; every POST and DELETE rests on an unexpired record of what is deployed |
| `research_commands` | two processes, two protocols with windows of one bar, of which the second locks two bars and needs one fold, the first locks one and needs two, data of four or five bars, three commands | the holdout scores no bar that the trials read, and is scored once; acceptance rests on one evaluation; a ledger holds one run |

Two actors of a kind are enough for the races of interest, which are all between
two holders of stale information; the theorems of section 5 remove the bound
where it matters most. In `sim_replay` the prices are chosen so that drawdown,
realized-loss and post-fill halts, rejected fills and a fee that exceeds the
proceeds all occur. In `pretrade_limits` the small account runs into the cash
reserve first and the large one into the exposure limit. In `paper_session` the
third admission is the one that an off-by-one would let through too early, and
clock 3 lets a record expire while a context is armed. In `research_commands`
three commands are an evaluation, a holdout and one more of either kind, which
is what a second look or a mixed set of artifacts takes; under the
first protocol five bars give two folds and an offset that fits before the
holdout, four bars one fold and an offset that does not; the second protocol
holds out a bar that trials of the first one read. `MCOneOverlap` starts no further command once two have
overlapped: they are followed to their end, which is enough for the properties,
since those that speak of overlapped commands (`ResearchTypeOK`,
`HoldoutUnseen`, the first half of `OpenedOnce`) are proved without the bound in
section 5. Symmetry is over processes, threads and symbols, and only in runs without
liveness.

Violations, each a disagreement between the code and what the repository says
about it (`findings` quotes both):

| Run | What TLC finds |
|---|---|
| `exec_rejected_live` | Two overlapping calls for the same order both get past `persist_approved_order`. One claims the row and submits; the other sees a pause and rejects the claimed row. The order is live, its row is terminally `rejected`. |
| `fill_unattributed` | A fill whose owner could not be looked up is stored without one, and the checkpoint moves past it. Later reports skip it silently and can be ready. |
| `pretrade_symbol` | Open buys are reserved against the gross limit and not against the symbol limit, so two buys of one symbol exceed it together. |

Observations without a run of their own:

- A pause that arrives between the last pause check and the POST does not stop
  that POST. This is inherent in a switch that is read before a network call,
  and no property is stated about it.
- Two overlapping calls for different orders can both pass the check for
  unresolved rows, so `OneUnresolvedAtATime` is a property of callers that do not
  overlap. For those it is guarded twice, by that check and by the
  reconciliation inside the assessment.
- Without `updated_at` from the broker (`Stamped = FALSE`), a slower reconciler
  replaces a terminal order row by an older snapshot, because only timestamps are
  compared (`sqlite_broker_journal.py:348`); `docs/FAILURE_INJECTION.md:38` says
  that it "validates order-state monotonicity". `fill_concurrent` therefore has `Stamped = TRUE`.
- A report is only as good as the comparison behind it. `reconcile` compares
  positions with the fills it knows of and commits later, without a lock. With
  two reconcilers `ReadyMatchesFills` fails: the other one stores fills between
  the comparison and the commit. `fill_progress` therefore has one.
- A sale whose fee exceeds cash plus proceeds is counted as rejected after it has
  changed the portfolio, although the docstring of `apply_fill` promises an
  atomic update (`portfolio.py:38`). The run halts (`NegativeCashHalts`) and the
  books still balance, but the fill is missing from the report: that is why
  `ReportAgrees` compares the two only in runs without a rejected fill.
- An order that fills after the positions were read and before the open orders
  are read is counted in neither, so the next order may exceed the gross limit
  or go below the reserve. `GrossBounded` and `ReserveKept` therefore allow for
  `slip`, the shares that filled during one assessment. The excess does not add
  up over assessments, the allowance is exact (with one share less TLC finds
  both violated), and `SlipLimit` bounds it.
- A sell is compared with the position and not with other open sells; two sells
  of the same shares are both approved. `GrossBounded` therefore counts long
  positions, and `OversellBounded` says how far short the account can get.
- An assessment whose account read comes later than the timestamp plus the
  allowed skew is always denied.
- A started row whose order never reached the broker has no way to a terminal
  state; the documents call for operator intervention.
- A restart forgets the request budget, so `WindowBounded` is about one process.
  The context is verified once per call; a record may expire between that check
  and the POST, so `MutationsAuthorized` bounds the time of the check.
- `run_locked_holdout` checks that no receipt exists and writes it later, without
  a lock. Two overlapping commands both score the holdout (TLC finds it when
  `OpenedOnce` drops `~ disturbed`), while `docs/RESEARCH_PROTOCOL.md:51` says a
  second attempt fails closed.
- The receipt records no data digests. When data are fetched again and are
  shorter, the holdout scores bars that the evaluation has read (TLC finds it
  when `HoldoutUnseen` drops the condition on lengths).
- The summary's protocol digest is taken at the end of an evaluation
  (`evaluation.py:819`), so a protocol edited during the trials is recorded as the
  one used. When the edit enlarges the holdout window and data of the same length
  are fetched again under the edited file, `open-holdout` finds all digests in
  order and scores bars that the trials have read. `run_locked_holdout` itself
  loads the protocol (line 891) before it takes the digest (line 905): an edit
  that is in the file only while it is loaded makes it score under windows that
  nothing vouches for. TLC finds both when `HoldoutUnseen` drops `~ edited`.
- `_simulate` looks for artifacts and unlinks them before it takes the lock, so
  overlapping runs with `--overwrite` can mix their events in one ledger or leave
  a report next to another run's ledger (TLC finds it when `LedgerOneRun` drops
  `~ overlapped`); `README.md:37` lists the single-instance lock and
  the overwrite protection together.

## 4. Fairness

- `MCPaperRecovery!RecoverySpec`: a call that runs goes on (weak fairness; the
  process is scheduled), and recovery of a row is attempted again and again, as
  the documented procedure asks (strong fairness on starting it, because it is
  enabled only between other calls). Nothing is assumed of attempts, which may
  crash at any step, or of the broker, which need not answer.
- `MCFillProgress!ProgressSpec`: reconciliation is called again and again. The
  broker's activity is bounded by `MaxFills`, below the limit at which pagination
  raises.

Both assume that recoveries and reconciliations fail from outside only finitely
often. A crash leaves the same state as an ordinary return, so a formula over
the model's variables cannot exclude the one without the other; the two modules
count crashes instead, up to `MaxFailures`.

The other runs assume no fairness.

## 5. Proofs

**PaperExecutionProofs** proves `Spec => []IInv` for any finite or infinite sets
of attempts, orders, recoverers, operators and approvals, and from it type
correctness, `AtMostOneSubmission`, `ClaimBeforeSubmission` and
`AcknowledgedOrderExists`. None of these is inductive. A second POST could come
from a call that is already past its claim, so the invariant says who may be
there: `ClaimInv` states that of the attempts at one order at most one is between
its claim and its POST, that its order was not sent before, and that a started
row carries the digest of an attempt that cannot claim again. The last part is
what makes a repeated `started` transition with the same reason harmless, and it
needs the assumption that digests are unique. `EvidenceInv` follows knowledge of
the broker through the local variables of every call up to the row, and
`CallsInv` says where a reconciliation inside another call returns to.

**PaperContractProofs** proves that every step is a step of `SubmissionContract`
or leaves its variables alone (`Refinement`), and `TerminalIsFinal`,
`KillHoldsPause`, `ApprovalsUsedOnce` and `NoFalseUnexplainedOrder`. The last one depends on the order of two reads: open
orders are listed before the known IDs are read, and an order is durable before
it is sent.

Under the premise `Serialized` it also proves `RejectedNeverLive`,
`OneUnresolvedAtATime` and `ResumeOnlyResolved`. `SerialInv` says that at most one
call runs and that what it has read of the journal is still so: an attempt
before its insert sees no unresolved row, one before its claim a persisted row,
a recoverer about to reject a row that was never claimed, and a reconciliation
that is clean so far has the unresolved rows still ahead of it. A definite
refusal answers the only POST of its order, so nothing can come into being after
it. The premise is needed for the first two: `exec_rejected_live` is the
counterexample without it for `RejectedNeverLive`, section 3 describes the one
for `OneUnresolvedAtATime`.

**FillProofs** proves `TypeOK`, `CheckpointCovered`, `AttributionStable` (stated by
the proof only; the contract of the run implies it) and `ImplementsEvidence` for any
number of reconcilers, page sizes and page limits. `FillInv` says of every running
call that the pages it read begin where some committed checkpoint was and that
all fills up to that point are stored; so a commit in any order covers its own
checkpoint. The same invariant gives the refinement: every accepted transaction is
one `Commit` of `EvidenceContract`, every fill of the broker an `Execute`, and
every other step leaves the contract's state alone (`EvidenceRefinement`). The
contract does not promise that the checkpoint only advances: a slower call may
set it back, and its fills are then read and merged again. The types need `CallInv`: the page counter stops at its limit, and
`updated_at` is bounded by what the broker did. Two more results have a premise:
- `OrderRowsMonotonic` when the broker reports `updated_at` (`Stamped`).
  `SnapshotsInv` says that a cached or stored snapshot is not newer than the
  broker's order, and is that order if it is as new or terminal; a terminal row
  therefore can only be replaced by itself.
- `ReadyMatchesFills` with one reconciler. `ProjectionInv` says that what a call
  without issues is about to store adds up, with the table, to the position it
  read. It is about the stored position, not the broker's current one.

**SimulationProofs** proves `TypeOK`, `AccountingIdentity`, `NegativeCashHalts`,
`HaltedExitPending`, `NoBuyWhileHalted` and `BoundedBuyAccepted` for all prices,
targets, fees and limits. `SimInv` adds that at most one order is in flight, that
no buy is in flight in a halted run, and that the breakers have been observed
before an order is decided. `BoundedBuyAccepted` is about a buy that was sized at
one price and fills at another; `SizedInv` says that until it fills, its cost at
the conservative price, fees included, fits the cash and the order limit
(`SharesFit` is the division in the sizing), and a fill at or below that price
costs no more.

The same module proves `ReportAgrees`, and that the report only watches: every
step of `ReportSpec` is one of the engine's (`ReportWatches`), so what holds for
the engine holds in the composition. `ReportInv` relates the accumulator to the
portfolio between two flat positions: what it has received minus what it has
paid, plus the remaining basis, is the realized profit; and the accumulator
never holds less than the portfolio, which is why no sale is impossible even
after a rejected one.

**PreTradeProofs** proves `TypeOK`, `RateBounded`, `GrossBounded`, `ReserveKept` and
`OversellBounded` for any finite set of symbols and any limits, whatever the
broker does between the reads of an assessment. `RateBounded` is about
every window, also those that end in the future: a stamp is never later than the
clock, and of the stamps in a window all but the newest were counted when the
newest was admitted. The other three need `LimitsInv`. A snapshot may be stale
when the decision is made, but it is off by no more than `moved`, the shares
filled since (`SnapshotsInv`); and once the open orders have been listed, later
fills and expiries only make room, because a fill moves quantity from the open
orders to the position (`ListedInv`, which compares what the snapshots leave with
what is really left). An order that was approved and has not reached the broker's
book still fits (`SentInv`). The allowance is the largest `moved` of any single
assessment and not a sum over them, because each decision starts from fresh
snapshots. `SlipLimit` proves that it is at most `MaxOpen * MaxOrder`: nothing is
added to the book during an assessment, so what fills was open when it began
(`SlipInv`), and the book is that small because a decision counts the listed
orders before there are fewer of them.

**FiniteSums** has what these proofs need of sums over finite sets: adding,
removing and changing an element, monotonicity, bounds. The library's
induction theorems take a predicate as a parameter, which the provers cannot
instantiate; the lemmas go by minimal counterexamples instead, a set of subsets
of a finite set having a minimal element.

**SessionProofs** proves `SessionTypeOK`, `WindowBounded` and
`MutationsAuthorized` for any number of threads, deployments, records and ticks.
The deque does not contain what it has dropped, so `BudgetInv` says that it is
the end of the sequence of all admissions, that admissions are ordered, and that
what was dropped is at least a window older than the newest stamp. The authority
of a POST goes from the record through the context to the grant of a running
call, and the invariant follows it along that way; a restart cuts it.

**ResearchProofs** proves `ResearchTypeOK`, `HoldoutUnseen`, `OpenedOnce`,
`AcceptanceEarned` and `LedgerOneRun` for any processes and lengths and any
protocols, each with windows, offsets and a gate of its own, without the bounds
of the run. `HoldoutUnseen` has two premises, data of one length and a protocol
file that was never edited while a command ran; commands may overlap, crash and
overwrite, and the protocol may be edited between them. It rests on the geometry
(`TrialsEnd`: no trial reads a bar of the holdout of its own protocol), on
`FoldsInv`, which carries it from the process that computed an evaluation through
the files to the results, and on `UneditedInv`, which says that trials and holdout
had the same protocol: running commands work under the protocol in the file, the
artifacts that are there are of one protocol, which their digest names, and
artifacts of an earlier protocol are still on the list of every evaluation that
is unlinking. Without the last part a slower overlapping evaluation could write
next to artifacts of another protocol. The others need `AloneInv`: as long as commands did not overlap,
the artifacts that are there are of one honest evaluation, an evaluation writes
into an emptied directory, and an opened holdout works on exactly what its
receipt names. `SimulationInv` says the same of the output directory: the lock is
taken in an emptied directory, and the ledger is the run's own.

Assumptions: the named `ASSUME`s of the modules (`JournalConstants`,
`ApprovalConstants`, `ExecutionConstants`, `UniqueDigests`, `FillConstants`,
`ControlConstants`, `SimulationConstants`, `BudgetAssumption`, `GateAssumption`,
`SessionAssumption`, `ProtocolsAssumption`, `CommandsAssumption`), which are type
conditions, the conditions the constructors and `load_protocol` enforce, unique
digests, and start offsets that are not negative (true of the repository's
protocols; `load_protocol` does not check it).

Only model-checked: the liveness properties `LiveOrderReconciled`,
`PersistedRowResolved` and `FillsEventuallyStored` (TLAPS does not handle fairness
here). Every other property of a passing run is a theorem, with the premises
named above; the three properties of the violated runs are refuted by TLC.

## 6. Plan

Done: the paper path, fills, pre-trade limits and simulation first; then the
request budget and the gate (`PaperSession`), the report (`SimulationReport`) and
the research commands (`ResearchCommands`); then the proofs, the two contracts
and the pre-trade limits with a broker that trades during an assessment. What is
left:

1. The pre-trade controls with prices that move between assessment and fill.
2. What a ready report promises when several reconcilers run, where
   `ReadyMatchesFills` does not hold.

## 7. Not modelled

File permission and path checks, SQLite's own atomicity (assumed: a method is a
transaction), HMAC and SHA-256 (assumed: a digest names its content), JSON and
HTTP formatting, `Decimal` precision beyond the quantisation of fill prices,
performance statistics and report rendering, what a trial of an evaluation
measures (any verdict is allowed, subject to the fold count), the moving-average
strategy (any target is allowed), CSV parsing (any event sequence is allowed),
the validation of control data (a nondeterministic denial), credentials,
configuration and argument parsing.

Out of TLAPS's reach and left to TLC: liveness under fairness.
`BrokerOrderStateMachine` (`domain/brokerage.py`) has no caller outside the tests.
