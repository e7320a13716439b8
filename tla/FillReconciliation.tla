-------------------------- MODULE FillReconciliation --------------------------
(***************************************************************************)
(* The evidence part of PaperReconciler.reconcile and of                   *)
(* SQLiteBrokerJournal.apply_reconciliation: positions, open orders,       *)
(* paginated fill activities, their attribution to client order IDs, the   *)
(* projected positions, and the transaction that commits all of it with    *)
(* the activity checkpoint.  Several processes may reconcile at once       *)
(* against the same journal, while the broker goes on trading.             *)
(*                                                                         *)
(* One symbol; every fill is one unit.  An activity's ID and execution ID  *)
(* are its index in the broker's ledger, which only grows.  An order       *)
(* snapshot is its status and its updated_at; the latter counts changes if *)
(* the broker reports it, and is the constant submission time otherwise.   *)
(***************************************************************************)
EXTENDS Integers, Sequences, FiniteSets, FiniteSetsExt, Functions

CONSTANTS Reconcilers,  \* processes calling reconcile
          OrderIds,     \* orders at the broker
          Owned,        \* those with a client ID of this strategy's namespace
          Rows,         \* those with a submission row in the journal
          Sign,         \* order -> 1 for a buy, -1 for a sell
          Stamped,      \* TRUE: the broker reports updated_at
          PageSize,     \* page_size
          MaxPages,     \* maximum_pages
          MaxFills,     \* bound on the broker's activity
          None

ASSUME FillConstants ==
  /\ Rows \subseteq Owned /\ Owned \subseteq OrderIds
  /\ Sign \in [OrderIds -> {-1, 1}]
  /\ Stamped \in BOOLEAN
  /\ PageSize \in Nat \ {0} /\ MaxPages \in Nat \ {0} /\ MaxFills \in Nat

Ids == 1 .. MaxFills
Statuses == {"open", "filled", "canceled"}
Snapshots == [status : Statuses, at : 0 .. (MaxFills + 1)]

VARIABLES
  ledger,      \* external broker: fill activities, oldest first
  book,        \* external broker: order -> snapshot
  fills,       \* table broker_fills: "absent", "anonymous" or "attributed"
  checkpoint,  \* table checkpoints: last activity ID, 0 for none
  orderRows,   \* table broker_orders
  position,    \* table broker_positions
  ready,       \* table reconciliation_reports: the last report was ready
  pc,          \* where each reconcile is
  seen,        \* position it read
  cache,       \* its order_cache
  first,       \* checkpoint its pagination started from
  last,        \* last activity it read
  pages,       \* pages it read
  named,       \* activities it attributed to a client ID
  todo,        \* activities it has still to attribute
  issues       \* it found an issue

brokerVars == <<ledger, book>>
tableVars == <<fills, checkpoint, orderRows, position, ready>>
localVars == <<seen, cache, first, last, pages, named, todo, issues>>
vars == <<brokerVars, tableVars, localVars, pc>>

\* Every table and every local variable has values of its own kind.
TypeOK ==
  /\ ledger \in Seq(OrderIds) /\ Len(ledger) <= MaxFills
  /\ book \in [OrderIds -> Snapshots]
  /\ fills \in [Ids -> {"absent", "anonymous", "attributed"}]
  /\ checkpoint \in 0 .. MaxFills
  /\ orderRows \in [OrderIds -> Snapshots \cup {None}]
  /\ position \in Int
  /\ ready \in BOOLEAN
  /\ pc \in [Reconcilers -> {"idle", "orders", "pages", "page", "owners", "apply"}]
  /\ seen \in [Reconcilers -> Int]
  /\ cache \in [Reconcilers -> [OrderIds -> Snapshots \cup {None}]]
  /\ first \in [Reconcilers -> 0 .. MaxFills]
  /\ last \in [Reconcilers -> 0 .. MaxFills]
  /\ pages \in [Reconcilers -> 0 .. MaxPages]
  /\ named \in [Reconcilers -> SUBSET Ids]
  /\ todo \in [Reconcilers -> SUBSET Ids]
  /\ issues \in [Reconcilers -> BOOLEAN]

Empty == [o \in OrderIds |-> None]

Init ==
  /\ ledger = <<>>
  /\ book = [o \in OrderIds |-> [status |-> "open", at |-> 0]]
  /\ fills = [i \in Ids |-> "absent"]
  /\ checkpoint = 0
  /\ orderRows = Empty
  /\ position = 0
  /\ ready = FALSE
  /\ pc = [r \in Reconcilers |-> "idle"]
  /\ seen = [r \in Reconcilers |-> 0]
  /\ cache = [r \in Reconcilers |-> Empty]
  /\ first = [r \in Reconcilers |-> 0]
  /\ last = [r \in Reconcilers |-> 0]
  /\ pages = [r \in Reconcilers |-> 0]
  /\ named = [r \in Reconcilers |-> {}]
  /\ todo = [r \in Reconcilers |-> {}]
  /\ issues = [r \in Reconcilers |-> FALSE]

-----------------------------------------------------------------------------
(* The external broker *)

Change(o, status) ==
  book' = [book EXCEPT ![o] = [status |-> status, at |-> IF Stamped THEN @.at + 1 ELSE @.at]]

\* A partial or a final fill, reported at once as an activity.
BrokerFill(o) ==
  /\ book[o].status = "open"
  /\ Len(ledger) < MaxFills
  /\ ledger' = Append(ledger, o)
  /\ \E status \in {"open", "filled"} : Change(o, status)
  /\ UNCHANGED <<tableVars, localVars, pc>>

BrokerCancel(o) ==
  /\ book[o].status = "open"
  /\ Change(o, "canceled")
  /\ UNCHANGED <<ledger, tableVars, localVars, pc>>

Units(ids) == SumFunction([i \in ids |-> Sign[ledger[i]]])

-----------------------------------------------------------------------------
(* PaperReconciler.reconcile *)

Goto(r, label) == pc' = [pc EXCEPT ![r] = label]

\* The call ends; its local variables are gone.
Return(r) ==
  /\ Goto(r, "idle")
  /\ seen' = [seen EXCEPT ![r] = 0]
  /\ cache' = [cache EXCEPT ![r] = Empty]
  /\ first' = [first EXCEPT ![r] = 0]
  /\ last' = [last EXCEPT ![r] = 0]
  /\ pages' = [pages EXCEPT ![r] = 0]
  /\ named' = [named EXCEPT ![r] = {}]
  /\ todo' = [todo EXCEPT ![r] = {}]
  /\ issues' = [issues EXCEPT ![r] = FALSE]

\* get_account and list_positions; a restricted account is an issue.
ReadPositions(r) ==
  /\ pc[r] = "idle"
  /\ Goto(r, "orders")
  /\ seen' = [seen EXCEPT ![r] = Units(1 .. Len(ledger))]
  /\ \E permitted \in BOOLEAN : issues' = [issues EXCEPT ![r] = ~permitted]
  /\ UNCHANGED <<brokerVars, tableVars, cache, first, last, pages, named, todo>>

\* list_open_orders: a foreign order, or an owned one without a row.
ReadOpenOrders(r) ==
  LET open == {o \in OrderIds : book[o].status = "open"}
  IN  /\ pc[r] = "orders"
      /\ Goto(r, "pages")
      /\ cache' = [cache EXCEPT ![r] = [o \in OrderIds |-> IF o \in open THEN book[o] ELSE None]]
      /\ issues' = [issues EXCEPT ![r] = @ \/ ~(open \subseteq Rows)]
      /\ UNCHANGED <<brokerVars, tableVars, seen, first, last, pages, named, todo>>

\* activity_checkpoint: the page token to start from.
ReadCheckpoint(r) ==
  /\ pc[r] = "pages"
  /\ Goto(r, "page")
  /\ first' = [first EXCEPT ![r] = checkpoint]
  /\ last' = [last EXCEPT ![r] = checkpoint]
  /\ UNCHANGED <<brokerVars, tableVars, seen, cache, pages, named, todo, issues>>

\* Mutants: the page limit is not enforced; the last page allowed raises
\* even when it is short.
MutReadPageUnbounded(r) ==
  LET end == Min({last[r] + PageSize, Len(ledger)})
  IN  /\ pc[r] = "page"
      /\ last' = [last EXCEPT ![r] = end]
      /\ todo' = [todo EXCEPT ![r] = @ \cup ((last[r] + 1) .. end)]
      /\ pages' = [pages EXCEPT ![r] = @ + 1]
      /\ Goto(r, IF end = last[r] + PageSize THEN "page" ELSE "owners")
      /\ UNCHANGED <<brokerVars, tableVars, seen, cache, first, named, issues>>

MutReadPageAgain(r) ==
  LET end == Min({last[r] + PageSize, Len(ledger)})
  IN  /\ pc[r] = "page"
      /\ IF pages[r] + 1 = MaxPages
           THEN Return(r)
           ELSE /\ last' = [last EXCEPT ![r] = end]
                /\ todo' = [todo EXCEPT ![r] = @ \cup ((last[r] + 1) .. end)]
                /\ pages' = [pages EXCEPT ![r] = @ + 1]
                /\ Goto(r, IF end = last[r] + PageSize THEN "page" ELSE "owners")
                /\ UNCHANGED <<seen, cache, first, named, issues>>
      /\ UNCHANGED <<brokerVars, tableVars>>

\* list_fill_activities: a full page has a next token; a full page that is
\* the last one allowed raises.
ReadPage(r) ==
  LET end == Min({last[r] + PageSize, Len(ledger)})
      full == end = last[r] + PageSize
  IN  /\ pc[r] = "page"
      /\ IF full /\ pages[r] + 1 = MaxPages
           THEN Return(r)
           ELSE /\ last' = [last EXCEPT ![r] = end]
                /\ todo' = [todo EXCEPT ![r] = @ \cup ((last[r] + 1) .. end)]
                /\ pages' = [pages EXCEPT ![r] = @ + 1]
                /\ Goto(r, IF full THEN "page" ELSE "owners")
                /\ UNCHANGED <<seen, cache, first, named, issues>>
      /\ UNCHANGED <<brokerVars, tableVars>>

\* One activity's owner: from the cache, or by get_order_by_id, which may
\* not know the order (yet); a missing order is an issue.
Attribute(r) ==
  /\ pc[r] = "owners"
  /\ \E i \in todo[r] :
       /\ \A j \in todo[r] : i <= j
       /\ todo' = [todo EXCEPT ![r] = @ \ {i}]
       /\ \/ /\ named' = [named EXCEPT ![r] = @ \cup {i}]
             /\ cache' = IF cache[r][ledger[i]] = None
                           THEN [cache EXCEPT ![r][ledger[i]] = book[ledger[i]]]
                           ELSE cache
             /\ UNCHANGED issues
          \/ /\ cache[r][ledger[i]] = None
             /\ issues' = [issues EXCEPT ![r] = TRUE]
             /\ UNCHANGED <<named, cache>>
  /\ UNCHANGED <<brokerVars, tableVars, seen, first, last, pages, pc>>

\* What a fill looks like once this call's activities are merged in.
Merged(r, i) ==
  IF i \in (first[r] + 1) .. last[r]
    THEN IF i \in named[r] THEN "attributed" ELSE "anonymous"
    ELSE fills[i]

\* _project_owned_positions and _compare_positions over all_fills.
OwnedFills(attributed) == {i \in attributed : ledger[i] \in Owned}

\* Mutant: only the fills of earlier calls are projected.
MutProject(r) ==
  LET owned == OwnedFills({i \in Ids : fills[i] = "attributed"})
  IN  /\ pc[r] = "owners"
      /\ todo[r] = {}
      /\ Goto(r, "apply")
      /\ issues' = [issues EXCEPT ![r] = @ \/ Units(owned) # seen[r]]
      /\ UNCHANGED <<brokerVars, tableVars, seen, cache, first, last, pages, named, todo>>

Project(r) ==
  LET owned == OwnedFills({i \in Ids : Merged(r, i) = "attributed"})
  IN  /\ pc[r] = "owners"
      /\ todo[r] = {}
      /\ Goto(r, "apply")
      /\ issues' = [issues EXCEPT ![r] = \/ @
                                         \/ \E i \in owned : ledger[i] \notin Rows
                                         \/ Units(owned) # seen[r]]
      /\ UNCHANGED <<brokerVars, tableVars, seen, cache, first, last, pages, named, todo>>

\* Mutants of the two conflict rules of apply_reconciliation.
MutOrdersAccepted(r) == TRUE

\* An order row never moves to an earlier updated_at.
OrdersAccepted(r) ==
  \A o \in OrderIds :
    orderRows[o] # None /\ cache[r][o] # None => orderRows[o].at <= cache[r][o].at

MutFillsAccepted(r) == TRUE

\* A stored fill is replaced only to attribute it.
FillsAccepted(r) ==
  \A i \in (first[r] + 1) .. last[r] : fills[i] = "attributed" => i \in named[r]

\* Mutant: the checkpoint is committed on its own.
MutApply(r) ==
  /\ pc[r] = "apply"
  /\ checkpoint' = IF last[r] = 0 THEN checkpoint ELSE last[r]
  /\ IF OrdersAccepted(r) /\ FillsAccepted(r)
       THEN /\ orderRows' = [o \in OrderIds |->
                               IF cache[r][o] = None THEN orderRows[o] ELSE cache[r][o]]
            /\ fills' = [i \in Ids |-> Merged(r, i)]
            /\ position' = seen[r]
            /\ ready' = ~issues[r]
       ELSE UNCHANGED <<fills, orderRows, position, ready>>
  /\ Return(r)
  /\ UNCHANGED brokerVars

\* apply_reconciliation: one transaction, or a conflict that rolls back.
Apply(r) ==
  /\ pc[r] = "apply"
  /\ IF OrdersAccepted(r) /\ FillsAccepted(r)
       THEN /\ orderRows' = [o \in OrderIds |->
                               IF cache[r][o] = None THEN orderRows[o] ELSE cache[r][o]]
            /\ fills' = [i \in Ids |-> Merged(r, i)]
            /\ checkpoint' = IF last[r] = 0 THEN checkpoint ELSE last[r]
            /\ position' = seen[r]
            /\ ready' = ~issues[r]
       ELSE UNCHANGED tableVars
  /\ Return(r)
  /\ UNCHANGED brokerVars

\* A read fails, a response is malformed, or the process dies.
Fail(r) ==
  /\ pc[r] # "idle"
  /\ Return(r)
  /\ UNCHANGED <<brokerVars, tableVars>>

Reconcile(r) ==
  \/ ReadPositions(r)
  \/ ReadOpenOrders(r)
  \/ ReadCheckpoint(r)
  \/ ReadPage(r)
  \/ Attribute(r)
  \/ Project(r)
  \/ Apply(r)

Next ==
  \/ \E o \in OrderIds : BrokerFill(o) \/ BrokerCancel(o)
  \/ \E r \in Reconcilers : Reconcile(r) \/ Fail(r)

Spec == Init /\ [][Next]_vars

-----------------------------------------------------------------------------
(* Properties *)

\* ARCHITECTURE.md: the checkpoint advances only with the retained
\* activities, so no activity at or before it is ever missing, whoever else
\* reconciled in the meantime.
CheckpointCovered == \A i \in 1 .. checkpoint : fills[i] # "absent"

\* apply_reconciliation commits fills, attributions and checkpoint as the
\* contract says, whatever the pages, the order snapshots and the conflicts of
\* concurrent calls: every accepted transaction is one Commit of the contract.
Evidence == INSTANCE EvidenceContract WITH
  activities <- Len(ledger),
  stored <- {i \in Ids : fills[i] # "absent"},
  attributed <- {i \in Ids : fills[i] = "attributed"}

ImplementsEvidence == Evidence!Spec

\* A fill is stored once and its owner, once known, is never lost.
AttributionStable ==
  [][\A i \in Ids : /\ fills[i] # "absent" => fills'[i] # "absent"
                    /\ fills[i] = "attributed" => fills'[i] = "attributed"]_vars

\* FAILURE_INJECTION.md: the transaction validates order-state
\* monotonicity, so a terminal order row keeps its status.
OrderRowsMonotonic ==
  [][\A o \in OrderIds :
       orderRows[o] # None /\ orderRows[o].status # "open" =>
         orderRows'[o] # None /\ orderRows'[o].status = orderRows[o].status]_vars

\* A ready report means that the stored position is what the stored fills
\* of this strategy add up to.
ReadyMatchesFills ==
  ready => position = Units(OwnedFills({i \in Ids : fills[i] = "attributed"}))

\* Every activity is eventually stored, however the broker trades on.
FillsEventuallyStored ==
  \A i \in Ids : Len(ledger) >= i ~> fills[i] # "absent"

\* ARCHITECTURE.md: missing activity ownership produces a non-ready report,
\* so a ready report leaves no stored fill without an owner.
ReadyIsAttributed == ready => \A i \in Ids : fills[i] # "anonymous"
=============================================================================
