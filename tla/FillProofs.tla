------------------------------ MODULE FillProofs ------------------------------
(***************************************************************************)
(* What the transaction of apply_reconciliation guarantees for any number  *)
(* of concurrent reconcilers, pages and fills: the activity checkpoint     *)
(* never passes a fill that is not stored, stored fills are not lost, and  *)
(* the evidence contract is implemented.                                   *)
(***************************************************************************)
EXTENDS FillReconciliation, FiniteSums

USE FillConstants

\* What the proofs need of the types.
Kinds ==
  /\ ledger \in Seq(OrderIds) /\ Len(ledger) <= MaxFills
  /\ fills \in [Ids -> {"absent", "anonymous", "attributed"}]
  /\ checkpoint \in Nat
  /\ pc \in [Reconcilers -> {"idle", "orders", "pages", "page", "owners", "apply"}]
  /\ first \in [Reconcilers -> Nat] /\ last \in [Reconcilers -> Nat]

\* A position in the broker's ledger up to which every fill is stored.
Covered(n) == n <= Len(ledger) /\ \A i \in 1 .. n : fills[i] # "absent"

\* The checkpoint is covered, and so is the one each call started from: a
\* call reads a gapless run of activities after it.
PageInv ==
  /\ Covered(checkpoint)
  /\ \A r \in Reconcilers : /\ Covered(first[r])
                            /\ first[r] <= last[r] /\ last[r] <= Len(ledger)

\* The inductive invariant.
FillInv == Kinds /\ PageInv

\* The smaller of two numbers.
LEMMA MinOfTwo ==
  ASSUME NEW a \in Int, NEW b \in Int
  PROVE  Min({a, b}) \in {a, b} /\ Min({a, b}) <= a /\ Min({a, b}) <= b
<1>1. \E x \in {a, b} : \A y \in {a, b} : x =< y
  OBVIOUS
<1> QED BY <1>1 DEF Min

\* The empty tables satisfy the invariant.
LEMMA InitFill == Init => FillInv
BY DEF Init, FillInv, Kinds, PageInv, Covered, Ids

\* A call that returns leaves nothing behind.
LEMMA ReturnFill ==
  ASSUME FillInv, NEW r \in Reconcilers, Return(r), UNCHANGED <<brokerVars, tableVars>>
  PROVE  FillInv'
<1>1. Kinds'
  BY DEF FillInv, Kinds, Return, Goto, brokerVars, tableVars
<1>2. PageInv'
  BY DEF FillInv, Kinds, PageInv, Covered, Return, brokerVars, tableVars
<1> QED BY <1>1, <1>2 DEF FillInv

\* The ledger only grows, and the broker touches no table.
LEMMA BrokerFillInv ==
  ASSUME FillInv, NEW o \in OrderIds, BrokerFill(o) \/ BrokerCancel(o)
  PROVE  FillInv'
<1>1. /\ ledger' \in Seq(OrderIds) /\ Len(ledger) <= Len(ledger') /\ Len(ledger') <= MaxFills
      /\ Len(ledger) \in Nat /\ Len(ledger') \in Nat
  <2>1. ledger \in Seq(OrderIds) /\ Len(ledger) \in Nat /\ Len(ledger) <= MaxFills
    BY DEF FillInv, Kinds
  <2>2. CASE BrokerFill(o)
    <3>1. ledger' = Append(ledger, o) /\ Len(ledger) < MaxFills
      BY <2>2 DEF BrokerFill
    <3>2. Append(ledger, o) \in Seq(OrderIds) /\ Len(Append(ledger, o)) = Len(ledger) + 1
      BY <2>1
    <3> QED BY <2>1, <3>1, <3>2
  <2>3. CASE BrokerCancel(o)
    BY <2>1, <2>3 DEF BrokerCancel
  <2> QED BY <2>2, <2>3
<1>2. UNCHANGED <<tableVars, localVars, pc>>
  BY DEF BrokerFill, BrokerCancel
<1>3. Kinds'
  BY <1>1, <1>2 DEF FillInv, Kinds, tableVars, localVars
<1>4. PageInv'
  BY <1>1, <1>2 DEF FillInv, Kinds, PageInv, Covered, tableVars, localVars
<1> QED BY <1>3, <1>4 DEF FillInv

\* A call starts from the checkpoint and reads on from where it is.
LEMMA ReadsFill ==
  ASSUME FillInv, NEW r \in Reconcilers,
         \/ ReadPositions(r) \/ ReadOpenOrders(r) \/ ReadCheckpoint(r)
         \/ ReadPage(r) \/ Attribute(r) \/ Project(r) \/ Fail(r)
  PROVE  FillInv'
<1>1. CASE ReadPositions(r) \/ ReadOpenOrders(r) \/ Project(r)
  <2>1. /\ UNCHANGED <<ledger, fills, checkpoint, first, last>>
        /\ pc' \in [Reconcilers -> {"idle", "orders", "pages", "page", "owners", "apply"}]
    BY <1>1 DEF ReadPositions, ReadOpenOrders, Project, Goto, FillInv, Kinds, brokerVars,
      tableVars
  <2> QED BY <2>1 DEF FillInv, Kinds, PageInv, Covered
<1>2. CASE ReadCheckpoint(r)
  <2>1. Kinds'
    BY <1>2 DEF ReadCheckpoint, Goto, FillInv, Kinds, brokerVars, tableVars
  <2>2. PageInv'
    BY <1>2 DEF ReadCheckpoint, FillInv, Kinds, PageInv, Covered, brokerVars, tableVars
  <2> QED BY <2>1, <2>2 DEF FillInv
<1>3. CASE ReadPage(r)
  <2> DEFINE end == Min({last[r] + PageSize, Len(ledger)})
  <2>1. CASE end = last[r] + PageSize /\ pages[r] + 1 = MaxPages
    BY <1>3, <2>1, ReturnFill DEF ReadPage
  <2>2. CASE ~(end = last[r] + PageSize /\ pages[r] + 1 = MaxPages)
    <3>1. end \in Nat /\ last[r] <= end /\ end <= Len(ledger)
      <4>1. last[r] + PageSize \in Int /\ Len(ledger) \in Int /\ last[r] \in Nat
        BY DEF FillInv, Kinds
      <4>2. last[r] <= last[r] + PageSize /\ last[r] <= Len(ledger)
        BY <4>1 DEF FillInv, PageInv
      <4> DEFINE a == last[r] + PageSize
                 b == Len(ledger)
      <4>3. Min({a, b}) \in {a, b} /\ Min({a, b}) <= a /\ Min({a, b}) <= b
        BY <4>1, MinOfTwo
      <4> QED BY <4>1, <4>2, <4>3
    <3>2. /\ last' = [last EXCEPT ![r] = end]
          /\ UNCHANGED <<ledger, fills, checkpoint, first>>
          /\ pc' \in [Reconcilers -> {"idle", "orders", "pages", "page", "owners", "apply"}]
      BY <1>3, <2>2 DEF ReadPage, Goto, FillInv, Kinds, brokerVars, tableVars
    <3> HIDE DEF end
    <3>3. Kinds'
      BY <3>1, <3>2 DEF FillInv, Kinds
    <3>4. PageInv'
      BY <3>1, <3>2 DEF FillInv, Kinds, PageInv, Covered
    <3> QED BY <3>3, <3>4 DEF FillInv
  <2> QED BY <2>1, <2>2
<1>4. CASE Attribute(r)
  <2>1. UNCHANGED <<ledger, fills, checkpoint, first, last, pc>>
    BY <1>4 DEF Attribute, brokerVars, tableVars
  <2> QED BY <2>1 DEF FillInv, Kinds, PageInv, Covered
<1>5. CASE Fail(r)
  BY <1>5, ReturnFill DEF Fail
<1> QED BY <1>1, <1>2, <1>3, <1>4, <1>5

\* Merging a call's activities loses no stored fill and stores every one it
\* read.
LEMMA MergedKeeps ==
  ASSUME FillInv, NEW r \in Reconcilers, NEW i \in Ids
  PROVE  /\ Merged(r, i) \in {"absent", "anonymous", "attributed"}
         /\ fills[i] # "absent" => Merged(r, i) # "absent"
         /\ i <= last[r] => Merged(r, i) # "absent"
         /\ FillsAccepted(r) /\ fills[i] = "attributed" => Merged(r, i) = "attributed"
<1>1. i \in Nat \ {0} /\ first[r] \in Nat /\ last[r] \in Nat
  BY DEF FillInv, Kinds, Ids
<1>2. i <= first[r] => fills[i] # "absent"
  BY <1>1 DEF FillInv, PageInv, Covered
<1>3. fills[i] \in {"absent", "anonymous", "attributed"}
  BY DEF FillInv, Kinds
<1>4. i \in (first[r] + 1) .. last[r] => Merged(r, i) \in {"anonymous", "attributed"}
  BY DEF Merged
<1>5. i \notin (first[r] + 1) .. last[r] => Merged(r, i) = fills[i]
  BY DEF Merged
<1>6. i <= last[r] => i \in (first[r] + 1) .. last[r] \/ i <= first[r]
  BY <1>1
<1>7. FillsAccepted(r) /\ fills[i] = "attributed" => Merged(r, i) = "attributed"
  BY DEF FillsAccepted, Merged
<1> QED BY <1>2, <1>3, <1>4, <1>5, <1>6, <1>7

\* The transaction stores the activities with the checkpoint behind them.
LEMMA ApplyFillInv ==
  ASSUME FillInv, NEW r \in Reconcilers, Apply(r)
  PROVE  FillInv'
<1>1. CASE ~(OrdersAccepted(r) /\ FillsAccepted(r))
  BY <1>1, ReturnFill DEF Apply
<1>2. CASE OrdersAccepted(r) /\ FillsAccepted(r)
  <2>1. /\ ledger' = ledger /\ fills' = [i \in Ids |-> Merged(r, i)]
        /\ checkpoint' = IF last[r] = 0 THEN checkpoint ELSE last[r]
        /\ first' = [first EXCEPT ![r] = 0] /\ last' = [last EXCEPT ![r] = 0]
        /\ pc' = [pc EXCEPT ![r] = "idle"]
    BY <1>2 DEF Apply, Return, Goto, brokerVars
  <2>2. /\ ledger \in Seq(OrderIds) /\ Len(ledger) \in Nat /\ Len(ledger) <= MaxFills
        /\ checkpoint \in Nat /\ last[r] \in Nat /\ first[r] \in Nat
        /\ last[r] <= Len(ledger) /\ checkpoint <= Len(ledger)
    BY DEF FillInv, Kinds, PageInv, Covered
  <2>3. Kinds'
    <3>1. fills' \in [Ids -> {"absent", "anonymous", "attributed"}]
      BY <2>1, MergedKeeps
    <3>2. checkpoint' \in Nat
      BY <2>1, <2>2
    <3> QED BY <2>1, <2>2, <3>1, <3>2 DEF FillInv, Kinds
  <2>4. \A i \in Ids : fills[i] # "absent" => fills'[i] # "absent"
    BY <2>1, MergedKeeps
  <2>5. \A i \in 1 .. last[r] : fills'[i] # "absent"
    BY <2>1, <2>2, MergedKeeps DEF Ids
  <2>6. Covered(checkpoint)'
    <3>1. CASE last[r] = 0
      BY <2>1, <2>2, <2>4, <3>1 DEF FillInv, PageInv, Covered, Ids
    <3>2. CASE last[r] # 0
      BY <2>1, <2>2, <2>5, <3>2 DEF Covered
    <3> QED BY <3>1, <3>2
  <2>7. ASSUME NEW q \in Reconcilers
        PROVE  (Covered(first[q]) /\ first[q] <= last[q] /\ last[q] <= Len(ledger))'
    <3>1. /\ first[q] \in Nat /\ last[q] \in Nat /\ first[q] <= last[q]
          /\ first[q] <= Len(ledger) /\ last[q] <= Len(ledger)
          /\ \A i \in 1 .. first[q] : fills[i] # "absent"
      BY DEF FillInv, Kinds, PageInv, Covered
    <3>2. /\ first'[q] = IF q = r THEN 0 ELSE first[q]
          /\ last'[q] = IF q = r THEN 0 ELSE last[q]
      BY <2>1 DEF FillInv, Kinds
    <3>3. \A i \in 1 .. first[q] : fills'[i] # "absent"
      BY <2>2, <2>4, <3>1 DEF Ids
    <3> QED BY <2>1, <2>2, <3>1, <3>2, <3>3 DEF Covered
  <2>8. PageInv'
    BY <2>6, <2>7 DEF PageInv
  <2> QED BY <2>3, <2>8 DEF FillInv
<1> QED BY <1>1, <1>2

\* Every step preserves the invariant.
LEMMA NextFill == FillInv /\ [Next]_vars => FillInv'
<1> SUFFICES ASSUME FillInv, [Next]_vars PROVE FillInv'
  OBVIOUS
<1>1. ASSUME UNCHANGED vars PROVE FillInv'
  BY <1>1 DEF vars, brokerVars, tableVars, localVars, FillInv, Kinds, PageInv, Covered
<1> QED BY <1>1, BrokerFillInv, ReadsFill, ApplyFillInv DEF Next, Reconcile

\* The invariant holds in every behaviour.
THEOREM FillInvariant == Spec => []FillInv
BY InitFill, NextFill, PTL DEF Spec

\* The checkpoint never passes an activity that is not stored, with any
\* number of processes running reconcile against the same journal.
THEOREM CheckpointNeverSkips == Spec => []CheckpointCovered
<1>1. FillInv => CheckpointCovered
  BY DEF FillInv, PageInv, Covered, CheckpointCovered
<1> QED BY <1>1, FillInvariant, PTL

\* apply_reconciliation never deletes a stored fill and never takes back the
\* client order ID it attributed one to.
THEOREM FillsKept == Spec => AttributionStable
<1> DEFINE Kept == \A i \in Ids : /\ fills[i] # "absent" => fills'[i] # "absent"
                                  /\ fills[i] = "attributed" => fills'[i] = "attributed"
<1>1. FillInv /\ [Next]_vars => [Kept]_vars
  <2> SUFFICES ASSUME FillInv, Next PROVE Kept
    OBVIOUS
  <2>1. ASSUME fills' = fills PROVE Kept
    BY <2>1
  <2>2. ASSUME NEW r \in Reconcilers, Apply(r) PROVE Kept
    <3>1. CASE ~(OrdersAccepted(r) /\ FillsAccepted(r))
      BY <2>1, <2>2, <3>1 DEF Apply, tableVars
    <3>2. CASE OrdersAccepted(r) /\ FillsAccepted(r)
      <4>1. fills' = [i \in Ids |-> Merged(r, i)]
        BY <2>2, <3>2 DEF Apply
      <4> QED BY <3>2, <4>1, MergedKeeps
    <3> QED BY <3>1, <3>2
  <2> HIDE DEF Kept
  <2> QED BY <2>1, <2>2 DEF Next, Reconcile, BrokerFill, BrokerCancel, ReadPositions,
        ReadOpenOrders, ReadCheckpoint, ReadPage, Attribute, Project, Fail, tableVars
<1> QED BY <1>1, FillInvariant, PTL DEF Spec, AttributionStable

-----------------------------------------------------------------------------
(* The types of every table and local variable *)

\* A call counts its pages from zero and stops at the limit; what it has to
\* attribute it has read; an order's updated_at counts fills and one cancel.
CallInv ==
  /\ \A r \in Reconcilers :
       /\ pc[r] \in {"idle", "orders", "pages"} => pages[r] = 0 /\ todo[r] = {}
       /\ pc[r] = "page" => pages[r] < MaxPages
       /\ todo[r] \subseteq 1 .. last[r]
  /\ \A o \in OrderIds :
       book[o].at <= Len(ledger) + (IF book[o].status = "open" THEN 0 ELSE 1)

TypesInv == TypeOK /\ CallInv

\* A number of units is an integer.
LEMMA UnitsType ==
  ASSUME ledger \in Seq(OrderIds), NEW ids, IsFiniteSet(ids), ids \subseteq 1 .. Len(ledger)
  PROVE  Units(ids) \in Int
<1> DEFINE f == [i \in ids |-> Sign[ledger[i]]]
<1>1. DOMAIN f = ids /\ \A i \in ids : f[i] \in Int
  <2>1. \A i \in ids : ledger[i] \in OrderIds
    OBVIOUS
  <2>2. \A o \in OrderIds : Sign[o] \in Int
    OBVIOUS
  <2>3. DOMAIN f = ids /\ \A i \in ids : f[i] = Sign[ledger[i]]
    OBVIOUS
  <2> HIDE DEF f
  <2> QED BY <2>1, <2>2, <2>3
<1>2. Units(ids) = SumFunction(f)
  BY Zenon DEF Units
<1> HIDE DEF f
<1>3. SumFunction(f) = SumFunctionOnSet(f, ids)
  BY <1>1 DEF SumFunction
<1>4. SumFunctionOnSet(f, ids) \in Int
  BY <1>1, SumRemove
<1> QED BY <1>2, <1>3, <1>4

\* Empty tables have the right types.
LEMMA InitTypes == Init => TypesInv
<1> SUFFICES ASSUME Init PROVE TypesInv
  OBVIOUS
<1>1. TypeOK
  <2>2. [status |-> "open", at |-> 0] \in Snapshots
    BY DEF Snapshots, Statuses
  <2>3. Empty \in [OrderIds -> Snapshots \cup {None}]
    BY DEF Empty
  <2>4. /\ ledger \in Seq(OrderIds) /\ Len(ledger) <= MaxFills
        /\ checkpoint \in 0 .. MaxFills /\ position \in Int /\ ready \in BOOLEAN
    <3>1. ledger \in Seq(OrderIds) /\ Len(ledger) <= MaxFills
      BY InitFill DEF FillInv, Kinds
    <3>2. checkpoint = 0 /\ position = 0 /\ ready = FALSE
      BY DEF Init
    <3>3. checkpoint \in 0 .. MaxFills /\ position \in Int
      BY <3>2
    <3>4. ready \in BOOLEAN
      BY <3>2
    <3> QED BY <3>1, <3>3, <3>4
  <2>5. book \in [OrderIds -> Snapshots] /\ orderRows \in [OrderIds -> Snapshots \cup {None}]
    BY <2>2, <2>3 DEF Init
  <2>6. fills \in [Ids -> {"absent", "anonymous", "attributed"}]
    BY DEF Init
  <2>7. /\ pc \in [Reconcilers -> {"idle", "orders", "pages", "page", "owners", "apply"}]
        /\ seen \in [Reconcilers -> Int]
        /\ first \in [Reconcilers -> 0 .. MaxFills] /\ last \in [Reconcilers -> 0 .. MaxFills]
        /\ pages \in [Reconcilers -> 0 .. MaxPages]
    BY DEF Init
  <2>8. /\ cache \in [Reconcilers -> [OrderIds -> Snapshots \cup {None}]]
        /\ named \in [Reconcilers -> SUBSET Ids] /\ todo \in [Reconcilers -> SUBSET Ids]
        /\ issues \in [Reconcilers -> BOOLEAN]
    BY <2>3 DEF Init
  <2> QED BY <2>4, <2>5, <2>6, <2>7, <2>8 DEF TypeOK
<1>2. CallInv
  BY DEF Init, CallInv
<1> QED BY <1>1, <1>2 DEF TypesInv

\* So does a call that returns.
LEMMA ReturnTypes ==
  ASSUME TypesInv, NEW r \in Reconcilers, Return(r), UNCHANGED <<brokerVars, tableVars>>
  PROVE  TypesInv'
<1>1. TypeOK'
  <2>1. UNCHANGED <<ledger, book, fills, checkpoint, orderRows, position, ready>>
    BY DEF brokerVars, tableVars
  <2>2. Empty \in [OrderIds -> Snapshots \cup {None}]
    BY DEF Empty
  <2> QED BY <2>1, <2>2 DEF TypesInv, TypeOK, Return, Goto
<1>2. CallInv'
  BY DEF TypesInv, TypeOK, CallInv, Return, Goto, brokerVars
<1> QED BY <1>1, <1>2 DEF TypesInv

\* A change at the broker is counted by a fill, or is the order's last one.
LEMMA BrokerTypes ==
  ASSUME TypesInv, NEW o \in OrderIds, BrokerFill(o) \/ BrokerCancel(o)
  PROVE  TypesInv'
<1>1. UNCHANGED <<tableVars, localVars, pc>>
  BY DEF BrokerFill, BrokerCancel
<1>2. /\ ledger \in Seq(OrderIds) /\ Len(ledger) \in Nat /\ Len(ledger) <= MaxFills
      /\ book \in [OrderIds -> Snapshots]
      /\ \A p \in OrderIds : book[p].at <= Len(ledger) + (IF book[p].status = "open" THEN 0 ELSE 1)
  BY DEF TypesInv, TypeOK, CallInv
<1>3. book[o].status = "open" /\ book[o].at \in Nat /\ book[o].at <= Len(ledger)
  BY <1>2 DEF BrokerFill, BrokerCancel, Snapshots
<1>4. PICK status \in Statuses : Change(o, status) /\ (status = "open" => BrokerFill(o))
  BY DEF BrokerFill, BrokerCancel, Statuses
<1> DEFINE x == [status |-> status, at |-> IF Stamped THEN book[o].at + 1 ELSE book[o].at]
<1>5. book' = [book EXCEPT ![o] = x] /\ x.status = status /\ x.at \in Nat /\ x.at <= book[o].at + 1
  BY <1>3, <1>4 DEF Change
<1>6. /\ ledger' \in Seq(OrderIds) /\ Len(ledger') \in Nat /\ Len(ledger') <= MaxFills
      /\ Len(ledger) <= Len(ledger')
      /\ BrokerFill(o) => Len(ledger') = Len(ledger) + 1
  <2>1. CASE BrokerFill(o)
    <3>1. ledger' = Append(ledger, o) /\ Len(ledger) < MaxFills
      BY <2>1 DEF BrokerFill
    <3>2. Append(ledger, o) \in Seq(OrderIds) /\ Len(Append(ledger, o)) = Len(ledger) + 1
      BY <1>2
    <3> QED BY <1>2, <3>1, <3>2
  <2>2. CASE BrokerCancel(o) /\ ~BrokerFill(o)
    BY <1>2, <2>2 DEF BrokerCancel
  <2> QED BY <2>1, <2>2
<1>7. x.at <= Len(ledger') + (IF status = "open" THEN 0 ELSE 1)
  <2> HIDE DEF x
  <2> QED BY <1>2, <1>3, <1>4, <1>5, <1>6
<1>8. x \in Snapshots
  <2>1. x.at <= MaxFills + 1
    <3> HIDE DEF x
    <3> QED BY <1>2, <1>3, <1>5
  <2> QED BY <1>5, <2>1 DEF Snapshots, Statuses
<1> HIDE DEF x
<1>9. book' \in [OrderIds -> Snapshots]
  BY <1>2, <1>5, <1>8
<1>10. TypeOK'
  BY <1>1, <1>6, <1>9 DEF TypesInv, TypeOK, tableVars, localVars
<1>11. \A p \in OrderIds : book'[p].at <= Len(ledger') + (IF book'[p].status = "open" THEN 0 ELSE 1)
  <2> SUFFICES ASSUME NEW p \in OrderIds
               PROVE  book'[p].at <= Len(ledger') + (IF book'[p].status = "open" THEN 0 ELSE 1)
    OBVIOUS
  <2>1. CASE p = o
    BY <1>2, <1>5, <1>7, <2>1
  <2>2. CASE p # o
    <3>1. book'[p] = book[p] /\ book[p].at \in Nat
      BY <1>2, <1>5, <2>2 DEF Snapshots
    <3> QED BY <1>2, <1>6, <3>1
  <2> QED BY <2>1, <2>2
<1>12. CallInv'
  BY <1>1, <1>11 DEF TypesInv, CallInv, localVars
<1> QED BY <1>10, <1>12 DEF TypesInv

\* The reads and the projection keep the types.
LEMMA ReadsTypes ==
  ASSUME TypesInv, FillInv, NEW r \in Reconcilers,
         ReadPositions(r) \/ ReadOpenOrders(r) \/ ReadCheckpoint(r) \/ Project(r)
  PROVE  TypesInv'
<1> USE DEF TypesInv
<1>1. CASE ReadPositions(r)
  <2>1. Units(1 .. Len(ledger)) \in Int
    <3> DEFINE ids == 1 .. Len(ledger)
    <3>1. ledger \in Seq(OrderIds) /\ Len(ledger) \in Nat /\ 1 \in Int
      BY DEF TypeOK
    <3>2. IsFiniteSet(ids) /\ ids \subseteq 1 .. Len(ledger)
      BY <3>1, FS_Interval
    <3> HIDE DEF ids
    <3>3. Units(ids) \in Int
      BY <3>1, <3>2, UnitsType DEF ids
    <3> QED BY <3>3 DEF ids
  <2>2. TypeOK'
    BY <1>1, <2>1 DEF ReadPositions, Goto, TypeOK, brokerVars, tableVars
  <2>3. CallInv'
    BY <1>1 DEF ReadPositions, Goto, TypeOK, CallInv, brokerVars, tableVars
  <2> QED BY <2>2, <2>3
<1>2. CASE ReadOpenOrders(r)
  <2> DEFINE found == [o \in OrderIds |-> IF o \in {p \in OrderIds : book[p].status = "open"}
                                            THEN book[o] ELSE None]
  <2>1. /\ found \in [OrderIds -> Snapshots \cup {None}]
        /\ cache' = [cache EXCEPT ![r] = found]
        /\ \E b \in BOOLEAN : issues' = [issues EXCEPT ![r] = b]
    <3>1. found \in [OrderIds -> Snapshots \cup {None}]
      BY DEF TypeOK
    <3> QED BY <1>2, <3>1 DEF ReadOpenOrders, TypeOK
  <2> HIDE DEF found
  <2>2. UNCHANGED <<brokerVars, tableVars, seen, first, last, pages, named, todo>> /\ Goto(r, "pages")
           /\ pc[r] = "orders"
    BY <1>2 DEF ReadOpenOrders
  <2>3. cache' \in [Reconcilers -> [OrderIds -> Snapshots \cup {None}]]
           /\ issues' \in [Reconcilers -> BOOLEAN]
    BY <2>1 DEF TypeOK
  <2>4. TypeOK'
    BY <2>2, <2>3 DEF Goto, TypeOK, brokerVars, tableVars
  <2>5. CallInv'
    BY <2>2 DEF Goto, TypeOK, CallInv, brokerVars
  <2> QED BY <2>4, <2>5
<1>3. CASE ReadCheckpoint(r)
  <2>1. TypeOK'
    BY <1>3 DEF ReadCheckpoint, Goto, TypeOK, brokerVars, tableVars
  <2>2. CallInv'
    <3>1. /\ pc[r] = "pages" /\ pc' = [pc EXCEPT ![r] = "page"] /\ last' = [last EXCEPT ![r] = checkpoint]
          /\ UNCHANGED <<book, ledger, pages, todo>>
      BY <1>3 DEF ReadCheckpoint, Goto, brokerVars
    <3>2. pages[r] = 0 /\ todo[r] = {} /\ 0 < MaxPages
      BY <3>1 DEF CallInv
    <3> QED BY <3>1, <3>2 DEF TypeOK, CallInv
  <2> QED BY <2>1, <2>2
<1>4. CASE Project(r)
  <2>1. /\ \E b \in BOOLEAN : issues' = [issues EXCEPT ![r] = b]
        /\ pc' = [pc EXCEPT ![r] = "apply"] /\ pc[r] = "owners"
        /\ UNCHANGED <<brokerVars, tableVars, seen, cache, first, last, pages, named, todo>>
    BY <1>4 DEF Project, Goto
  <2>2. issues' \in [Reconcilers -> BOOLEAN]
    BY <2>1 DEF TypeOK
  <2>3. TypeOK'
    BY <2>1, <2>2 DEF TypeOK, brokerVars, tableVars
  <2>4. CallInv'
    BY <2>1 DEF TypeOK, CallInv, brokerVars
  <2> QED BY <2>3, <2>4
<1> QED BY <1>1, <1>2, <1>3, <1>4

\* A page ends within the ledger, and its activities are new ones.
LEMMA PageTypes ==
  ASSUME TypesInv, FillInv, NEW r \in Reconcilers, ReadPage(r)
  PROVE  TypesInv'
<1> USE DEF TypesInv
<1> DEFINE end == Min({last[r] + PageSize, Len(ledger)})
<1>1. CASE end = last[r] + PageSize /\ pages[r] + 1 = MaxPages
  BY <1>1, ReturnTypes DEF ReadPage
<1>2. CASE ~(end = last[r] + PageSize /\ pages[r] + 1 = MaxPages)
  <2>1. end \in Nat /\ last[r] \in Nat /\ last[r] <= end /\ end <= MaxFills
    <3>1. last[r] \in Nat /\ Len(ledger) \in Nat /\ Len(ledger) <= MaxFills /\ last[r] <= Len(ledger)
      BY DEF TypeOK, FillInv, PageInv
    <3> DEFINE a == last[r] + PageSize
               b == Len(ledger)
    <3>2. a \in Int /\ b \in Int /\ last[r] <= a
      BY <3>1
    <3>3. Min({a, b}) \in {a, b} /\ Min({a, b}) <= a /\ Min({a, b}) <= b
      <4> HIDE DEF a, b
      <4> QED BY <3>2, MinOfTwo
    <3> QED BY <3>1, <3>2, <3>3
  <2>2. /\ last' = [last EXCEPT ![r] = end]
        /\ todo' = [todo EXCEPT ![r] = @ \cup ((last[r] + 1) .. end)]
        /\ pages' = [pages EXCEPT ![r] = @ + 1]
        /\ pc' = [pc EXCEPT ![r] = IF end = last[r] + PageSize THEN "page" ELSE "owners"]
        /\ UNCHANGED <<seen, cache, first, named, issues>>
        /\ UNCHANGED <<brokerVars, tableVars>> /\ pc[r] = "page"
    BY <1>2 DEF ReadPage, Goto
  <2>3. /\ pages[r] \in 0 .. MaxPages /\ pages[r] < MaxPages
        /\ end = last[r] + PageSize => pages[r] + 1 < MaxPages
    BY <1>2, <2>2 DEF TypeOK, CallInv
  <2> DEFINE full == end = last[r] + PageSize
  <2>4. pages[r] + 1 \in 0 .. MaxPages /\ (full => pages[r] + 1 < MaxPages)
    <3> HIDE DEF end
    <3> QED BY <2>3
  <2> HIDE DEF end
  <2> DEFINE more == todo[r] \cup ((last[r] + 1) .. end)
  <2>5. more \subseteq Ids /\ more \subseteq 1 .. end
    <3>1. todo[r] \subseteq 1 .. last[r]
      BY DEF CallInv
    <3> QED BY <2>1, <3>1 DEF Ids
  <2>6. todo' = [todo EXCEPT ![r] = more]
    BY <2>2
  <2> HIDE DEF more
  <2>7. last' \in [Reconcilers -> 0 .. MaxFills] /\ todo' \in [Reconcilers -> SUBSET Ids]
          /\ pages' \in [Reconcilers -> 0 .. MaxPages]
          /\ pc' \in [Reconcilers -> {"idle", "orders", "pages", "page", "owners", "apply"}]
    <3>1. last' \in [Reconcilers -> 0 .. MaxFills]
      BY <2>1, <2>2 DEF TypeOK
    <3>2. todo' \in [Reconcilers -> SUBSET Ids]
      BY <2>5, <2>6 DEF TypeOK
    <3>3. pages' \in [Reconcilers -> 0 .. MaxPages]
      BY <2>2, <2>4 DEF TypeOK
    <3>4. pc' \in [Reconcilers -> {"idle", "orders", "pages", "page", "owners", "apply"}]
      BY <2>2 DEF TypeOK
    <3> QED BY <3>1, <3>2, <3>3, <3>4
  <2>8. TypeOK'
    BY <2>2, <2>7 DEF TypeOK, brokerVars, tableVars
  <2>9. CallInv'
    <3>1. ASSUME NEW q \in Reconcilers
          PROVE  /\ pc'[q] \in {"idle", "orders", "pages"} => pages'[q] = 0 /\ todo'[q] = {}
                 /\ pc'[q] = "page" => pages'[q] < MaxPages
                 /\ todo'[q] \subseteq 1 .. last'[q]
      <4>1. CASE q = r
        <5>1. /\ pc'[q] \in {"page", "owners"} /\ (pc'[q] = "page" => full)
              /\ pages'[q] = pages[r] + 1 /\ todo'[q] = more /\ last'[q] = end
          BY <2>2, <2>6, <4>1 DEF TypeOK
        <5> QED BY <2>4, <2>5, <5>1
      <4>2. CASE q # r
        <5>1. pc'[q] = pc[q] /\ pages'[q] = pages[q] /\ todo'[q] = todo[q] /\ last'[q] = last[q]
          BY <2>2, <4>2 DEF TypeOK
        <5> QED BY <5>1 DEF CallInv
      <4> QED BY <4>1, <4>2
    <3>2. UNCHANGED <<book, ledger>>
      BY <2>2 DEF brokerVars
    <3> QED BY <3>1, <3>2 DEF CallInv
  <2> QED BY <2>8, <2>9
<1> QED BY <1>1, <1>2

\* An activity that is attributed has an order.
LEMMA AttributeTypes ==
  ASSUME TypesInv, FillInv, NEW r \in Reconcilers, Attribute(r)
  PROVE  TypesInv'
<1> USE DEF TypesInv
<1>1. PICK i \in todo[r] :
        /\ todo' = [todo EXCEPT ![r] = @ \ {i}]
        /\ \/ /\ named' = [named EXCEPT ![r] = @ \cup {i}]
              /\ cache' = IF cache[r][ledger[i]] = None
                            THEN [cache EXCEPT ![r][ledger[i]] = book[ledger[i]]]
                            ELSE cache
              /\ UNCHANGED issues
           \/ /\ issues' = [issues EXCEPT ![r] = TRUE]
              /\ UNCHANGED <<named, cache>>
  BY DEF Attribute
<1>2. /\ UNCHANGED <<brokerVars, tableVars, seen, first, last, pages, pc>> /\ pc[r] = "owners"
  BY DEF Attribute
<1>3. i \in Ids /\ ledger[i] \in OrderIds
  <2>1. i \in 1 .. last[r] /\ last[r] \in Nat /\ last[r] <= Len(ledger) /\ ledger \in Seq(OrderIds)
    BY DEF CallInv, FillInv, PageInv, TypeOK
  <2>2. Len(ledger) \in Nat
    BY <2>1
  <2>3. i \in 1 .. Len(ledger)
    BY <2>1, <2>2
  <2>4. i \in Ids
    BY DEF TypeOK
  <2> QED BY <2>1, <2>3, <2>4
<1>4. todo' \in [Reconcilers -> SUBSET Ids]
  BY <1>1 DEF TypeOK
<1>5. named' \in [Reconcilers -> SUBSET Ids]
  <2>1. named \in [Reconcilers -> SUBSET Ids]
    BY DEF TypeOK
  <2>2. named' = [named EXCEPT ![r] = @ \cup {i}] \/ named' = named
    BY <1>1
  <2> QED BY <1>3, <2>1, <2>2
<1>6. cache' \in [Reconcilers -> [OrderIds -> Snapshots \cup {None}]]
  <2> DEFINE o == ledger[i]
  <2> DEFINE x == book[o]
  <2>1. cache \in [Reconcilers -> [OrderIds -> Snapshots \cup {None}]] /\ x \in Snapshots
    BY <1>3 DEF TypeOK
  <2>2. cache' = [cache EXCEPT ![r][o] = x] \/ cache' = cache
    BY <1>1
  <2>3. o \in OrderIds
    BY <1>3
  <2> HIDE DEF o, x
  <2> QED BY <2>1, <2>2, <2>3
<1>7. issues' \in [Reconcilers -> BOOLEAN]
  BY <1>1 DEF TypeOK
<1>8. TypeOK'
  BY <1>2, <1>4, <1>5, <1>6, <1>7 DEF TypeOK, brokerVars, tableVars
<1>9. CallInv'
  <2>1. \A q \in Reconcilers : todo'[q] \subseteq todo[q]
    BY <1>1 DEF TypeOK
  <2> QED BY <1>2, <2>1 DEF CallInv, brokerVars
<1> QED BY <1>8, <1>9

\* The transaction stores values of the tables' kinds.
LEMMA ApplyTypes ==
  ASSUME TypesInv, FillInv, NEW r \in Reconcilers, Apply(r)
  PROVE  TypesInv'
<1> USE DEF TypesInv
<1>1. CASE ~(OrdersAccepted(r) /\ FillsAccepted(r))
  BY <1>1, ReturnTypes DEF Apply
<1>2. CASE OrdersAccepted(r) /\ FillsAccepted(r)
  <2>1. /\ orderRows' = [o \in OrderIds |-> IF cache[r][o] = None THEN orderRows[o] ELSE cache[r][o]]
        /\ fills' = [i \in Ids |-> Merged(r, i)]
        /\ checkpoint' = IF last[r] = 0 THEN checkpoint ELSE last[r]
        /\ position' = seen[r] /\ ready' = ~issues[r]
        /\ Return(r) /\ UNCHANGED brokerVars
    BY <1>2 DEF Apply
  <2>2. orderRows' \in [OrderIds -> Snapshots \cup {None}]
    BY <2>1 DEF TypeOK
  <2>3. fills' \in [Ids -> {"absent", "anonymous", "attributed"}]
    BY <2>1, MergedKeeps
  <2>4. checkpoint' \in 0 .. MaxFills /\ position' \in Int
    BY <2>1 DEF TypeOK
  <2>5. ready' \in BOOLEAN
    BY <2>1
  <2>6. Empty \in [OrderIds -> Snapshots \cup {None}]
    BY DEF Empty
  <2>7. TypeOK'
    BY <2>1, <2>2, <2>3, <2>4, <2>5, <2>6 DEF TypeOK, Return, Goto, brokerVars
  <2>8. CallInv'
    BY <2>1 DEF TypeOK, CallInv, Return, Goto, brokerVars
  <2> QED BY <2>7, <2>8
<1> QED BY <1>1, <1>2

\* Every step keeps the types.
LEMMA NextTypes == FillInv /\ TypesInv /\ [Next]_vars => TypesInv'
<1> SUFFICES ASSUME FillInv, TypesInv, [Next]_vars PROVE TypesInv'
  OBVIOUS
<1>1. ASSUME UNCHANGED vars PROVE TypesInv'
  <2>1. UNCHANGED <<ledger, book, fills, checkpoint, orderRows, position, ready, pc, seen, cache,
                    first, last, pages, named, todo, issues>>
    BY <1>1 DEF vars, brokerVars, tableVars, localVars
  <2>2. TypeOK'
    BY <2>1 DEF TypesInv, TypeOK
  <2>3. CallInv'
    BY <2>1 DEF TypesInv, CallInv
  <2> QED BY <2>2, <2>3 DEF TypesInv
<1>2. ASSUME NEW r \in Reconcilers, Fail(r) PROVE TypesInv'
  BY <1>2, ReturnTypes DEF Fail
<1> QED BY <1>1, <1>2, BrokerTypes, ReadsTypes, PageTypes, AttributeTypes, ApplyTypes
      DEF Next, Reconcile

\* The reconciler's tables and locals stay well formed with any number of
\* processes, orders and pages; in particular no call reads more pages than
\* maximum_pages and none attributes an activity it has not read.
THEOREM FillTypes == Spec => []TypeOK
<1>1. TypesInv => TypeOK
  BY DEF TypesInv
<1> QED BY <1>1, InitTypes, NextTypes, FillInvariant, PTL DEF Spec

-----------------------------------------------------------------------------
(* Order rows *)

\* A snapshot of order o is not newer than the broker's, and is the broker's
\* if it is as new or terminal.
Known(o, x) ==
  /\ x.at <= book[o].at
  /\ x.at = book[o].at \/ x.status # "open" => x = book[o]

\* Every snapshot that is stored or cached is known in this sense.
SnapshotsInv ==
  /\ \A o \in OrderIds : orderRows[o] # None => Known(o, orderRows[o])
  /\ \A r \in Reconcilers, o \in OrderIds : cache[r][o] # None => Known(o, cache[r][o])

\* A call that returns drops its cache.
LEMMA ReturnSnapshots ==
  ASSUME TypesInv, SnapshotsInv, NEW r \in Reconcilers, Return(r), book' = book,
         \A o \in OrderIds : orderRows'[o] = orderRows[o] \/ orderRows'[o] = cache[r][o]
  PROVE  SnapshotsInv'
<1>1. \A q \in Reconcilers, o \in OrderIds : cache'[q][o] = None \/ cache'[q][o] = cache[q][o]
  BY DEF Return, Empty, TypesInv, TypeOK
<1> QED BY <1>1 DEF SnapshotsInv, Known

\* Only an open order changes, and then its updated_at advances.
LEMMA BrokerSnapshots ==
  ASSUME Stamped, TypesInv, SnapshotsInv, NEW o \in OrderIds, BrokerFill(o) \/ BrokerCancel(o)
  PROVE  SnapshotsInv'
<1>1. UNCHANGED <<orderRows, cache>> /\ book[o].status = "open"
  BY DEF BrokerFill, BrokerCancel, tableVars, localVars
<1>2. PICK status : Change(o, status)
  BY DEF BrokerFill, BrokerCancel
<1> DEFINE y == [status |-> status, at |-> book[o].at + 1]
<1>3. /\ book \in [OrderIds -> Snapshots] /\ book' = [book EXCEPT ![o] = y]
      /\ orderRows \in [OrderIds -> Snapshots \cup {None}]
      /\ cache \in [Reconcilers -> [OrderIds -> Snapshots \cup {None}]]
  BY <1>2 DEF Change, TypesInv, TypeOK
<1>4. y.at = book[o].at + 1 /\ book[o].at \in Nat
  BY <1>3 DEF Snapshots
<1> HIDE DEF y
<1>5. ASSUME NEW p \in OrderIds, NEW x \in Snapshots, Known(p, x) PROVE Known(p, x)'
  <2>1. CASE p # o
    BY <1>3, <1>5, <2>1 DEF Known
  <2>2. CASE p = o
    <3>1. book'[p] = y
      BY <1>3, <2>2
    <3>2. x.at \in Nat /\ x.at <= book[o].at /\ x.status = "open"
      BY <1>1, <1>5, <2>2 DEF Known, Snapshots
    <3>3. x.at <= y.at /\ x.at # y.at
      BY <1>4, <3>2
    <3> QED BY <3>1, <3>2, <3>3 DEF Known
  <2> QED BY <2>1, <2>2
<1>6. ASSUME NEW p \in OrderIds, orderRows'[p] # None PROVE Known(p, orderRows[p])'
  <2> DEFINE x == orderRows[p]
  <2>1. x \in Snapshots /\ Known(p, x) /\ orderRows' = orderRows
    BY <1>1, <1>3, <1>6 DEF SnapshotsInv
  <2>2. Known(p, x)' /\ orderRows'[p] = orderRows[p]
    BY <1>5, <2>1 DEF Known
  <2> QED BY <2>2 DEF Known
<1>7. ASSUME NEW r \in Reconcilers, NEW p \in OrderIds, cache'[r][p] # None PROVE Known(p, cache[r][p])'
  <2> DEFINE x == cache[r][p]
  <2>1. x \in Snapshots /\ Known(p, x) /\ cache' = cache
    BY <1>1, <1>3, <1>7 DEF SnapshotsInv
  <2>2. Known(p, x)' /\ cache'[r][p] = cache[r][p]
    BY <1>5, <2>1 DEF Known
  <2> QED BY <2>2 DEF Known
<1> QED BY <1>6, <1>7 DEF SnapshotsInv

\* What a call caches is the broker's snapshot when it is read.
LEMMA CallSnapshots ==
  ASSUME TypesInv, FillInv, SnapshotsInv, NEW r \in Reconcilers, Reconcile(r) \/ Fail(r)
  PROVE  SnapshotsInv'
<1>0. \A o \in OrderIds : Known(o, book[o])
  <2>1. \A o \in OrderIds : book[o].at \in Nat
    BY DEF TypesInv, TypeOK, Snapshots
  <2> QED BY <2>1 DEF Known
<1>1. CASE ReadPositions(r) \/ ReadCheckpoint(r) \/ Project(r)
  <2>1. UNCHANGED <<book, orderRows, cache>>
    BY <1>1 DEF ReadPositions, ReadCheckpoint, Project, brokerVars, tableVars
  <2> QED BY <2>1 DEF SnapshotsInv, Known
<1>2. ASSUME book' = book, orderRows' = orderRows,
             \A q \in Reconcilers, o \in OrderIds : cache'[q][o] \in {cache[q][o], None, book[o]}
      PROVE  SnapshotsInv'
  BY <1>0, <1>2 DEF SnapshotsInv, Known
<1>3. CASE ReadOpenOrders(r)
  <2> DEFINE found == [o \in OrderIds |-> IF o \in {p \in OrderIds : book[p].status = "open"}
                                            THEN book[o] ELSE None]
  <2>1. /\ cache' = [cache EXCEPT ![r] = found] /\ book' = book /\ orderRows' = orderRows
        /\ \A o \in OrderIds : found[o] \in {None, book[o]}
    BY <1>3 DEF ReadOpenOrders, brokerVars, tableVars
  <2> HIDE DEF found
  <2>2. \A q \in Reconcilers, o \in OrderIds : cache'[q][o] \in {cache[q][o], None, book[o]}
    BY <2>1 DEF TypesInv, TypeOK
  <2> QED BY <1>2, <2>1, <2>2
<1>4. CASE Attribute(r)
  <2>1. PICK i \in todo[r] :
          cache' = cache \/ cache' = [cache EXCEPT ![r][ledger[i]] = book[ledger[i]]]
    BY <1>4 DEF Attribute
  <2>2. book' = book /\ orderRows' = orderRows
    BY <1>4 DEF Attribute, brokerVars, tableVars
  <2> DEFINE o == ledger[i]
  <2>3. \A q \in Reconcilers, p \in OrderIds : cache'[q][p] \in {cache[q][p], None, book[p]}
    <3>1. cache' = cache \/ cache' = [cache EXCEPT ![r][o] = book[o]]
      BY <2>1
    <3> DEFINE x == book[o]
    <3>2. cache \in [Reconcilers -> [OrderIds -> Snapshots \cup {None}]]
      BY DEF TypesInv, TypeOK
    <3> SUFFICES ASSUME NEW q \in Reconcilers, NEW p \in OrderIds
                 PROVE  cache'[q][p] \in {cache[q][p], None, book[p]}
      OBVIOUS
    <3> HIDE DEF o, x
    <3>3. cache' = cache \/ cache' = [cache EXCEPT ![r][o] = x]
      BY <3>1 DEF x
    <3>4. cache'[q][p] = cache[q][p] \/ (p = o /\ cache'[q][p] = x)
      BY <3>2, <3>3
    <3> QED BY <3>4 DEF x
  <2> QED BY <1>2, <2>2, <2>3
<1>5. ASSUME Return(r), UNCHANGED <<brokerVars, tableVars>> PROVE SnapshotsInv'
  BY <1>5, ReturnSnapshots DEF brokerVars, tableVars
<1>6. CASE ReadPage(r)
  <2>1. CASE UNCHANGED cache
    <3>1. UNCHANGED <<book, orderRows, cache>>
      BY <1>6, <2>1 DEF ReadPage, brokerVars, tableVars
    <3> QED BY <3>1 DEF SnapshotsInv, Known
  <2>2. CASE Return(r)
    BY <1>5, <1>6, <2>2 DEF ReadPage
  <2> QED BY <1>6, <2>1, <2>2 DEF ReadPage
<1>7. CASE Apply(r)
  <2>1. Return(r) /\ book' = book
    BY <1>7 DEF Apply, brokerVars
  <2>2. \A o \in OrderIds : orderRows'[o] = orderRows[o] \/ orderRows'[o] = cache[r][o]
    BY <1>7 DEF Apply, tableVars
  <2> QED BY <2>1, <2>2, ReturnSnapshots
<1>8. CASE Fail(r)
  BY <1>5, <1>8 DEF Fail
<1> QED BY <1>1, <1>3, <1>4, <1>6, <1>7, <1>8 DEF Reconcile

\* FAILURE_INJECTION.md, "order-state monotonicity": when the broker reports
\* updated_at, the transaction never takes a terminal order row back, however
\* many processes reconcile from snapshots of different age.
THEOREM TerminalRowsKept ==
  ASSUME Stamped
  PROVE  Spec => OrderRowsMonotonic
<1> DEFINE Inv == FillInv /\ TypesInv /\ SnapshotsInv
<1> DEFINE Mono == \A o \in OrderIds :
                     orderRows[o] # None /\ orderRows[o].status # "open" =>
                       orderRows'[o] # None /\ orderRows'[o].status = orderRows[o].status
<1>1. Init => Inv
  <2>1. Init => SnapshotsInv
    BY DEF Init, SnapshotsInv, Empty
  <2> QED BY <2>1, InitFill, InitTypes
<1>2. Inv /\ [Next]_vars => Inv'
  <2> SUFFICES ASSUME Inv, [Next]_vars PROVE SnapshotsInv'
    BY NextFill, NextTypes
  <2>1. CASE UNCHANGED vars
    BY <2>1 DEF SnapshotsInv, Known, vars, brokerVars, tableVars, localVars
  <2>2. CASE Next
    BY <2>2, BrokerSnapshots, CallSnapshots DEF Next
  <2> QED BY <2>1, <2>2
<1>3. Inv /\ [Next]_vars => [Mono]_vars
  <2> SUFFICES ASSUME Inv, Next PROVE Mono
    OBVIOUS
  <2>1. ASSUME orderRows' = orderRows PROVE Mono
    BY <2>1
  <2>2. ASSUME NEW r \in Reconcilers, Apply(r) PROVE Mono
    <3>1. CASE ~(OrdersAccepted(r) /\ FillsAccepted(r))
      BY <2>1, <2>2, <3>1 DEF Apply, tableVars
    <3>2. CASE OrdersAccepted(r) /\ FillsAccepted(r)
      <4>1. orderRows' = [o \in OrderIds |-> IF cache[r][o] = None THEN orderRows[o] ELSE cache[r][o]]
        BY <2>2, <3>2 DEF Apply
      <4> SUFFICES ASSUME NEW o \in OrderIds, orderRows[o] # None, orderRows[o].status # "open"
                   PROVE  orderRows'[o] # None /\ orderRows'[o].status = orderRows[o].status
        OBVIOUS
      <4>2. CASE cache[r][o] = None
        BY <4>1, <4>2
      <4>3. CASE cache[r][o] # None
        <5>1. orderRows[o] = book[o] /\ cache[r][o].at <= book[o].at
                /\ (cache[r][o].at = book[o].at => cache[r][o] = book[o])
          BY <4>3 DEF SnapshotsInv, Known
        <5>2. orderRows[o].at <= cache[r][o].at
          BY <3>2, <4>3 DEF OrdersAccepted
        <5>3. cache[r][o].at \in Nat /\ book[o].at \in Nat
          BY <4>3 DEF TypesInv, TypeOK, Snapshots
        <5>4. cache[r][o] = orderRows[o]
          BY <5>1, <5>2, <5>3
        <5> QED BY <4>1, <4>3, <5>4
      <4> QED BY <4>2, <4>3
    <3> QED BY <3>1, <3>2
  <2> HIDE DEF Mono, Inv
  <2> QED BY <2>1, <2>2 DEF Next, Reconcile, BrokerFill, BrokerCancel, ReadPositions,
        ReadOpenOrders, ReadCheckpoint, ReadPage, Attribute, Project, Fail, tableVars
<1> HIDE DEF Inv
<1> QED BY <1>1, <1>2, <1>3, PTL DEF Spec, OrderRowsMonotonic

-----------------------------------------------------------------------------
(* Ready reports *)

\* This strategy's fills in the table, and in the table once a call's
\* activities are merged in.
Attributed == OwnedFills({i \in Ids : fills[i] = "attributed"})
Projected(r) == OwnedFills({i \in Ids : Merged(r, i) = "attributed"})

\* Stored fills are in the ledger, and what a call without issues is about to
\* store adds up to the position it read.
ProjectionInv ==
  /\ \A i \in Ids : fills[i] # "absent" => i <= Len(ledger)
  /\ \A r \in Reconcilers : pc[r] = "apply" /\ ~issues[r] => Units(Projected(r)) = seen[r]
  /\ ready => position = Units(Attributed)

\* Sums over the same fills of ledgers that agree on them.
LEMMA UnitsSame ==
  ASSUME NEW ids, \A i \in ids : ledger'[i] = ledger[i]
  PROVE  SumFunction([i \in ids |-> Sign[ledger'[i]]]) = Units(ids)
<1>1. [i \in ids |-> Sign[ledger'[i]]] = [i \in ids |-> Sign[ledger[i]]]
  OBVIOUS
<1> QED BY <1>1, Zenon DEF Units

\* The ledger is only appended to, beyond every fill that is stored or read.
LEMMA BrokerProjection ==
  ASSUME FillInv, TypesInv, ProjectionInv, NEW o \in OrderIds, BrokerFill(o) \/ BrokerCancel(o)
  PROVE  ProjectionInv'
<1>1. UNCHANGED <<tableVars, localVars, pc>>
  BY DEF BrokerFill, BrokerCancel
<1>2. /\ fills' = fills /\ ready' = ready /\ position' = position /\ seen' = seen
      /\ first' = first /\ last' = last /\ named' = named /\ issues' = issues /\ pc' = pc
  BY <1>1 DEF tableVars, localVars
<1>3. ledger \in Seq(OrderIds) /\ Len(ledger) \in Nat
  BY DEF TypesInv, TypeOK
<1>4. \A i \in Ids : i <= Len(ledger) => ledger'[i] = ledger[i]
  <2>1. CASE BrokerFill(o)
    <3>1. ledger' = Append(ledger, o)
      BY <2>1 DEF BrokerFill
    <3>2. \A i \in 1 .. Len(ledger) : Append(ledger, o)[i] = ledger[i]
      BY <1>3
    <3>3. \A i \in Ids : i <= Len(ledger) => i \in 1 .. Len(ledger)
      BY <1>3 DEF Ids
    <3> QED BY <3>1, <3>2, <3>3
  <2>2. CASE BrokerCancel(o)
    BY <2>2 DEF BrokerCancel
  <2> QED BY <2>1, <2>2
<1>5. Len(ledger') \in Nat /\ Len(ledger) <= Len(ledger')
  <2>1. CASE BrokerFill(o)
    <3>1. ledger' = Append(ledger, o) /\ Len(Append(ledger, o)) = Len(ledger) + 1
      BY <1>3, <2>1 DEF BrokerFill
    <3> QED BY <1>3, <3>1
  <2>2. CASE BrokerCancel(o)
    BY <1>3, <2>2 DEF BrokerCancel
  <2> QED BY <2>1, <2>2
<1>6. \A i \in Ids : fills[i] # "absent" => i <= Len(ledger)
  BY DEF ProjectionInv
<1>7. \A i \in Ids : fills'[i] # "absent" => i <= Len(ledger')
  <2> SUFFICES ASSUME NEW i \in Ids, fills'[i] # "absent" PROVE i <= Len(ledger')
    OBVIOUS
  <2>1. i \in Int /\ i <= Len(ledger)
    BY <1>2, <1>6 DEF Ids
  <2> QED BY <1>3, <1>5, <2>1
<1>8. Attributed' = Attributed /\ \A i \in Attributed : ledger'[i] = ledger[i]
  BY <1>2, <1>4, <1>6 DEF Attributed, OwnedFills
<1>9. ASSUME ready' PROVE (position = Units(Attributed))'
  <2>1. position = Units(Attributed)
    BY <1>2, <1>9 DEF ProjectionInv
  <2>2. Units(Attributed)' = SumFunction([i \in Attributed' |-> Sign[ledger'[i]]])
    BY Zenon DEF Units
  <2> DEFINE A == Attributed
  <2>3. SumFunction([i \in A |-> Sign[ledger'[i]]]) = Units(A)
    <3>1. \A i \in A : ledger'[i] = ledger[i]
      BY <1>8
    <3> HIDE DEF A
    <3> QED BY <3>1, UnitsSame
  <2>4. Units(Attributed)' = Units(A)
    BY <1>8, <2>2, <2>3, Zenon
  <2> QED BY <1>2, <2>1, <2>4
<1>10. ASSUME NEW r \in Reconcilers, pc'[r] = "apply", ~issues'[r]
       PROVE  (Units(Projected(r)) = seen[r])'
  <2>1. \A i \in Ids : Merged(r, i)' = Merged(r, i)
    BY <1>2 DEF Merged
  <2>2. \A i \in Ids : Merged(r, i) = "attributed" => i <= Len(ledger)
    <3> SUFFICES ASSUME NEW i \in Ids, Merged(r, i) = "attributed" PROVE i <= Len(ledger)
      OBVIOUS
    <3>1. CASE i \in (first[r] + 1) .. last[r]
      <4>1. last[r] \in Nat /\ first[r] \in Nat /\ last[r] <= Len(ledger)
        BY DEF FillInv, Kinds, PageInv
      <4> QED BY <1>3, <3>1, <4>1
    <3>2. CASE i \notin (first[r] + 1) .. last[r]
      <4>1. fills[i] = "attributed"
        BY <3>2 DEF Merged
      <4> QED BY <1>6, <4>1
    <3> QED BY <3>1, <3>2
  <2>3. Projected(r)' = Projected(r) /\ \A i \in Projected(r) : ledger'[i] = ledger[i]
    <3> DEFINE M(i) == Merged(r, i)
    <3> DEFINE N(i) == Merged(r, i)'
    <3>1. Projected(r) = {i \in {j \in Ids : M(j) = "attributed"} : ledger[i] \in Owned}
      BY DEF Projected, OwnedFills
    <3>2. Projected(r)' = {i \in {j \in Ids : N(j) = "attributed"} : ledger'[i] \in Owned}
      BY DEF Projected, OwnedFills
    <3>3. \A i \in Ids : N(i) = M(i) /\ (M(i) = "attributed" => ledger'[i] = ledger[i])
      BY <1>4, <2>1, <2>2
    <3> HIDE DEF M, N
    <3> QED BY <3>1, <3>2, <3>3
  <2>4. Units(Projected(r)) = seen[r]
    BY <1>2, <1>10 DEF ProjectionInv
  <2>5. Units(Projected(r))' = SumFunction([i \in Projected(r)' |-> Sign[ledger'[i]]])
    BY Zenon DEF Units
  <2> DEFINE A == Projected(r)
  <2>6. SumFunction([i \in A |-> Sign[ledger'[i]]]) = Units(A)
    <3>1. \A i \in A : ledger'[i] = ledger[i]
      BY <2>3
    <3> HIDE DEF A
    <3> QED BY <3>1, UnitsSame
  <2>7. Units(Projected(r))' = Units(A)
    BY <2>3, <2>5, <2>6, Zenon
  <2> QED BY <1>2, <2>4, <2>7
<1> QED BY <1>7, <1>9, <1>10 DEF ProjectionInv

\* A step of the only call that leaves ledger, table and report alone and does
\* not reach the transaction.
LEMMA IdleProjection ==
  ASSUME ProjectionInv, UNCHANGED <<ledger, fills, position, ready>>,
         \A r \in Reconcilers : pc'[r] # "apply"
  PROVE  ProjectionInv'
<1>1. Attributed' = Attributed
  BY DEF Attributed, OwnedFills
<1>2. Units(Attributed)' = Units(Attributed)
  <2>1. Units(Attributed)' = SumFunction([i \in Attributed' |-> Sign[ledger'[i]]])
    BY Zenon DEF Units
  <2> DEFINE A == Attributed
  <2>2. SumFunction([i \in A |-> Sign[ledger'[i]]]) = Units(A)
    <3> HIDE DEF A
    <3> QED BY UnitsSame
  <2> QED BY <1>1, <2>1, <2>2, Zenon
<1> QED BY <1>2 DEF ProjectionInv

\* The projection is what the comparison of the positions was about.
LEMMA ProjectProjection ==
  ASSUME ProjectionInv, TypesInv, NEW r \in Reconcilers, \A q \in Reconcilers : q = r, Project(r)
  PROVE  ProjectionInv'
<1>1. /\ UNCHANGED <<ledger, fills, position, ready, first, last, named, seen>>
      /\ issues' = [issues EXCEPT ![r] = \/ @
                                         \/ \E i \in Projected(r) : ledger[i] \notin Rows
                                         \/ Units(Projected(r)) # seen[r]]
  BY DEF Project, brokerVars, tableVars, Projected
<1>2. ~issues'[r] => Units(Projected(r)) = seen[r]
  BY <1>1 DEF TypesInv, TypeOK
<1>3. Attributed' = Attributed /\ Projected(r)' = Projected(r)
  BY <1>1 DEF Attributed, Projected, Merged, OwnedFills
<1>4. Units(Attributed)' = Units(Attributed)
  <2>1. Units(Attributed)' = SumFunction([i \in Attributed' |-> Sign[ledger'[i]]])
    BY Zenon DEF Units
  <2> DEFINE A == Attributed
  <2>2. SumFunction([i \in A |-> Sign[ledger'[i]]]) = Units(A)
    <3>1. ledger' = ledger
      BY <1>1
    <3> HIDE DEF A
    <3> QED BY <3>1, UnitsSame
  <2> QED BY <1>3, <2>1, <2>2, Zenon
<1>5. Units(Projected(r))' = Units(Projected(r))
  <2>1. Units(Projected(r))' = SumFunction([i \in Projected(r)' |-> Sign[ledger'[i]]])
    BY Zenon DEF Units
  <2> DEFINE A == Projected(r)
  <2>2. SumFunction([i \in A |-> Sign[ledger'[i]]]) = Units(A)
    <3>1. ledger' = ledger
      BY <1>1
    <3> HIDE DEF A
    <3> QED BY <3>1, UnitsSame
  <2> QED BY <1>3, <2>1, <2>2, Zenon
<1>6. \A q \in Reconcilers : pc'[q] = "apply" /\ ~issues'[q] => (Units(Projected(q)) = seen[q])'
  <2> SUFFICES ASSUME ~issues'[r] PROVE (Units(Projected(r)) = seen[r])'
    OBVIOUS
  <2> QED BY <1>1, <1>2, <1>5
<1>7. (\A i \in Ids : fills[i] # "absent" => i <= Len(ledger))'
  BY <1>1 DEF ProjectionInv
<1>8. ready' => (position = Units(Attributed))'
  BY <1>1, <1>4 DEF ProjectionInv
<1> QED BY <1>6, <1>7, <1>8 DEF ProjectionInv

\* The transaction stores what was projected, with the position it was
\* compared with: nobody else wrote to the table in between.
LEMMA ApplyProjection ==
  ASSUME FillInv, TypesInv, ProjectionInv, NEW r \in Reconcilers, \A q \in Reconcilers : q = r,
         Apply(r)
  PROVE  ProjectionInv'
<1>0. ledger' = ledger /\ pc[r] = "apply" /\ \A q \in Reconcilers : pc'[q] # "apply"
  BY DEF Apply, Return, Goto, brokerVars, TypesInv, TypeOK
<1>1. CASE ~(OrdersAccepted(r) /\ FillsAccepted(r))
  <2>1. UNCHANGED <<ledger, fills, position, ready>>
    BY <1>0, <1>1 DEF Apply, tableVars
  <2> QED BY <1>0, <2>1, IdleProjection
<1>2. CASE OrdersAccepted(r) /\ FillsAccepted(r)
  <2>1. /\ fills' = [i \in Ids |-> Merged(r, i)]
        /\ position' = seen[r] /\ ready' = ~issues[r]
    BY <1>2 DEF Apply
  <2>2. ASSUME NEW i \in Ids, fills'[i] # "absent" PROVE i <= Len(ledger')
    <3>1. Len(ledger) \in Nat /\ last[r] \in Nat /\ first[r] \in Nat /\ last[r] <= Len(ledger)
      BY DEF FillInv, Kinds, PageInv
    <3>2. CASE i \in (first[r] + 1) .. last[r]
      BY <1>0, <3>1, <3>2
    <3>3. CASE i \notin (first[r] + 1) .. last[r]
      <4>1. fills'[i] = fills[i]
        BY <2>1, <3>3 DEF Merged
      <4> QED BY <1>0, <2>2, <4>1 DEF ProjectionInv
    <3> QED BY <3>2, <3>3
  <2>3. Attributed' = Projected(r)
    <3> DEFINE M(i) == Merged(r, i)
    <3>1. Projected(r) = {i \in {j \in Ids : M(j) = "attributed"} : ledger[i] \in Owned}
      BY DEF Projected, OwnedFills
    <3>2. Attributed' = {i \in {j \in Ids : fills'[j] = "attributed"} : ledger'[i] \in Owned}
      BY DEF Attributed, OwnedFills
    <3>3. \A i \in Ids : fills'[i] = M(i)
      BY <2>1
    <3> HIDE DEF M
    <3> QED BY <1>0, <3>1, <3>2, <3>3
  <2>4. Units(Attributed)' = Units(Projected(r))
    <3>1. Units(Attributed)' = SumFunction([i \in Attributed' |-> Sign[ledger'[i]]])
      BY Zenon DEF Units
    <3> DEFINE A == Projected(r)
    <3>2. SumFunction([i \in A |-> Sign[ledger'[i]]]) = Units(A)
      <4> HIDE DEF A
      <4> QED BY <1>0, UnitsSame
    <3> QED BY <2>3, <3>1, <3>2, Zenon
  <2>5. ready' => (position = Units(Attributed))'
    <3>1. ~issues[r] => Units(Projected(r)) = seen[r]
      BY <1>0 DEF ProjectionInv
    <3> QED BY <2>1, <2>4, <3>1
  <2> QED BY <1>0, <2>2, <2>5 DEF ProjectionInv
<1> QED BY <1>1, <1>2

\* While one process reconciles, a ready report tells the truth: the stored
\* position is what the stored fills of this strategy add up to, whatever the
\* broker trades meanwhile and wherever a call fails.  The premise is needed:
\* between _compare_positions and apply_reconciliation a second process can
\* store fills that this call did not project.
THEOREM ReadyTrue ==
  ASSUME \A q, r \in Reconcilers : q = r
  PROVE  Spec => []ReadyMatchesFills
<1> DEFINE Inv == FillInv /\ TypesInv /\ ProjectionInv
<1>1. Init => Inv
  <2>1. Init => ProjectionInv
    BY DEF Init, ProjectionInv
  <2> QED BY <2>1, InitFill, InitTypes
<1>2. Inv /\ [Next]_vars => Inv'
  <2> SUFFICES ASSUME Inv, [Next]_vars PROVE ProjectionInv'
    BY NextFill, NextTypes
  <2>1. CASE UNCHANGED vars
    <3>1. /\ UNCHANGED <<ledger, fills, position, ready, pc, issues, seen, first, last, named>>
      BY <2>1 DEF vars, brokerVars, tableVars, localVars
    <3>2. Attributed' = Attributed /\ \A r \in Reconcilers : Projected(r)' = Projected(r)
      BY <3>1 DEF Attributed, Projected, Merged, OwnedFills
    <3>3. Units(Attributed)' = Units(Attributed)
      BY <3>1, <3>2 DEF Units
    <3>4. \A r \in Reconcilers : Units(Projected(r))' = Units(Projected(r))
      BY <3>1, <3>2 DEF Units
    <3> QED BY <3>1, <3>3, <3>4 DEF ProjectionInv
  <2>2. ASSUME NEW o \in OrderIds, BrokerFill(o) \/ BrokerCancel(o) PROVE ProjectionInv'
    BY <2>2, BrokerProjection
  <2>3. ASSUME NEW r \in Reconcilers, Reconcile(r) \/ Fail(r) PROVE ProjectionInv'
    <3>1. \A q \in Reconcilers : q = r
      OBVIOUS
    <3>2. CASE Project(r)
      BY <3>1, <3>2, ProjectProjection
    <3>3. CASE Apply(r)
      BY <3>1, <3>3, ApplyProjection
    <3>4. CASE \/ ReadPositions(r) \/ ReadOpenOrders(r) \/ ReadCheckpoint(r)
               \/ ReadPage(r) \/ Attribute(r) \/ Fail(r)
      <4>1. UNCHANGED <<ledger, fills, position, ready>>
        BY <3>4 DEF ReadPositions, ReadOpenOrders, ReadCheckpoint, ReadPage, Attribute, Fail,
             brokerVars, tableVars
      <4>2. pc'[r] # "apply"
        <5>1. pc \in [Reconcilers -> {"idle", "orders", "pages", "page", "owners", "apply"}]
          BY DEF FillInv, Kinds
        <5> QED BY <3>4, <5>1 DEF ReadPositions, ReadOpenOrders, ReadCheckpoint, ReadPage, Attribute,
                 Fail, Return, Goto
      <4> QED BY <3>1, <4>1, <4>2, IdleProjection
    <3> QED BY <2>3, <3>2, <3>3, <3>4 DEF Reconcile
  <2> HIDE DEF Inv
  <2> QED BY <2>1, <2>2, <2>3 DEF Next
<1>3. Inv => ReadyMatchesFills
  BY DEF ProjectionInv, ReadyMatchesFills, Attributed
<1> HIDE DEF Inv
<1> QED BY <1>1, <1>2, <1>3, PTL DEF Spec


-----------------------------------------------------------------------------
(* The evidence contract *)

Stored == {i \in Ids : fills[i] # "absent"}
WithOwner == {i \in Ids : fills[i] = "attributed"}

\* An accepted transaction is one commit of the contract: the call paged
\* without a gap from a checkpoint that was covered, so it retains everything
\* up to the last activity it read.
LEMMA ApplyCommits ==
  ASSUME FillInv, NEW r \in Reconcilers, Apply(r), OrdersAccepted(r), FillsAccepted(r)
  PROVE  Evidence!Next
<1> DEFINE n == last[r]
<1> DEFINE owned == {i \in Ids : Merged(r, i) = "attributed" /\ i <= n}
<1>1. /\ Len(ledger) \in Nat /\ Len(ledger) <= MaxFills /\ n \in Nat /\ n <= Len(ledger)
      /\ first[r] \in Nat
  BY DEF FillInv, Kinds, PageInv
<1>2. /\ ledger' = ledger /\ fills' = [i \in Ids |-> Merged(r, i)]
      /\ checkpoint' = IF n = 0 THEN checkpoint ELSE n
  BY DEF Apply, brokerVars
<1>3. \A i \in Ids : fills'[i] = Merged(r, i)
  BY <1>2
<1>4. ASSUME NEW i \in Ids, ~(i <= n) PROVE Merged(r, i) = fills[i]
  BY <1>1, <1>4 DEF Merged, Ids
<1>5. Stored' = Stored \cup (1 .. n)
  <2>1. 1 .. n \subseteq Ids
    BY <1>1 DEF Ids
  <2>2. ASSUME NEW i \in Ids PROVE fills'[i] # "absent" <=> fills[i] # "absent" \/ i \in 1 .. n
    <3>1. i \in 1 .. n <=> i <= n
      BY <1>1 DEF Ids
    <3>2. /\ fills[i] # "absent" => Merged(r, i) # "absent"
          /\ i <= n => Merged(r, i) # "absent"
      BY MergedKeeps
    <3> QED BY <1>3, <1>4, <3>1, <3>2
  <2> HIDE DEF n
  <2> QED BY <2>1, <2>2 DEF Stored
<1>6. WithOwner' = WithOwner \cup owned
  <2>1. ASSUME NEW i \in Ids PROVE fills'[i] = "attributed" <=> fills[i] = "attributed" \/ i \in owned
    <3>1. fills[i] = "attributed" => Merged(r, i) = "attributed"
      BY MergedKeeps
    <3>2. i \in owned <=> Merged(r, i) = "attributed" /\ i <= n
      OBVIOUS
    <3> HIDE DEF owned, n
    <3> QED BY <1>3, <1>4, <3>1, <3>2
  <2>2. owned \subseteq Ids
    OBVIOUS
  <2> HIDE DEF owned
  <2> QED BY <2>1, <2>2 DEF WithOwner
<1>7. owned \in SUBSET (1 .. n) /\ n \in 0 .. Len(ledger)
  BY <1>1 DEF Ids
<1> HIDE DEF owned, n
<1>8. Evidence!Commit(n, owned)
  BY <1>2, <1>5, <1>6 DEF Evidence!Commit, Stored, WithOwner
<1>9. \E m \in 0 .. Len(ledger) : \E w \in SUBSET (1 .. m) : Evidence!Commit(m, w)
  BY ONLY <1>7, <1>8, Zenon DEF Evidence!Commit
<1> QED BY ONLY <1>9, Zenon DEF Evidence!Next

\* The initial tables are the contract's.
LEMMA InitEvidence == Init => Evidence!Init
<1> SUFFICES ASSUME Init PROVE Evidence!Init
  OBVIOUS
<1>1. ledger = <<>> /\ checkpoint = 0 /\ \A i \in Ids : fills[i] = "absent"
  BY DEF Init
<1>2. Len(ledger) = 0
  BY <1>1
<1>3. Stored = {} /\ WithOwner = {}
  BY <1>1 DEF Stored, WithOwner
<1> QED BY <1>1, <1>2, <1>3, Zenon DEF Evidence!Init, Stored, WithOwner

\* Every step of the reconcilers and of the broker is a step of the contract
\* or leaves its state alone.
LEMMA NextEvidence == FillInv /\ [Next]_vars => [Evidence!Next]_(Evidence!vars)
<1> SUFFICES ASSUME FillInv, [Next]_vars PROVE [Evidence!Next]_(Evidence!vars)
  OBVIOUS
<1>1. ASSUME UNCHANGED <<ledger, fills, checkpoint>> PROVE UNCHANGED Evidence!vars
  BY <1>1 DEF Evidence!vars
<1>2. ASSUME NEW o \in OrderIds, BrokerFill(o) PROVE Evidence!Next
  <2>1. Len(ledger') = Len(ledger) + 1
    BY <1>2 DEF BrokerFill, FillInv, Kinds
  <2>2. UNCHANGED <<fills, checkpoint>>
    BY <1>2 DEF BrokerFill, tableVars
  <2>3. Evidence!Execute
    BY <2>1, <2>2 DEF Evidence!Execute
  <2> QED BY <2>3 DEF Evidence!Next
<1>3. ASSUME NEW o \in OrderIds, BrokerCancel(o) PROVE UNCHANGED <<ledger, fills, checkpoint>>
  BY <1>3 DEF BrokerCancel, tableVars
<1>4. ASSUME NEW r \in Reconcilers,
             \/ ReadPositions(r) \/ ReadOpenOrders(r) \/ ReadCheckpoint(r) \/ ReadPage(r)
             \/ Attribute(r) \/ Project(r) \/ Fail(r)
      PROVE  UNCHANGED <<ledger, fills, checkpoint>>
  BY <1>4 DEF ReadPositions, ReadOpenOrders, ReadCheckpoint, ReadPage, Attribute, Project, Fail,
              brokerVars, tableVars
<1>5. ASSUME NEW r \in Reconcilers, Apply(r) PROVE [Evidence!Next]_(Evidence!vars)
  <2>1. CASE OrdersAccepted(r) /\ FillsAccepted(r)
    BY <1>5, <2>1, ApplyCommits
  <2>2. CASE ~(OrdersAccepted(r) /\ FillsAccepted(r))
    <3>1. UNCHANGED <<ledger, fills, checkpoint>>
      BY <1>5, <2>2 DEF Apply, brokerVars, tableVars
    <3> QED BY <1>1, <3>1
  <2> QED BY <2>1, <2>2
<1>6. ASSUME UNCHANGED vars PROVE UNCHANGED <<ledger, fills, checkpoint>>
  BY <1>6 DEF vars, brokerVars, tableVars
<1> QED BY <1>1, <1>2, <1>3, <1>4, <1>5, <1>6, Zenon DEF Next, Reconcile

\* Concurrent reconciliations implement the evidence contract: what
\* apply_reconciliation commits is gapless up to the checkpoint it sets, comes
\* from the broker, and is never taken back.
THEOREM EvidenceRefinement == Spec => ImplementsEvidence
<1>1. Init => Evidence!Init
  BY InitEvidence
<1>2. FillInv /\ [Next]_vars => [Evidence!Next]_(Evidence!vars)
  BY NextEvidence
<1> QED BY <1>1, <1>2, FillInvariant, PTL DEF Spec, ImplementsEvidence, Evidence!Spec
=============================================================================
