--------------------------- MODULE PreTradeProofs ---------------------------
(***************************************************************************)
(* Proofs about PreTradeControls: its types, the rate limits, and the      *)
(* exposure, reserve and oversell bounds with their allowance for what     *)
(* fills during an assessment, for any symbols, limits and orders.         *)
(***************************************************************************)
EXTENDS PreTradeControls, FiniteSums

-----------------------------------------------------------------------------
(* Open orders *)

\* What one order contributes.
Part(o, side) == IF o.side = side THEN o.left ELSE 0

\* Remaining is a sum of parts, and a part is a natural number.
LEMMA RemainingIs ==
  ASSUME NEW side, NEW orders, orders \subseteq OpenOrder, IsFiniteSet(orders),
         NEW T \in SUBSET orders
  PROVE  /\ \A o \in orders : Part(o, side) \in Nat
         /\ Remaining(T, side) = SumFunctionOnSet([o \in orders |-> Part(o, side)], T)
         /\ Remaining(T, side) \in Int
<1> DEFINE f == [o \in orders |-> Part(o, side)]
<1> DEFINE g == [o \in T |-> Part(o, side)]
<1>1. \A o \in orders : Part(o, side) \in Nat
  BY DEF OpenOrder, Part
<1>2. IsFiniteSet(T)
  BY FS_Subset
<1>3. \A o \in T : g[o] \in Int /\ g[o] = f[o]
  BY <1>1
<1>4. Remaining(T, side) = SumFunctionOnSet(g, T)
  <2>1. DOMAIN g = T
    OBVIOUS
  <2> QED BY <2>1, Zenon DEF Remaining, Part, SumFunction
<1> HIDE DEF f, g
<1>5. SumFunctionOnSet(g, T) = SumFunctionOnSet(f, T) /\ SumFunctionOnSet(g, T) \in Int
  BY <1>2, <1>3, SumSame, SumRemove
<1> QED BY <1>1, <1>4, <1>5 DEF f

\* An order that goes takes its part with it.
LEMMA RemainingRemove ==
  ASSUME NEW side, NEW orders, orders \subseteq OpenOrder, IsFiniteSet(orders), NEW o \in orders
  PROVE  /\ Remaining(orders, side) = Remaining(orders \ {o}, side) + Part(o, side)
         /\ Remaining(orders, side) \in Int /\ Remaining(orders \ {o}, side) \in Int
         /\ Part(o, side) \in Nat
<1> DEFINE f == [p \in orders |-> Part(p, side)]
<1> DEFINE T == orders \ {o}
<1>1. /\ \A p \in orders : Part(p, side) \in Nat
      /\ Remaining(orders, side) = SumFunctionOnSet(f, orders)
      /\ Remaining(orders, side) \in Int
  <2>1. orders \in SUBSET orders
    OBVIOUS
  <2> QED BY <2>1, RemainingIs
<1>2. Remaining(T, side) = SumFunctionOnSet(f, T) /\ Remaining(T, side) \in Int
  <2>1. T \in SUBSET orders
    OBVIOUS
  <2> HIDE DEF T
  <2> QED BY <2>1, RemainingIs
<1>3. f[o] = Part(o, side) /\ \A p \in orders : f[p] \in Int
  BY <1>1
<1> HIDE DEF f
<1>4. SumFunctionOnSet(f, orders) = f[o] + SumFunctionOnSet(f, T)
  BY <1>3, SumRemove
<1> QED BY <1>1, <1>2, <1>3, <1>4

\* An order that comes adds at most its part.
LEMMA RemainingAdd ==
  ASSUME NEW side, NEW orders, orders \subseteq OpenOrder, IsFiniteSet(orders), NEW o \in OpenOrder
  PROVE  /\ IsFiniteSet(orders \cup {o})
         /\ Remaining(orders \cup {o}, side) \in Int /\ Remaining(orders, side) \in Int
         /\ Part(o, side) \in Nat
         /\ Remaining(orders \cup {o}, side) <= Remaining(orders, side) + Part(o, side)
<1> DEFINE all == orders \cup {o}
<1>1. IsFiniteSet(all) /\ all \subseteq OpenOrder /\ o \in all
  BY FS_AddElement
<1>2. /\ Remaining(all, side) = Remaining(all \ {o}, side) + Part(o, side)
      /\ Remaining(all, side) \in Int /\ Remaining(all \ {o}, side) \in Int
      /\ Part(o, side) \in Nat
  <2> HIDE DEF all
  <2> QED BY <1>1, RemainingRemove
<1>3. CASE o \in orders
  <2>1. all = orders
    BY <1>3
  <2> HIDE DEF all
  <2> QED BY <1>1, <1>2, <2>1 DEF all
<1>4. CASE o \notin orders
  <2>1. all \ {o} = orders
    BY <1>4
  <2> HIDE DEF all
  <2> QED BY <1>1, <1>2, <2>1 DEF all
<1> QED BY <1>3, <1>4

\* The empty book, and a bound for a book of small orders.
LEMMA RemainingBounded ==
  ASSUME NEW side, NEW orders, orders \subseteq OpenOrder, IsFiniteSet(orders),
         NEW b \in Nat, \A o \in orders : o.left <= b
  PROVE  /\ 0 <= Remaining(orders, side) /\ Remaining(orders, side) <= b * Cardinality(orders)
         /\ Remaining(orders, side) \in Int
<1> DEFINE f == [o \in orders |-> Part(o, side)]
<1>1. /\ \A o \in orders : Part(o, side) \in Nat
      /\ Remaining(orders, side) = SumFunctionOnSet(f, orders)
      /\ Remaining(orders, side) \in Int
  <2>1. orders \in SUBSET orders
    OBVIOUS
  <2> QED BY <2>1, RemainingIs
<1>2. \A o \in orders : f[o] \in Int /\ 0 <= f[o] /\ f[o] <= b
  BY <1>1 DEF Part, OpenOrder
<1> HIDE DEF f
<1> QED BY <1>1, <1>2, SumBounded

-----------------------------------------------------------------------------
(* Types, and the rate of submissions *)

\* The part of the invariant that is about the submissions and does not depend
\* on what was filled.
RateInv == TypeOK /\ StampsInv /\ RateBounded

\* A set with at most one element more has at most one element more.
LEMMA OneMore ==
  ASSUME NEW S, IsFiniteSet(S), NEW x, NEW T, T \subseteq S \cup {x}
  PROVE  /\ IsFiniteSet(T) /\ Cardinality(T) \in Nat /\ Cardinality(S) \in Nat
         /\ Cardinality(T) <= Cardinality(S) + 1
<1> DEFINE U == S \cup {x}
<1>1. IsFiniteSet(U) /\ (Cardinality(U) = Cardinality(S) \/ Cardinality(U) = Cardinality(S) + 1)
  BY FS_AddElement
<1>2. Cardinality(U) \in Nat /\ Cardinality(S) \in Nat
  BY <1>1, FS_CardinalityType
<1> HIDE DEF U
<1>3. IsFiniteSet(T) /\ Cardinality(T) <= Cardinality(U)
  BY <1>1, FS_Subset DEF U
<1>4. Cardinality(T) \in Nat
  BY <1>3, FS_CardinalityType
<1> QED BY <1>1, <1>2, <1>3, <1>4

\* Nothing was submitted yet.
LEMMA RateInit == Init => RateInv
<1> SUFFICES ASSUME Init PROVE RateInv
  OBVIOUS
<1> USE ControlConstants DEF LimitsValid
<1>1. TypeOK
  BY DEF Init, TypeOK, Times, NoShares, NoAccount, NoHoldings
<1>2. IsFiniteSet({}) /\ Cardinality({}) = 0
  BY FS_EmptySet
<1>3. StampsInv
  BY <1>2 DEF Init, StampsInv
<1>4. RateBounded
  <2>1. stamps = {}
    BY DEF Init
  <2>2. \A t \in Times : {x \in stamps : t - Window <= x.at /\ x.at <= t} = {}
    BY <2>1
  <2>3. InSession = {}
    BY <2>1 DEF InSession
  <2> QED BY <1>2, <2>2, <2>3 DEF RateBounded
<1> QED BY <1>1, <1>3, <1>4 DEF RateInv

\* Every action keeps the types; an accepted order has the number of its row.
LEMMA TypeStep == RateInv /\ [Next]_vars => TypeOK'
<1> SUFFICES ASSUME RateInv, [Next]_vars PROVE TypeOK'
  OBVIOUS
<1> USE ControlConstants DEF LimitsValid, RateInv
<1>0. CASE UNCHANGED vars
  BY <1>0 DEF TypeOK, vars, brokerVars, readVars, historyVars
<1>1. ASSUME NEW order \in Requests, Assess(order) PROVE TypeOK'
  BY <1>1 DEF TypeOK, Assess, brokerVars, readVars, historyVars
<1>2. Equity \in Int
  <2>1. position \in [Symbols -> Int] /\ cash \in Int /\ IsFiniteSet(Symbols) /\ DOMAIN position = Symbols
    BY DEF TypeOK
  <2>2. SumFunctionOnSet(position, Symbols) \in Int
    BY <2>1, SumRemove
  <2> QED BY <2>1, <2>2 DEF Equity, SumFunction
<1>3. CASE ReadAccount
  BY <1>2, <1>3 DEF TypeOK, ReadAccount, brokerVars, historyVars
<1>4. CASE ReadPositions
  BY <1>4 DEF TypeOK, ReadPositions, brokerVars, historyVars
<1>5. CASE ReadOpenOrders
  BY <1>5 DEF TypeOK, ReadOpenOrders, brokerVars, historyVars
<1>6. ASSUME Forget
      PROVE  /\ account' \in [cash : Int, equity : Int, at : Times]
             /\ held' \in [shares : [Symbols -> Int], at : Times] /\ listed' \subseteq OpenOrder
             /\ moved' \in Nat /\ slip' \in Nat
  BY <1>6 DEF Forget, NoAccount, NoHoldings, NoShares, Times, TypeOK
<1>7. CASE Decide
  <2>1. stamps' \subseteq [id : Ids, at : Times]
    <3>1. Cardinality(stamps) \in Nat /\ Cardinality(stamps) < MaxOrders
      BY <1>7, FS_CardinalityType DEF Decide, StampsInv
    <3>2. [id |-> Cardinality(stamps) + 1, at |-> now] \in [id : Ids, at : Times]
      BY <3>1 DEF Ids, TypeOK
    <3> QED BY <1>7, <3>2 DEF Decide, TypeOK
  <2> QED BY <1>6, <1>7, <2>1 DEF TypeOK, Decide, brokerVars
<1>8. CASE Deny
  BY <1>6, <1>8 DEF TypeOK, Deny, brokerVars
<1>9. CASE Accept
  <2>1. Cardinality(stamps) \in Ids
    <3>1. Cardinality(stamps) \in Nat /\ Cardinality(stamps) # 0 /\ Cardinality(stamps) <= MaxOrders
      BY <1>9, FS_CardinalityType, FS_EmptySet DEF Accept, StampsInv
    <3> QED BY <3>1 DEF Ids
  <2>2. request \in Requests
    BY <1>9 DEF Accept, StampsInv
  <2>3. open' \subseteq OpenOrder
    <3> DEFINE o == [id |-> Cardinality(stamps), symbol |-> request.symbol,
                     side |-> request.side, left |-> request.quantity]
    <3>1. request.symbol \in Symbols /\ request.side \in {"buy", "sell"} /\ request.quantity \in Nat \ {0}
      BY <2>2 DEF Requests
    <3>2. o \in OpenOrder
      BY <2>1, <3>1 DEF OpenOrder
    <3>3. open' = open \cup {o}
      BY <1>9 DEF Accept
    <3> HIDE DEF o
    <3> QED BY <3>2, <3>3 DEF TypeOK
  <2> QED BY <1>9, <2>3 DEF TypeOK, Accept, readVars, historyVars
<1>10. CASE Refuse
  BY <1>10 DEF TypeOK, Refuse, brokerVars, readVars, historyVars
<1>11. ASSUME NEW o \in open, Fill(o) PROVE TypeOK'
  <2>1. o \in OpenOrder /\ o.symbol \in Symbols /\ o.left \in Nat \ {0}
    BY DEF TypeOK, OpenOrder
  <2>2. open' \subseteq OpenOrder
    BY <1>11, <2>1 DEF Fill, TypeOK, OpenOrder
  <2> DEFINE n == IF o.side = "buy" THEN 1 ELSE -1
  <2>3. position' = [position EXCEPT ![o.symbol] = @ + n] /\ cash' = cash - n /\ n \in Int
    BY <1>11 DEF Fill
  <2> HIDE DEF n
  <2>4. position' \in [Symbols -> Int] /\ cash' \in Int
    BY <2>1, <2>3 DEF TypeOK
  <2>5. moved' \in Nat /\ slip' \in Nat
    BY <1>11 DEF Fill, TypeOK
  <2> QED BY <1>11, <2>2, <2>4, <2>5 DEF TypeOK, Fill, readVars
<1>12. ASSUME NEW o \in open, Expire(o) PROVE TypeOK'
  BY <1>12 DEF TypeOK, Expire, readVars, historyVars
<1>13. CASE Tick
  BY <1>13 DEF TypeOK, Tick, Times, brokerVars, readVars, historyVars
<1> QED BY <1>0, <1>1, <1>3, <1>4, <1>5, <1>7, <1>8, <1>9, <1>10, <1>11, <1>12, <1>13 DEF Next

\* Rows are numbered by their count, and only a call makes one.
LEMMA StampsStep == RateInv /\ [Next]_vars => StampsInv'
<1> SUFFICES ASSUME RateInv, [Next]_vars PROVE StampsInv'
  OBVIOUS
<1> USE ControlConstants DEF LimitsValid, RateInv
<1>a. Cardinality(stamps) \in Nat /\ time \in Nat /\ now \in Nat /\ \A x \in stamps : x.at \in Nat
  BY FS_CardinalityType DEF StampsInv, TypeOK, Times
<1>0. CASE UNCHANGED vars
  BY <1>0 DEF StampsInv, vars, brokerVars, readVars
<1>1. ASSUME NEW order \in Requests, Assess(order) PROVE StampsInv'
  <2>1. now' = time /\ stamps' = stamps /\ \A x \in stamps : x.at <= time
    BY <1>1, <1>a DEF Assess, StampsInv
  <2> QED BY <1>1, <1>a, <2>1 DEF StampsInv, Assess, brokerVars
<1>3. CASE ReadAccount
  BY <1>3 DEF StampsInv, ReadAccount, brokerVars
<1>4. CASE ReadPositions
  BY <1>4 DEF StampsInv, ReadPositions, brokerVars
<1>5. CASE ReadOpenOrders
  BY <1>5 DEF StampsInv, ReadOpenOrders, brokerVars
<1>7. CASE Decide
  <2>1. CASE Allowed(request)
    <3> DEFINE n == [id |-> Cardinality(stamps) + 1, at |-> now]
    <3>1. stamps' = stamps \cup {n} /\ pc' = "sent" /\ n.at = now
      BY <1>7, <2>1 DEF Decide
    <3> HIDE DEF n
    <3>2. IsFiniteSet(stamps') /\ Cardinality(stamps') <= Cardinality(stamps) + 1
             /\ Cardinality(stamps') \in Nat
      BY <3>1, OneMore DEF StampsInv
    <3>3. Cardinality(stamps) < MaxOrders
      BY <1>7 DEF Decide, StampsInv
    <3>4. \A x \in stamps' : x.at <= now
      BY <1>a, <3>1 DEF StampsInv
    <3> QED BY <1>7, <1>a, <3>1, <3>2, <3>3, <3>4 DEF Decide, StampsInv, brokerVars
  <2>2. CASE ~Allowed(request)
    BY <1>7, <2>2 DEF StampsInv, Decide, brokerVars
  <2> QED BY <2>1, <2>2
<1>8. CASE Deny
  BY <1>8 DEF StampsInv, Deny, brokerVars
<1>9. CASE Accept
  <2>1. IsFiniteSet(open')
    BY <1>9, FS_AddElement DEF Accept, StampsInv
  <2> QED BY <1>9, <2>1 DEF StampsInv, Accept
<1>10. CASE Refuse
  BY <1>10 DEF StampsInv, Refuse, brokerVars
<1>11. ASSUME NEW o \in open, Fill(o) PROVE StampsInv'
  <2>1. IsFiniteSet(open')
    <3> DEFINE m == [o EXCEPT !.left = @ - 1]
    <3>1. open' \subseteq open \cup {m}
      BY <1>11 DEF Fill
    <3> HIDE DEF m
    <3> QED BY <3>1, OneMore DEF StampsInv
  <2> QED BY <1>11, <2>1 DEF StampsInv, Fill
<1>12. ASSUME NEW o \in open, Expire(o) PROVE StampsInv'
  <2>1. IsFiniteSet(open')
    BY <1>12, FS_Subset DEF Expire, StampsInv
  <2> QED BY <1>12, <2>1 DEF StampsInv, Expire
<1>13. CASE Tick
  BY <1>13, <1>a DEF StampsInv, Tick, brokerVars
<1> QED BY <1>0, <1>1, <1>3, <1>4, <1>5, <1>7, <1>8, <1>9, <1>10, <1>11, <1>12, <1>13 DEF Next

\* The window that ends at the new row's stamp was checked; a later window
\* sees no more of the earlier rows, and an earlier one does not see the row.
LEMMA RateStep == RateInv /\ [Next]_vars => RateBounded'
<1> SUFFICES ASSUME RateInv, [Next]_vars PROVE RateBounded'
  OBVIOUS
<1> USE ControlConstants DEF LimitsValid, RateInv
<1>1. CASE stamps' = stamps
  BY <1>1 DEF RateBounded, InSession
<1>2. CASE stamps' # stamps
  <2> DEFINE n == [id |-> Cardinality(stamps) + 1, at |-> now]
  <2>1. Allowed(request) /\ stamps' = stamps \cup {n} /\ n.at = now
    BY <1>2 DEF Next, Assess, ReadAccount, ReadPositions, ReadOpenOrders, Decide, Deny, Accept,
                Refuse, Fill, Expire, Tick, vars
  <2> HIDE DEF n
  <2>2. Cardinality(Recent(now)) < MaxPerWindow /\ Cardinality(InSession) < MaxPerSession
    BY <2>1 DEF Allowed, RateAllows
  <2>3. now \in Int /\ Window \in Nat /\ MaxPerWindow \in Nat /\ MaxPerSession \in Nat
           /\ \A x \in stamps : x.at \in Int /\ x.at <= now
    BY DEF TypeOK, Times, StampsInv
  <2>4. IsFiniteSet(Recent(now)) /\ IsFiniteSet(InSession)
    <3>1. Recent(now) \subseteq stamps /\ InSession \subseteq stamps
      BY DEF Recent, InSession
    <3> QED BY <3>1, FS_Subset DEF StampsInv
  <2>5. InSession' \subseteq InSession \cup {n}
    BY <2>1 DEF InSession
  <2>6. Cardinality(InSession') <= MaxPerSession
    <3> DEFINE A == InSession
    <3> DEFINE B == InSession'
    <3>1. IsFiniteSet(A) /\ B \subseteq A \cup {n} /\ Cardinality(A) < MaxPerSession
      BY <2>2, <2>4, <2>5
    <3> HIDE DEF A, B
    <3>2. /\ Cardinality(B) \in Nat /\ Cardinality(A) \in Nat
          /\ Cardinality(B) <= Cardinality(A) + 1
      BY <3>1, OneMore
    <3>3. Cardinality(B) <= MaxPerSession
      BY <2>3, <3>1, <3>2
    <3> QED BY <3>3 DEF B
  <2>7. ASSUME NEW t \in Times
        PROVE  Cardinality({x \in stamps' : t - Window <= x.at /\ x.at <= t}) <= MaxPerWindow
    <3> DEFINE W == {x \in stamps' : t - Window <= x.at /\ x.at <= t}
    <3>1. t \in Int
      BY DEF Times
    <3>2. CASE t < now
      <4>1. W = {x \in stamps : t - Window <= x.at /\ x.at <= t}
        BY <2>1, <2>3, <3>1, <3>2
      <4> QED BY <4>1 DEF RateBounded
    <3>3. CASE ~(t < now)
      <4>1. W \subseteq Recent(now) \cup {n}
        BY <2>1, <2>3, <3>1, <3>3 DEF Recent
      <4> DEFINE A == Recent(now)
      <4>2. IsFiniteSet(A) /\ W \subseteq A \cup {n} /\ Cardinality(A) < MaxPerWindow
        BY <2>2, <2>4, <4>1
      <4> HIDE DEF W, A
      <4>3. /\ Cardinality(W) \in Nat /\ Cardinality(A) \in Nat
            /\ Cardinality(W) <= Cardinality(A) + 1
        BY <4>2, OneMore
      <4>4. Cardinality(W) <= MaxPerWindow
        BY <2>3, <4>2, <4>3
      <4> QED BY <4>4 DEF W
    <3> QED BY <3>2, <3>3
  <2> QED BY <2>6, <2>7 DEF RateBounded
<1> QED BY <1>1, <1>2

\* The invariant of the assessment, whatever the broker does meanwhile.
LEMMA RateInvariant == Spec => []RateInv
<1>1. RateInv /\ [Next]_vars => RateInv'
  BY TypeStep, StampsStep, RateStep DEF RateInv
<1> QED BY <1>1, RateInit, PTL DEF Spec

\* PaperPreTradeController.assess keeps its snapshots, rows and the broker's
\* book well formed, for any limits, symbols and bounds.
THEOREM PreTradeTypes == Spec => []TypeOK
<1>1. RateInv => TypeOK
  BY DEF RateInv
<1> QED BY <1>1, RateInvariant, PTL

\* order_rate_limit and session_order_limit: no window of the given length,
\* wherever it lies, and no session ever holds more submissions than allowed,
\* whatever the broker does during an assessment.
THEOREM RatesBounded == Spec => []RateBounded
<1>1. RateInv => RateBounded
  BY DEF RateInv
<1> QED BY <1>1, RateInvariant, PTL

-----------------------------------------------------------------------------
(* What a fill does to the account *)

\* Max with zero.
LEMMA MaxZero ==
  ASSUME NEW n \in Int
  PROVE  Max({0, n}) = IF n < 0 THEN 0 ELSE n
<1> DEFINE m == IF n < 0 THEN 0 ELSE n
<1> DEFINE P(x) == x \in {0, n} /\ \A y \in {0, n} : x >= y
<1>1. P(m) /\ \A x : P(x) => x = m
  OBVIOUS
<1>2. Max({0, n}) = CHOOSE x : P(x)
  <2>1. \A x : P(x) <=> (x \in {0, n} /\ \A y \in {0, n} : x >= y)
    OBVIOUS
  <2> QED BY Zenon DEF Max
<1>3. P(CHOOSE x : P(x))
  <2> HIDE DEF P, m
  <2> QED BY <1>1, Zenon
<1> HIDE DEF P
<1> QED BY <1>1, <1>2, <1>3

\* The long exposure follows one symbol's position.
LEMMA LongChange ==
  ASSUME NEW p \in [Symbols -> Int], NEW q \in [Symbols -> Int], NEW s \in Symbols,
         NEW n \in {1, -1}, q[s] = p[s] + n, \A t \in Symbols : t # s => p[t] = q[t]
  PROVE  /\ Long(p) \in Int /\ Long(q) \in Int
         /\ n = 1 => Long(q) <= Long(p) + 1
         /\ n = -1 => Long(q) <= Long(p)
         /\ SumFunction(p) \in Int /\ SumFunction(q) = SumFunction(p) + n
<1> DEFINE f == [t \in Symbols |-> Max({0, p[t]})]
<1> DEFINE g == [t \in Symbols |-> Max({0, q[t]})]
<1>1. IsFiniteSet(Symbols)
  BY ControlConstants DEF LimitsValid
<1>2. p[s] \in Int /\ q[s] \in Int
  OBVIOUS
<1>3. SumFunction(p) \in Int /\ SumFunction(q) \in Int /\ SumFunction(q) = SumFunction(p) - p[s] + q[s]
  <2>1. \A t \in Symbols : t # s => p[t] = q[t]
    OBVIOUS
  <2> HIDE DEF f, g
  <2> QED BY ONLY <1>1, <2>1, SumChange, p \in [Symbols -> Int], q \in [Symbols -> Int], s \in Symbols
<1>4. /\ \A t \in Symbols : f[t] = IF p[t] < 0 THEN 0 ELSE p[t]
      /\ \A t \in Symbols : g[t] = IF q[t] < 0 THEN 0 ELSE q[t]
  <2>1. \A t \in Symbols : p[t] \in Int /\ q[t] \in Int
    OBVIOUS
  <2>2. \A t \in Symbols : f[t] = Max({0, p[t]}) /\ g[t] = Max({0, q[t]})
    OBVIOUS
  <2> HIDE DEF f, g
  <2> QED BY <2>1, <2>2, MaxZero
<1>5. f \in [Symbols -> Int] /\ g \in [Symbols -> Int]
  <2>1. \A t \in Symbols : f[t] \in Int /\ g[t] \in Int
    <3>1. \A t \in Symbols : p[t] \in Int /\ q[t] \in Int
      OBVIOUS
    <3> HIDE DEF f, g
    <3> QED BY <1>4, <3>1
  <2>2. f = [t \in Symbols |-> f[t]] /\ g = [t \in Symbols |-> g[t]]
    OBVIOUS
  <2> HIDE DEF f, g
  <2> QED BY <2>1, <2>2
<1>6. Long(p) = SumFunction(f) /\ Long(q) = SumFunction(g)
  BY Zenon DEF Long
<1> HIDE DEF f, g
<1>7. \A t \in Symbols : t # s => f[t] = g[t]
  BY <1>2, <1>4
<1>8. SumFunction(f) \in Int /\ SumFunction(g) \in Int /\ SumFunction(g) = SumFunction(f) - f[s] + g[s]
  <2>1. f \in [Symbols -> Int]
    BY <1>5
  <2>2. g \in [Symbols -> Int]
    BY <1>5
  <2> QED BY <1>1, <1>7, <2>1, <2>2, SumChange
<1>9. f[s] \in Int /\ g[s] \in Int /\ (n = 1 => g[s] <= f[s] + 1) /\ (n = -1 => g[s] <= f[s])
  BY <1>2, <1>4, <1>5
<1>10. SumFunction(q) = SumFunction(p) + n
  BY <1>2, <1>3
<1> QED BY <1>3, <1>6, <1>8, <1>9, <1>10

\* A position's sums are integers.
LEMMA SumsAreInts ==
  ASSUME NEW p \in [Symbols -> Int]
  PROVE  Long(p) \in Int /\ SumFunction(p) \in Int
<1>1. CASE Symbols = {}
  <2> DEFINE f == [s \in Symbols |-> Max({0, p[s]})]
  <2>1. DOMAIN f = {} /\ DOMAIN p = {} /\ IsFiniteSet({})
    BY <1>1, FS_EmptySet
  <2>2. SumFunction(f) = SumFunctionOnSet(f, {}) /\ SumFunction(p) = SumFunctionOnSet(p, {})
    <3> HIDE DEF f
    <3> QED BY <2>1 DEF SumFunction
  <2>3. Long(p) = SumFunction(f)
    BY Zenon DEF Long
  <2> HIDE DEF f
  <2>4. SumFunctionOnSet(f, {}) = 0 /\ SumFunctionOnSet(p, {}) = 0
    BY <2>1, SumFirst
  <2> QED BY <2>2, <2>3, <2>4
<1>2. CASE Symbols # {}
  <2>1. PICK s \in Symbols : TRUE
    BY <1>2
  <2> DEFINE q == [p EXCEPT ![s] = @ + 1]
  <2>2. q \in [Symbols -> Int] /\ q[s] = p[s] + 1 /\ \A t \in Symbols : t # s => p[t] = q[t]
    OBVIOUS
  <2> HIDE DEF q
  <2> QED BY <2>2, LongChange
<1> QED BY <1>1, <1>2

\* A filled share is no longer outstanding.
LEMMA FilledRemaining ==
  ASSUME NEW side, NEW orders, orders \subseteq OpenOrder, IsFiniteSet(orders), NEW o \in orders,
         NEW rest, rest = (orders \ {o}) \cup (IF o.left = 1 THEN {} ELSE {[o EXCEPT !.left = @ - 1]})
  PROVE  /\ Remaining(orders, side) \in Int /\ Remaining(rest, side) \in Int
         /\ Remaining(rest, side) <= Remaining(orders, side) - (IF o.side = side THEN 1 ELSE 0)
<1>1. /\ Remaining(orders, side) = Remaining(orders \ {o}, side) + Part(o, side)
      /\ Remaining(orders, side) \in Int /\ Remaining(orders \ {o}, side) \in Int
  BY RemainingRemove
<1>2. o.left \in Nat \ {0} /\ o \in OpenOrder
  BY DEF OpenOrder
<1>3. Part(o, side) = IF o.side = side THEN o.left ELSE 0
  BY DEF Part
<1> DEFINE T == orders \ {o}
<1> HIDE DEF T
<1>4. CASE o.left = 1
  <2>1. rest = T
    BY <1>4 DEF T
  <2> QED BY <1>1, <1>2, <1>3, <1>4, <2>1 DEF T
<1>5. CASE o.left # 1
  <2> DEFINE m == [o EXCEPT !.left = @ - 1]
  <2>1. m \in OpenOrder /\ m.left = o.left - 1 /\ m.side = o.side
    BY <1>2, <1>5 DEF OpenOrder
  <2>2. rest = T \cup {m}
    BY <1>5 DEF T
  <2>3. Part(m, side) = IF o.side = side THEN o.left - 1 ELSE 0
    BY <2>1 DEF Part
  <2> HIDE DEF m
  <2>4. T \subseteq OpenOrder /\ IsFiniteSet(T)
    BY FS_Subset DEF T
  <2>5. Remaining(rest, side) \in Int /\ Remaining(rest, side) <= Remaining(T, side) + Part(m, side)
    BY <2>1, <2>2, <2>4, RemainingAdd
  <2>6. Remaining(T, side) \in Int /\ Remaining(orders, side) = Remaining(T, side) + Part(o, side)
    BY <1>1 DEF T
  <2> QED BY <1>1, <1>2, <1>3, <2>3, <2>5, <2>6
<1> QED BY <1>4, <1>5

-----------------------------------------------------------------------------
(* The limits, however the broker trades *)

\* What the orders of a symbol promise, from the whole book.
In(orders, s) == {o \in orders : o.symbol = s}

\* What the account is worth is unchanged, no headroom is lost under the gross
\* limit or above the reserve, and no symbol is sold further.
Eases ==
  /\ Equity' = Equity
  /\ Long(position') + Commitment(open') <= Long(position) + Commitment(open)
  /\ cash - Commitment(open) <= cash' - Commitment(open')
  /\ \A s \in Symbols : position[s] - Promised(In(open, s)) <= position'[s] - Promised(In(open', s))
  /\ (\A o \in open : o.left <= MaxOrder) => \A o \in open' : o.left <= MaxOrder
  /\ slip <= slip'

\* No more than k shares change hands.
Moves(k) ==
  /\ cash - k <= cash' /\ Long(position') <= Long(position) + k
  /\ \A s \in Symbols : position[s] - k <= position'[s]

\* Types of the quantities the limits are about.
LEMMA Amounts ==
  ASSUME TypeOK, IsFiniteSet(open)
  PROVE  /\ Equity \in Int /\ Long(position) \in Int /\ cash \in Int /\ Commitment(open) \in Int
         /\ \A s \in Symbols : position[s] \in Int /\ Promised(In(open, s)) \in Int
         /\ \A s \in Symbols : In(open, s) \subseteq OpenOrder /\ IsFiniteSet(In(open, s))
<1>1. position \in [Symbols -> Int] /\ cash \in Int /\ open \subseteq OpenOrder
  BY DEF TypeOK
<1>2. Long(position) \in Int /\ SumFunction(position) \in Int
  BY <1>1, SumsAreInts
<1>3. Commitment(open) \in Int
  <2>1. open \in SUBSET open
    OBVIOUS
  <2> QED BY <1>1, <2>1, RemainingIs DEF Commitment
<1>4. ASSUME NEW s \in Symbols
      PROVE  Promised(In(open, s)) \in Int /\ In(open, s) \subseteq OpenOrder /\ IsFiniteSet(In(open, s))
  <2> DEFINE T == In(open, s)
  <2>1. T \in SUBSET open
    BY DEF In
  <2> HIDE DEF T
  <2>2. Promised(T) \in Int /\ T \subseteq OpenOrder /\ IsFiniteSet(T)
    BY <1>1, <2>1, RemainingIs, FS_Subset DEF Promised
  <2> QED BY <2>2 DEF T
<1> QED BY <1>1, <1>2, <1>3, <1>4 DEF Equity

\* A filled share moves from what is outstanding to the position.
LEMMA FillEases ==
  ASSUME TypeOK, IsFiniteSet(open), NEW o \in open, Fill(o)
  PROVE  Eases /\ Moves(1)
<1> USE DEF TypeOK
<1>1. /\ open \subseteq OpenOrder /\ o \in OpenOrder /\ o.symbol \in Symbols
      /\ o.side \in {"buy", "sell"} /\ o.left \in Nat \ {0}
  BY DEF OpenOrder
<1> DEFINE n == IF o.side = "buy" THEN 1 ELSE -1
<1> DEFINE rest(orders) == (orders \ {o}) \cup (IF o.left = 1 THEN {} ELSE {[o EXCEPT !.left = @ - 1]})
<1>2. /\ position' = [position EXCEPT ![o.symbol] = @ + n] /\ cash' = cash - n
      /\ open' = rest(open) /\ n \in {1, -1}
  BY DEF Fill
<1>3. /\ position \in [Symbols -> Int] /\ position' \in [Symbols -> Int]
      /\ position'[o.symbol] = position[o.symbol] + n
      /\ \A s \in Symbols : s # o.symbol => position[s] = position'[s]
  <2> HIDE DEF n, rest
  <2> QED BY <1>1, <1>2
<1>4. /\ Equity \in Int /\ Long(position) \in Int /\ cash \in Int /\ Commitment(open) \in Int
      /\ \A s \in Symbols : position[s] \in Int /\ Promised(In(open, s)) \in Int
      /\ \A s \in Symbols : In(open, s) \subseteq OpenOrder /\ IsFiniteSet(In(open, s))
  BY Amounts
<1>5. /\ Long(position') \in Int
      /\ n = 1 => Long(position') <= Long(position) + 1
      /\ n = -1 => Long(position') <= Long(position)
      /\ SumFunction(position) \in Int /\ SumFunction(position') = SumFunction(position) + n
  <2> DEFINE p == position
  <2> DEFINE q == position'
  <2> DEFINE s == o.symbol
  <2>1. p \in [Symbols -> Int]
    BY <1>3
  <2>2. q \in [Symbols -> Int]
    BY <1>3
  <2>3. s \in Symbols /\ n \in {1, -1} /\ q[s] = p[s] + n /\ \A t \in Symbols : t # s => p[t] = q[t]
    BY <1>1, <1>2, <1>3
  <2> HIDE DEF n, rest, p, q, s
  <2>4. /\ Long(q) \in Int
        /\ n = 1 => Long(q) <= Long(p) + 1
        /\ n = -1 => Long(q) <= Long(p)
        /\ SumFunction(p) \in Int /\ SumFunction(q) = SumFunction(p) + n
    BY <2>1, <2>2, <2>3, LongChange
  <2> QED BY <2>4 DEF p, q
<1>6. Equity' = Equity
  <2> HIDE DEF n, rest
  <2> QED BY <1>2, <1>4, <1>5 DEF Equity
<1>7. /\ Commitment(open') \in Int
      /\ Commitment(open') <= Commitment(open) - (IF o.side = "buy" THEN 1 ELSE 0)
  <2> DEFINE r == rest(open)
  <2>1. r = (open \ {o}) \cup (IF o.left = 1 THEN {} ELSE {[o EXCEPT !.left = @ - 1]})
    OBVIOUS
  <2>2. open' = r
    BY <1>2
  <2> HIDE DEF rest, r
  <2> QED BY <1>1, <2>1, <2>2, FilledRemaining DEF Commitment
<1>8. ASSUME NEW s \in Symbols
      PROVE  position[s] - Promised(In(open, s)) <= position'[s] - Promised(In(open', s))
  <2> DEFINE T == In(open, s)
  <2>1. T \subseteq OpenOrder /\ IsFiniteSet(T) /\ Promised(T) \in Int /\ position[s] \in Int
    BY <1>4
  <2>2. CASE s # o.symbol
    <3>1. In(open', s) = T
      BY <1>1, <1>2, <2>2 DEF In, OpenOrder
    <3> QED BY <1>3, <2>1, <2>2, <3>1
  <2>3. CASE s = o.symbol
    <3> DEFINE r == rest(T)
    <3>1. In(open', s) = r /\ o \in T
      BY <1>1, <1>2, <2>3 DEF In, OpenOrder
    <3>2. r = (T \ {o}) \cup (IF o.left = 1 THEN {} ELSE {[o EXCEPT !.left = @ - 1]})
      OBVIOUS
    <3> HIDE DEF r, T, rest
    <3>3. /\ Promised(r) \in Int
          /\ Promised(r) <= Promised(T) - (IF o.side = "sell" THEN 1 ELSE 0)
      BY <2>1, <3>1, <3>2, FilledRemaining DEF Promised
    <3>4. position'[s] = position[s] + n /\ n \in {1, -1} /\ (n = -1 <=> o.side = "sell")
      BY <1>1, <1>3, <2>3
    <3> HIDE DEF n
    <3>5. position[s] - Promised(T) <= position'[s] - Promised(r)
      BY <2>1, <3>3, <3>4
    <3> QED BY <3>1, <3>5 DEF T
  <2> QED BY <2>2, <2>3
<1>9. (\A p \in open : p.left <= MaxOrder) => \A p \in open' : p.left <= MaxOrder
  BY <1>1, <1>2, ControlConstants DEF LimitsValid, OpenOrder
<1>10. Long(position') + Commitment(open') <= Long(position) + Commitment(open)
  BY <1>1, <1>4, <1>5, <1>7
<1>11. cash - Commitment(open) <= cash' - Commitment(open')
  BY <1>1, <1>2, <1>4, <1>7
<1>12. slip <= slip'
  BY DEF Fill
<1>13. Moves(1)
  <2>1. cash - 1 <= cash' /\ Long(position') <= Long(position) + 1
    <3>1. /\ cash' = cash - n /\ n \in {1, -1} /\ cash \in Int
          /\ Long(position) \in Int /\ Long(position') \in Int
          /\ (n = 1 => Long(position') <= Long(position) + 1)
          /\ (n = -1 => Long(position') <= Long(position))
      BY <1>2, <1>4, <1>5
    <3> HIDE DEF n, rest
    <3> QED BY <3>1
  <2>2. \A s \in Symbols : position[s] - 1 <= position'[s]
    <3> HIDE DEF n, rest
    <3> QED BY <1>1, <1>2, <1>3, <1>4
  <2> QED BY <2>1, <2>2 DEF Moves
<1> QED BY <1>6, <1>8, <1>9, <1>10, <1>11, <1>12, <1>13 DEF Eases

\* An order that expires gives back what it held.
LEMMA ExpireEases ==
  ASSUME TypeOK, IsFiniteSet(open), NEW o \in open, Expire(o)
  PROVE  Eases /\ Moves(0)
<1>1. open \subseteq OpenOrder /\ o \in OpenOrder
  BY DEF TypeOK
<1>2. position' = position /\ cash' = cash /\ open' = open \ {o}
  BY DEF Expire
<1>3. /\ Equity \in Int /\ Long(position) \in Int /\ cash \in Int /\ Commitment(open) \in Int
      /\ \A s \in Symbols : position[s] \in Int /\ Promised(In(open, s)) \in Int
      /\ \A s \in Symbols : In(open, s) \subseteq OpenOrder /\ IsFiniteSet(In(open, s))
  BY Amounts
<1>4. Equity' = Equity
  BY <1>2 DEF Equity
<1>5. Commitment(open') \in Int /\ Commitment(open') <= Commitment(open)
  <2>1. /\ Remaining(open, "buy") = Remaining(open \ {o}, "buy") + Part(o, "buy")
        /\ Remaining(open \ {o}, "buy") \in Int /\ Part(o, "buy") \in Nat
    BY <1>1, RemainingRemove
  <2> QED BY <1>2, <2>1 DEF Commitment
<1>6. ASSUME NEW s \in Symbols
      PROVE  position[s] - Promised(In(open, s)) <= position'[s] - Promised(In(open', s))
  <2> DEFINE T == In(open, s)
  <2>1. T \subseteq OpenOrder /\ IsFiniteSet(T) /\ Promised(T) \in Int /\ position[s] \in Int
    BY <1>3
  <2>2. CASE s # o.symbol
    <3>1. In(open', s) = T
      BY <1>2, <2>2 DEF In
    <3> QED BY <1>2, <2>1, <3>1
  <2>3. CASE s = o.symbol
    <3>1. In(open', s) = T \ {o} /\ o \in T
      BY <1>2, <2>3 DEF In
    <3> HIDE DEF T
    <3>2. /\ Remaining(T, "sell") = Remaining(T \ {o}, "sell") + Part(o, "sell")
          /\ Remaining(T \ {o}, "sell") \in Int /\ Part(o, "sell") \in Nat
      BY <2>1, <3>1, RemainingRemove
    <3>3. Promised(In(open', s)) \in Int /\ Promised(In(open', s)) <= Promised(T)
      BY <2>1, <3>1, <3>2 DEF Promised
    <3>4. position[s] - Promised(T) <= position'[s] - Promised(In(open', s))
      BY <1>2, <2>1, <3>3
    <3> QED BY <3>4 DEF T
  <2> QED BY <2>2, <2>3
<1>7. (\A p \in open : p.left <= MaxOrder) => \A p \in open' : p.left <= MaxOrder
  BY <1>2
<1>8. Long(position') + Commitment(open') <= Long(position) + Commitment(open)
  BY <1>2, <1>3, <1>5
<1>9. cash - Commitment(open) <= cash' - Commitment(open')
  BY <1>2, <1>3, <1>5
<1>10. slip \in Nat /\ slip' = slip
  BY DEF Expire, historyVars, TypeOK
<1>11. Moves(0)
  BY <1>2, <1>3 DEF Moves
<1> QED BY <1>4, <1>6, <1>7, <1>8, <1>9, <1>10, <1>11 DEF Eases

\* The limits at rest.
Limits == (\A o \in open : o.left <= MaxOrder) /\ GrossBounded /\ ReserveKept /\ OversellBounded

\* The most that orders within the limits can oversell, as a number.
LEMMA Floor ==
  /\ (MaxOpen - 1) * MaxOrder \in Nat
  /\ \A k \in Nat : k < MaxOpen => MaxOrder * k \in Nat /\ MaxOrder * k <= (MaxOpen - 1) * MaxOrder
<1>1. MaxOpen \in Nat \ {0} /\ MaxOrder \in Nat \ {0}
  BY ControlConstants DEF LimitsValid
<1>2. \A k \in Nat : k < MaxOpen => MaxOrder * k <= MaxOrder * (MaxOpen - 1)
  BY <1>1
<1>3. /\ MaxOrder * (MaxOpen - 1) \in Nat
      /\ (MaxOpen - 1) * MaxOrder = MaxOrder * (MaxOpen - 1)
      /\ \A k \in Nat : MaxOrder * k \in Nat
  BY <1>1
<1> QED BY <1>2, <1>3

\* The bound on the oversale is a number that follows the slip.
LEMMA DepthGrows ==
  /\ TypeOK => Depth \in Int
  /\ TypeOK /\ TypeOK' /\ slip <= slip' => Depth' \in Int /\ Depth <= Depth'
<1> DEFINE b == (MaxOpen - 1) * MaxOrder
<1>1. b \in Nat
  BY Floor
<1>2. Depth = b + slip /\ Depth' = b + slip'
  BY DEF Depth
<1> HIDE DEF b
<1> QED BY <1>1, <1>2 DEF TypeOK

\* The percentages and amounts as numbers.
LEMMA Percent ==
  ASSUME NEW e \in Int
  PROVE  e * GrossPct \in Int /\ e * ReservePct \in Int /\ MinReserve \in Int
BY ControlConstants DEF LimitsValid

\* A reserve is kept with more cash.
LEMMA ReservedMore ==
  ASSUME NEW e \in Int, NEW a \in Int, NEW b \in Int, a <= b, Reserved(a, e)
  PROVE  Reserved(b, e)
<1> DEFINE r == e * ReservePct
<1>1. r \in Int /\ MinReserve \in Int /\ a >= MinReserve /\ a * 100 >= r
  BY Percent DEF Reserved
<1> HIDE DEF r
<1>2. b >= MinReserve /\ b * 100 >= r
  BY <1>1
<1> QED BY <1>2 DEF Reserved, r

\* Nothing that eases the account breaks a limit, and an order that was sent
\* still fits.
LEMMA EasedLimits ==
  ASSUME TypeOK, IsFiniteSet(open), TypeOK', IsFiniteSet(open'), open # {}, Eases, Limits, SentInv,
         pc = "sent" => request \in Requests, pc' = pc, request' = request
  PROVE  Limits' /\ SentInv'
<1> DEFINE E == Equity
<1> DEFINE D == Equity * GrossPct
<1> DEFINE L == Long(position) + Commitment(open)
<1> DEFINE M == Long(position') + Commitment(open')
<1> DEFINE K == cash - Commitment(open)
<1> DEFINE J == cash' - Commitment(open')
<1> DEFINE F == Depth
<1> DEFINE H == Depth'
<1>1. /\ E \in Int /\ D \in Int /\ L \in Int /\ K \in Int /\ F \in Int /\ slip \in Int
      /\ \A s \in Symbols : position[s] \in Int /\ Promised(In(open, s)) \in Int
  BY Amounts, Percent, DepthGrows DEF TypeOK
<1>2. /\ M \in Int /\ J \in Int /\ H \in Int /\ slip' \in Int
      /\ \A s \in Symbols : position'[s] \in Int /\ Promised(In(open', s)) \in Int
  <2>1. /\ Long(position') \in Int /\ cash' \in Int /\ Commitment(open') \in Int
        /\ \A s \in Symbols : position'[s] \in Int /\ Promised(In(open', s)) \in Int
    <3>1. (TypeOK /\ IsFiniteSet(open) =>
             /\ Long(position) \in Int /\ cash \in Int /\ Commitment(open) \in Int
             /\ \A s \in Symbols : position[s] \in Int /\ Promised(In(open, s)) \in Int)'
      BY Amounts, PTL
    <3> QED BY <3>1
  <2>2. Depth' \in Int /\ slip' \in Int
    BY DepthGrows DEF Eases, TypeOK
  <2> QED BY <2>1, <2>2
<1>a. Long(position') \in Int /\ Commitment(open') \in Int
  <2>1. (TypeOK /\ IsFiniteSet(open) => Long(position) \in Int /\ Commitment(open) \in Int)'
    BY Amounts, PTL
  <2> QED BY <2>1
<1>3. /\ Equity' = E /\ M <= L /\ K <= J /\ F <= H /\ slip <= slip'
      /\ \A s \in Symbols : position[s] - Promised(In(open, s)) <= position'[s] - Promised(In(open', s))
      /\ \A o \in open' : o.left <= MaxOrder
  BY DepthGrows DEF Eases, Limits
<1>4. /\ (L - slip) * 100 <= D /\ Reserved(K + slip, E)
      /\ \A s \in Symbols : position[s] - Promised(In(open, s)) >= -F
  <2>1. (L - slip) * 100 <= D
    <3>1. GrossBounded
      BY DEF Limits
    <3>2. Long(position) + Commitment(open) - slip = L - slip
      BY <1>1, Amounts
    <3> QED BY ONLY <3>1, <3>2, Zenon DEF GrossBounded
  <2>2. Reserved(K + slip, E)
    BY DEF Limits, ReserveKept
  <2>3. \A s \in Symbols : position[s] - Promised(In(open, s)) >= -F
    BY DEF Limits, OversellBounded, OpenIn, In
  <2> QED BY <2>1, <2>2, <2>3
<1> DEFINE u == slip
<1> DEFINE v == slip'
<1>b. /\ D \in Int /\ L \in Int /\ M \in Int /\ K \in Int /\ J \in Int /\ u \in Int /\ v \in Int
      /\ M <= L /\ K <= J /\ u <= v
  BY <1>1, <1>2, <1>3
<1>5. GrossBounded'
  <2>1. (L - u) * 100 <= D
    BY <1>4
  <2>2. (M - v) * 100 <= D
    <3> HIDE DEF D, E, L, M, K, J, F, H, u, v
    <3> QED BY <1>b, <2>1
  <2>3. (M - slip') * 100 <= Equity' * GrossPct
    BY ONLY <1>3, <2>2, Zenon
  <2>4. Long(position') + Commitment(open') - slip' = M - slip'
    BY <1>2, <1>a
  <2> QED BY ONLY <2>3, <2>4, Zenon DEF GrossBounded
<1>6. Reserved(J + slip', E)
  <2> DEFINE a == K + slip
  <2> DEFINE b == J + slip'
  <2>1. a \in Int /\ b \in Int /\ a <= b
    <3>1. a = K + u /\ b = J + v
      OBVIOUS
    <3> HIDE DEF D, E, L, M, K, J, F, H, u, v, a, b
    <3> QED BY <1>b, <3>1
  <2>2. Reserved(a, E)
    BY <1>4
  <2> HIDE DEF a, b, E
  <2>3. Reserved(b, E)
    BY <1>1, <2>1, <2>2, ReservedMore
  <2> QED BY <2>3 DEF b
<1>7. ReserveKept'
  BY <1>3, <1>6 DEF ReserveKept, Reserved
<1>8. OversellBounded'
  <2>1. ASSUME NEW s \in Symbols PROVE position'[s] - Promised(In(open', s)) >= -H
    <3> DEFINE a == position[s] - Promised(In(open, s))
    <3> DEFINE b == position'[s] - Promised(In(open', s))
    <3>1. a \in Int /\ b \in Int /\ a <= b /\ a >= -F /\ F \in Int /\ H \in Int /\ F <= H
      BY <1>1, <1>2, <1>3, <1>4
    <3> HIDE DEF a, b, F, H
    <3>2. b >= -H
      BY <3>1
    <3> QED BY <3>2 DEF b
  <2> QED BY <2>1 DEF OversellBounded, OpenIn, In
<1>9. SentInv'
  <2> SUFFICES ASSUME pc = "sent"
               PROVE  /\ request.quantity <= MaxOrder
                      /\ request.side = "buy" => Funded(request.quantity)'
                      /\ request.side = "sell" => Covered(request.symbol, request.quantity)'
    BY <1>3, <1>6 DEF SentInv, Reserved, Funded, Covered, OpenIn
  <2> DEFINE q == request.quantity
  <2>1. q \in Int /\ request.symbol \in Symbols /\ q <= MaxOrder
    <3>1. request \in Requests
      OBVIOUS
    <3>2. request.quantity \in Sizes /\ request.symbol \in Symbols
      BY <3>1 DEF Requests
    <3>3. Sizes \subseteq Nat
      BY ControlConstants DEF LimitsValid
    <3>4. request.quantity <= MaxOrder
      BY DEF SentInv
    <3>5. request.quantity \in Nat
      BY <3>2, <3>3
    <3> QED BY <3>2, <3>4, <3>5
  <2>2. ASSUME request.side = "buy" PROVE Funded(q)'
    <3>1. (L + q - slip) * 100 <= D /\ Reserved(K - q + slip, E)
      BY <2>2 DEF SentInv, Funded
    <3>2. (M + q - slip') * 100 <= D
      <4>1. (L + q - u) * 100 <= D
        BY <3>1
      <4> HIDE DEF D, E, L, M, K, J, F, H, u, q
      <4>2. (M + q - v) * 100 <= D
        <5> HIDE DEF v
        <5> QED BY <1>b, <2>1, <4>1
      <4> QED BY <4>2
    <3>3. Reserved(J - q + slip', E)
      <4> DEFINE a == K - q + slip
      <4> DEFINE b == J - q + slip'
      <4>1. a \in Int /\ b \in Int /\ a <= b
        <5>1. a = K - q + u /\ b = J - q + v
          OBVIOUS
        <5> HIDE DEF D, E, L, M, K, J, F, H, u, v, a, b, q
        <5> QED BY <1>b, <2>1, <5>1
      <4>3. Reserved(a, E)
        BY <3>1
      <4> HIDE DEF a, b, E
      <4>2. Reserved(b, E)
        BY <1>1, <4>1, <4>3, ReservedMore
      <4> QED BY <4>2 DEF b
    <3> QED BY <1>3, <3>2, <3>3 DEF Funded, Reserved
  <2>3. ASSUME request.side = "sell" PROVE Covered(request.symbol, q)'
    <3> DEFINE s == request.symbol
    <3> DEFINE a == position[s] - Promised(In(open, s))
    <3> DEFINE b == position'[s] - Promised(In(open', s))
    <3>1. a \in Int /\ b \in Int /\ a <= b /\ F \in Int /\ H \in Int /\ F <= H
      BY <1>1, <1>2, <1>3, <2>1
    <3>2. a - q >= -F
      BY <2>3 DEF SentInv, Covered, OpenIn, In
    <3> HIDE DEF a, b, F, H, q
    <3>3. b - q >= -H
      BY <2>1, <3>1, <3>2
    <3> QED BY <3>3 DEF b, q, H, Covered, OpenIn, In
  <2> QED BY <2>1, <2>2, <2>3
<1> QED BY <1>3, <1>5, <1>7, <1>8, <1>9 DEF Limits

\* A step that leaves the broker alone keeps the limits.
LEMMA SameLimits ==
  ASSUME UNCHANGED brokerVars, slip' = slip, Limits
  PROVE  Limits'
<1>1. position' = position /\ cash' = cash /\ open' = open
  BY DEF brokerVars
<1>2. Equity' = Equity
  BY <1>1 DEF Equity
<1>3. GrossBounded'
  BY <1>1, <1>2 DEF Limits, GrossBounded
<1>4. ReserveKept'
  BY <1>1, <1>2 DEF Limits, ReserveKept, Reserved
<1>5. OversellBounded'
  BY <1>1 DEF Limits, OversellBounded, OpenIn, Depth
<1> QED BY <1>1, <1>3, <1>4, <1>5 DEF Limits

\* An order that was sent and still fits can be opened.
LEMMA AcceptKeepsLimits ==
  ASSUME TypeOK, StampsInv, TypeOK', IsFiniteSet(open'), Limits, SentInv, Accept
  PROVE  Limits'
<1> DEFINE o == [id |-> Cardinality(stamps), symbol |-> request.symbol,
                 side |-> request.side, left |-> request.quantity]
<1>1. /\ position' = position /\ cash' = cash /\ slip' = slip /\ open' = open \cup {o}
      /\ o.symbol = request.symbol /\ o.side = request.side /\ o.left = request.quantity
      /\ pc = "sent" /\ request \in Requests /\ IsFiniteSet(open)
  BY DEF Accept, StampsInv, historyVars
<1>2. o.side \in {"buy", "sell"} /\ o.symbol \in Symbols /\ o.left \in Int /\ 0 <= o.left
  <2>1. request.quantity \in Sizes /\ request.side \in {"buy", "sell"} /\ request.symbol \in Symbols
    BY <1>1 DEF Requests
  <2>2. Sizes \subseteq Nat
    BY ControlConstants DEF LimitsValid
  <2>3. request.quantity \in Nat
    BY <2>1, <2>2
  <2> HIDE DEF o
  <2> QED BY <1>1, <2>1, <2>3
<1>3. o \in OpenOrder /\ open \subseteq OpenOrder
  BY <1>1 DEF TypeOK
<1>4. /\ o.left <= MaxOrder
      /\ o.side = "buy" => Funded(o.left)
      /\ o.side = "sell" => Reserved(cash - Commitment(open) + slip, Equity) /\ Covered(o.symbol, o.left)
  BY <1>1 DEF SentInv
<1> HIDE DEF o
<1> DEFINE E == Equity
<1> DEFINE D == Equity * GrossPct
<1> DEFINE L == Long(position)
<1> DEFINE C == Commitment(open)
<1> DEFINE B == Commitment(open')
<1> DEFINE K == cash
<1> DEFINE F == Depth
<1> DEFINE q == o.left
<1>5. /\ E \in Int /\ D \in Int /\ L \in Int /\ C \in Int /\ K \in Int /\ F \in Int /\ slip \in Int
      /\ \A s \in Symbols : position[s] \in Int /\ Promised(In(open, s)) \in Int
      /\ \A s \in Symbols : In(open, s) \subseteq OpenOrder /\ IsFiniteSet(In(open, s))
  BY <1>1, Amounts, Percent, DepthGrows DEF TypeOK
<1>6. B \in Int /\ B <= C + (IF o.side = "buy" THEN q ELSE 0)
  <2>1. /\ Remaining(open \cup {o}, "buy") \in Int
        /\ Remaining(open \cup {o}, "buy") <= Remaining(open, "buy") + Part(o, "buy")
    BY <1>1, <1>3, RemainingAdd
  <2> QED BY <1>1, <2>1 DEF Commitment, Part
<1>7. Equity' = E /\ Depth' = F
  BY <1>1 DEF Equity, Depth
<1>8. (L + C - slip) * 100 <= D /\ \A s \in Symbols : position[s] - Promised(In(open, s)) >= -F
  BY DEF Limits, GrossBounded, OversellBounded, OpenIn, In
<1>9. GrossBounded'
  <2>1. o.side = "buy" => (L + C + q - slip) * 100 <= D
    BY <1>4 DEF Funded
  <2>2. (L + B - slip) * 100 <= D
    <3>1. L \in Int /\ C \in Int /\ B \in Int /\ D \in Int /\ q \in Int /\ slip \in Int
      BY <1>2, <1>5, <1>6
    <3>2. \/ (L + C + q - slip) * 100 <= D /\ B <= C + q
          \/ (L + C - slip) * 100 <= D /\ B <= C
      <4> HIDE DEF D, L, C, B, q
      <4>1. CASE o.side = "buy"
        BY <1>6, <2>1, <4>1
      <4>2. CASE o.side # "buy"
        BY <1>6, <1>8, <3>1, <4>2
      <4> QED BY <4>1, <4>2
    <3> HIDE DEF D, L, C, B, q
    <3> QED BY <3>1, <3>2
  <2> QED BY <1>1, <1>7, <2>2 DEF GrossBounded
<1>10. ReserveKept'
  <2>1. Reserved(K - B + slip, E)
    <3>1. CASE o.side = "buy"
      <4> DEFINE a == K - C - q + slip
      <4> DEFINE b == K - B + slip
      <4>1. Reserved(a, E)
        BY <1>4, <3>1 DEF Funded
      <4>2. a \in Int /\ b \in Int /\ a <= b /\ E \in Int
        <5> HIDE DEF E, C, B, K
        <5> QED BY <1>2, <1>5, <1>6, <3>1
      <4> HIDE DEF a, b, E
      <4>3. Reserved(b, E)
        BY <4>1, <4>2, ReservedMore
      <4> QED BY <4>3 DEF b
    <3>2. CASE o.side = "sell"
      <4> DEFINE a == K - C + slip
      <4> DEFINE b == K - B + slip
      <4>1. Reserved(a, E)
        BY <1>4, <3>2
      <4>2. a \in Int /\ b \in Int /\ a <= b /\ E \in Int
        <5> HIDE DEF E, C, B, K
        <5> QED BY <1>2, <1>5, <1>6, <3>2
      <4> HIDE DEF a, b, E
      <4>3. Reserved(b, E)
        BY <4>1, <4>2, ReservedMore
      <4> QED BY <4>3 DEF b
    <3> QED BY <1>2, <3>1, <3>2
  <2> QED BY <1>1, <1>7, <2>1 DEF ReserveKept, Reserved
<1>11. OversellBounded'
  <2>1. ASSUME NEW s \in Symbols PROVE position[s] - Promised(In(open', s)) >= -F
    <3> DEFINE T == In(open, s)
    <3> DEFINE U == In(open', s)
    <3>1. /\ T \subseteq OpenOrder /\ IsFiniteSet(T) /\ Promised(T) \in Int /\ position[s] \in Int
          /\ position[s] - Promised(T) >= -F /\ F \in Int
      BY <1>5, <1>8
    <3>2. CASE s # o.symbol
      <4>1. U = T
        BY <1>1, <3>2 DEF In
      <4> QED BY <3>1, <4>1
    <3>3. CASE s = o.symbol
      <4>1. U = T \cup {o}
        BY <1>1, <3>3 DEF In
      <4>2. o.side = "sell" => position[s] - Promised(T) - q >= -F
        BY <1>4, <3>3 DEF Covered, OpenIn, In
      <4> HIDE DEF T, U, F
      <4>3. /\ Remaining(T \cup {o}, "sell") \in Int
            /\ Remaining(T \cup {o}, "sell") <= Remaining(T, "sell") + Part(o, "sell")
        BY <1>3, <3>1, RemainingAdd
      <4>4. Promised(U) \in Int /\ Promised(U) <= Promised(T) + (IF o.side = "sell" THEN q ELSE 0)
        BY <4>1, <4>3 DEF Promised, Part
      <4>5. position[s] - Promised(U) >= -F
        BY <1>2, <3>1, <4>2, <4>4
      <4> QED BY <4>5 DEF U
    <3> QED BY <3>2, <3>3
  <2> QED BY <1>1, <1>7, <2>1 DEF OversellBounded, OpenIn, In
<1>12. (\A p \in open : p.left <= MaxOrder)'
  BY <1>1, <1>4 DEF Limits
<1> QED BY <1>9, <1>10, <1>11, <1>12 DEF Limits

\* With positions that are not short, exposure and long exposure agree.
LEMMA ExposureIsLong ==
  ASSUME NEW p \in [Symbols -> Int], \A s \in Symbols : p[s] >= 0
  PROVE  Exposure(p) = Long(p)
<1> DEFINE f == [s \in Symbols |-> Magnitude(p[s])]
<1> DEFINE g == [s \in Symbols |-> Max({0, p[s]})]
<1>1. \A s \in Symbols : p[s] \in Int /\ ~(p[s] < 0)
  OBVIOUS
<1>2. \A s \in Symbols : Magnitude(p[s]) = Max({0, p[s]})
  BY <1>1, MaxZero DEF Magnitude
<1>3. f = g
  BY <1>2
<1>4. Exposure(p) = SumFunction(f) /\ Long(p) = SumFunction(g)
  BY Zenon DEF Exposure, Long
<1> HIDE DEF f, g
<1> QED BY <1>3, <1>4

\* An order that is allowed by snapshots that are off by the slip fits.
LEMMA AllowedFits ==
  ASSUME TypeOK, StampsInv, Limits, SnapshotsInv, ListedInv, pc = "decide", Allowed(request)
  PROVE  /\ request.quantity <= MaxOrder
         /\ request.side = "buy" => Funded(request.quantity)
         /\ request.side = "sell" => /\ Reserved(cash - Commitment(open) + slip, Equity)
                                     /\ Covered(request.symbol, request.quantity)
<1> DEFINE q == request.quantity
<1> DEFINE s == request.symbol
<1> DEFINE G == Long(position) + Commitment(open)
<1> DEFINE K == cash - Commitment(open)
<1> DEFINE N == Long(held.shares) + Commitment(listed)
<1> DEFINE A == account.cash - Commitment(listed)
<1> DEFINE D == Equity * GrossPct
<1>1. /\ account.equity = Equity /\ A <= K + slip /\ G <= N + slip
      /\ \A t \in Symbols : held.shares[t] - MaxOrder * Cardinality(listed)
                              <= position[t] - Promised(In(open, t)) + slip
      /\ request \in Requests /\ IsFiniteSet(open) /\ IsFiniteSet(listed)
  BY DEF SnapshotsInv, ListedInv, StampsInv, OpenIn, In
<1>2. q \in Nat \ {0} /\ s \in Symbols /\ request.side \in {"buy", "sell"}
  <2>1. request.quantity \in Sizes /\ request.side \in {"buy", "sell"} /\ request.symbol \in Symbols
    BY <1>1 DEF Requests
  <2>2. Sizes \subseteq Nat \ {0}
    BY ControlConstants DEF LimitsValid
  <2> QED BY <2>1, <2>2
<1>3. /\ Equity \in Int /\ G \in Int /\ K \in Int /\ D \in Int /\ slip \in Int
      /\ \A t \in Symbols : position[t] \in Int /\ Promised(In(open, t)) \in Int
  BY <1>1, Amounts, Percent DEF TypeOK
<1>4. /\ held.shares \in [Symbols -> Int] /\ account.cash \in Int /\ listed \subseteq OpenOrder
  BY DEF TypeOK
<1>5. Long(held.shares) \in Int /\ Commitment(listed) \in Int
  <2> DEFINE h == held.shares
  <2>1. h \in [Symbols -> Int]
    BY <1>4
  <2> HIDE DEF h
  <2>2. Long(h) \in Int
    BY <2>1, SumsAreInts
  <2>3. listed \in SUBSET listed
    OBVIOUS
  <2>4. Commitment(listed) \in Int
    BY <1>1, <1>4, <2>3, RemainingIs DEF Commitment
  <2> QED BY <2>2, <2>4 DEF h
<1>6. N \in Int /\ A \in Int
  BY <1>4, <1>5
<1>7. /\ q <= MaxOrder /\ Cardinality(listed) < MaxOpen /\ \A t \in Symbols : held.shares[t] >= 0
      /\ SideAllows(request)
      /\ ExposureAllows(s, IF request.side = "buy" THEN q ELSE -q)
  BY DEF Allowed, OpenAllows
<1>8. Exposure(held.shares) = Long(held.shares)
  <2> DEFINE h == held.shares
  <2>1. h \in [Symbols -> Int] /\ \A t \in Symbols : h[t] >= 0
    BY <1>4, <1>7
  <2> HIDE DEF h
  <2>2. Exposure(h) = Long(h)
    BY <2>1, ExposureIsLong
  <2> QED BY <2>2 DEF h
<1>9. ASSUME request.side = "buy" PROVE Funded(q)
  <2>1. Reserved(K - q + slip, Equity)
    <3> DEFINE a == A - q
    <3> DEFINE b == K - q + slip
    <3>1. Reserved(a, Equity)
      BY <1>1, <1>7, <1>9 DEF SideAllows, CashAllows
    <3>2. a \in Int /\ b \in Int /\ a <= b
      <4> HIDE DEF A, K
      <4> QED BY <1>1, <1>2, <1>3, <1>6
    <3> HIDE DEF a, b
    <3>3. Reserved(b, Equity)
      BY <1>3, <3>1, <3>2, ReservedMore
    <3> QED BY <3>3 DEF b
  <2> DEFINE n == N + q
  <2>2. Max({0, n}) * 100 <= D
    BY <1>1, <1>7, <1>8, <1>9 DEF ExposureAllows
  <2>3. n \in Int /\ D \in Int
    BY <1>2, <1>3, <1>6
  <2>4. n * 100 <= D
    <3> HIDE DEF n, D
    <3>1. Max({0, n}) = IF n < 0 THEN 0 ELSE n
      BY <2>3, MaxZero
    <3> QED BY <2>2, <2>3, <3>1
  <2>5. (G + q - slip) * 100 <= D
    <3> HIDE DEF G, N, D
    <3> QED BY <1>1, <1>2, <1>3, <1>6, <2>4
  <2> QED BY <2>1, <2>5 DEF Funded
<1>10. ASSUME request.side = "sell"
       PROVE  Reserved(cash - Commitment(open) + slip, Equity) /\ Covered(s, q)
  <2>1. q <= held.shares[s]
    BY <1>7, <1>10 DEF SideAllows
  <2>2. held.shares # NoShares
    BY <1>2, <2>1 DEF NoShares
  <2>3. Reserved(cash - Commitment(open) + slip, Equity)
    BY <2>2 DEF SnapshotsInv
  <2> DEFINE k == Cardinality(listed)
  <2> DEFINE b == MaxOrder * k
  <2> DEFINE f == (MaxOpen - 1) * MaxOrder
  <2> DEFINE c == position[s] - Promised(In(open, s))
  <2> DEFINE h == held.shares[s]
  <2>4. k \in Nat /\ k < MaxOpen
    BY <1>1, <1>7, FS_CardinalityType
  <2>5. b \in Int /\ f \in Int /\ b <= f
    <3> HIDE DEF k
    <3> QED BY <2>4, Floor
  <2>6. h - b <= c + slip /\ c \in Int /\ h \in Int /\ q <= h
    BY <1>1, <1>2, <1>3, <1>4, <2>1
  <2>7. Depth = f + slip
    BY DEF Depth
  <2> HIDE DEF b, f, c, h, k
  <2>8. c - q >= -Depth
    BY <1>2, <1>3, <2>5, <2>6, <2>7
  <2> QED BY <2>3, <2>8 DEF c, Covered, OpenIn, In
<1> QED BY <1>7, <1>9, <1>10

\* An account that is all cash is within every limit.
LEMMA LimitsInit == Init => LimitsInv
<1> SUFFICES ASSUME Init PROVE LimitsInv
  OBVIOUS
<1>1. position = NoShares /\ open = {} /\ pc = "idle" /\ cash \in Nat /\ moved = 0 /\ slip = 0
  BY ControlConstants DEF Init, LimitsValid
<1>2. IsFiniteSet(Symbols) /\ IsFiniteSet({}) /\ Cardinality({}) = 0 /\ {} \subseteq OpenOrder
  BY ControlConstants, FS_EmptySet DEF LimitsValid
<1>3. \A side : Remaining({}, side) = 0
  <2> SUFFICES ASSUME NEW side PROVE Remaining({}, side) = 0
    OBVIOUS
  <2>1. \A o \in {} : o.left <= 0
    OBVIOUS
  <2>2. /\ Remaining({}, side) \in Int /\ 0 <= Remaining({}, side)
        /\ Remaining({}, side) <= 0 * Cardinality({})
    BY <1>2, <2>1, RemainingBounded
  <2> QED BY <1>2, <2>2
<1>4. SumFunction(position) = 0 /\ Long(position) = 0
  <2> DEFINE f == [s \in Symbols |-> Max({0, NoShares[s]})]
  <2>1. \A s \in Symbols : NoShares[s] \in Int /\ 0 <= NoShares[s] /\ NoShares[s] <= 0
    BY DEF NoShares
  <2>2. DOMAIN NoShares = Symbols /\ DOMAIN f = Symbols
    BY DEF NoShares
  <2>3. \A s \in Symbols : f[s] \in Int /\ 0 <= f[s] /\ f[s] <= 0
    <3>1. \A s \in Symbols : f[s] = Max({0, 0})
      BY DEF NoShares
    <3>2. Max({0, 0}) = 0
      BY MaxZero
    <3> HIDE DEF f
    <3> QED BY <3>1, <3>2
  <2>4. Long(NoShares) = SumFunction(f)
    BY Zenon DEF Long
  <2> HIDE DEF f
  <2>5. /\ 0 <= SumFunctionOnSet(NoShares, Symbols)
        /\ SumFunctionOnSet(NoShares, Symbols) <= 0 * Cardinality(Symbols)
        /\ SumFunctionOnSet(NoShares, Symbols) \in Int
    BY <1>2, <2>1, SumBounded, SumRemove
  <2>6. /\ 0 <= SumFunctionOnSet(f, Symbols)
        /\ SumFunctionOnSet(f, Symbols) <= 0 * Cardinality(Symbols)
        /\ SumFunctionOnSet(f, Symbols) \in Int
    BY <1>2, <2>3, SumBounded, SumRemove
  <2>7. Cardinality(Symbols) \in Nat
    BY <1>2, FS_CardinalityType
  <2>8. SumFunctionOnSet(f, Symbols) = 0 /\ SumFunctionOnSet(NoShares, Symbols) = 0
    BY <2>5, <2>6, <2>7
  <2> QED BY <1>1, <2>2, <2>4, <2>8 DEF SumFunction
<1>5. GrossBounded
  <2>1. Equity = cash /\ Commitment(open) = 0
    BY <1>1, <1>3, <1>4 DEF Equity, Commitment
  <2>2. GrossPct \in Nat
    BY ControlConstants DEF LimitsValid
  <2>3. 0 <= cash * GrossPct
    BY <1>1, <2>2
  <2>4. (Long(position) + Commitment(open) - slip) * 100 = 0
    BY <1>1, <1>4, <2>1
  <2> QED BY <2>1, <2>3, <2>4 DEF GrossBounded
<1>6. ReserveKept
  BY <1>1 DEF ReserveKept
<1>7. OversellBounded
  <2> SUFFICES ASSUME NEW s \in Symbols
               PROVE  position[s] - Promised(OpenIn(s)) >= -Depth
    BY DEF OversellBounded
  <2>1. OpenIn(s) = {} /\ position[s] = 0
    BY <1>1 DEF OpenIn, NoShares
  <2>2. Promised(OpenIn(s)) = 0
    BY <1>3, <2>1 DEF Promised
  <2>3. Depth \in Nat
    <3> DEFINE f == (MaxOpen - 1) * MaxOrder
    <3>1. f \in Nat /\ Depth = f + slip
      BY Floor DEF Depth
    <3> HIDE DEF f
    <3> QED BY <1>1, <3>1
  <2> QED BY <2>1, <2>2, <2>3
<1> QED BY <1>1, <1>5, <1>6, <1>7 DEF LimitsInv, SnapshotsInv, ListedInv, SentInv

\* Shares that change hands keep the snapshots off by no more than their number.
LEMMA MovedSnapshots ==
  ASSUME TypeOK, IsFiniteSet(open), TypeOK', IsFiniteSet(open'), NEW k \in {0, 1}, Eases, Moves(k),
         SnapshotsInv, ListedInv, UNCHANGED <<pc, readVars>>,
         pc \in {"positions", "orders", "decide"} => moved' = moved + k,
         moved' <= slip'
  PROVE  SnapshotsInv' /\ ListedInv'
<1>1. /\ Equity \in Int /\ Long(position) \in Int /\ cash \in Int /\ Commitment(open) \in Int
      /\ \A s \in Symbols : position[s] \in Int /\ Promised(In(open, s)) \in Int
  BY Amounts
<1>2. /\ Long(position') \in Int /\ cash' \in Int /\ Commitment(open') \in Int
      /\ \A s \in Symbols : position'[s] \in Int /\ Promised(In(open', s)) \in Int
  <2>1. (TypeOK /\ IsFiniteSet(open) =>
           /\ Long(position) \in Int /\ cash \in Int /\ Commitment(open) \in Int
           /\ \A s \in Symbols : position[s] \in Int /\ Promised(In(open, s)) \in Int)'
    BY Amounts, PTL
  <2> QED BY <2>1
<1>3. /\ slip \in Int /\ slip' \in Int /\ moved \in Int /\ moved' \in Int
      /\ held.shares \in [Symbols -> Int] /\ account.cash \in Int /\ listed \subseteq OpenOrder
  BY DEF TypeOK
<1>4. /\ pc' = pc /\ account' = account /\ held' = held /\ listed' = listed
  BY DEF readVars
<1>5. /\ Equity' = Equity /\ slip <= slip'
      /\ Long(position') + Commitment(open') <= Long(position) + Commitment(open)
      /\ cash - Commitment(open) <= cash' - Commitment(open')
      /\ \A s \in Symbols : position[s] - Promised(In(open, s)) <= position'[s] - Promised(In(open', s))
      /\ cash - k <= cash' /\ Long(position') <= Long(position) + k
      /\ \A s \in Symbols : position[s] - k <= position'[s]
  BY DEF Eases, Moves
<1>6. Long(held.shares) \in Int
  <2> DEFINE h == held.shares
  <2>1. h \in [Symbols -> Int]
    BY <1>3
  <2> HIDE DEF h
  <2>2. Long(h) \in Int
    BY <2>1, SumsAreInts
  <2> QED BY <2>2 DEF h
<1> DEFINE K == cash - Commitment(open)
<1> DEFINE J == cash' - Commitment(open')
<1> DEFINE G == Long(position) + Commitment(open)
<1> DEFINE M == Long(position') + Commitment(open')
<1> DEFINE H == Long(held.shares)
<1>7. /\ K \in Int /\ J \in Int /\ K <= J /\ G \in Int /\ M \in Int /\ M <= G /\ H \in Int
  BY <1>1, <1>2, <1>5, <1>6
<1>8. SnapshotsInv'
  <2>1. ASSUME pc \in {"positions", "orders", "decide"}
        PROVE  account.equity = Equity' /\ account.cash <= cash' + moved'
    <3>1. account.equity = Equity /\ account.cash <= cash + moved /\ moved' = moved + k
      BY <2>1 DEF SnapshotsInv
    <3> QED BY <1>1, <1>2, <1>3, <1>5, <3>1
  <2>2. ASSUME pc \in {"orders", "decide"}
        PROVE  /\ Long(position') <= H + moved'
               /\ \A s \in Symbols : held.shares[s] <= position'[s] + moved'
               /\ held.shares # NoShares => Reserved(J + slip', Equity')
    <3>1. /\ Long(position) <= H + moved /\ moved' = moved + k
          /\ \A s \in Symbols : held.shares[s] <= position[s] + moved
          /\ held.shares # NoShares => Reserved(K + slip, Equity)
      BY <2>2 DEF SnapshotsInv
    <3>2. Long(position') <= H + moved'
      <4> HIDE DEF H
      <4> QED BY <1>1, <1>2, <1>3, <1>5, <1>7, <3>1
    <3>3. \A s \in Symbols : held.shares[s] <= position'[s] + moved'
      <4> SUFFICES ASSUME NEW s \in Symbols PROVE held.shares[s] <= position'[s] + moved'
        OBVIOUS
      <4>1. /\ held.shares[s] \in Int /\ position[s] \in Int /\ position'[s] \in Int
            /\ held.shares[s] <= position[s] + moved /\ position[s] - k <= position'[s]
        BY <1>1, <1>2, <1>3, <1>5, <3>1
      <4> QED BY <1>3, <3>1, <4>1
    <3>4. ASSUME held.shares # NoShares PROVE Reserved(J + slip', Equity')
      <4> DEFINE a == K + slip
      <4> DEFINE b == J + slip'
      <4>1. a \in Int /\ b \in Int /\ a <= b
        <5> DEFINE u == slip
        <5> DEFINE v == slip'
        <5>1. u \in Int /\ v \in Int /\ u <= v /\ K \in Int /\ J \in Int /\ K <= J /\ a = K + u /\ b = J + v
          BY <1>3, <1>5, <1>7
        <5> HIDE DEF K, J, G, M, H, u, v, a, b
        <5> QED BY <5>1
      <4>2. Reserved(a, Equity)
        BY <3>1, <3>4
      <4> HIDE DEF a, b
      <4>3. Reserved(b, Equity)
        BY <1>1, <4>1, <4>2, ReservedMore
      <4> QED BY <1>5, <4>3 DEF b
    <3> QED BY <3>2, <3>3, <3>4
  <2> QED BY <1>4, <2>1, <2>2 DEF SnapshotsInv, Reserved
<1>9. ListedInv'
  <2> SUFFICES ASSUME pc = "decide"
               PROVE  /\ IsFiniteSet(listed)
                      /\ account.cash - Commitment(listed) <= J + slip'
                      /\ M <= H + Commitment(listed) + slip'
                      /\ \A s \in Symbols :
                           held.shares[s] - MaxOrder * Cardinality(listed)
                             <= position'[s] - Promised(In(open', s)) + slip'
    BY <1>4 DEF ListedInv, OpenIn, In
  <2>1. /\ IsFiniteSet(listed)
        /\ account.cash - Commitment(listed) <= K + slip
        /\ G <= H + Commitment(listed) + slip
        /\ \A s \in Symbols :
             held.shares[s] - MaxOrder * Cardinality(listed)
               <= position[s] - Promised(In(open, s)) + slip
    BY DEF ListedInv, OpenIn, In
  <2>2. Commitment(listed) \in Int
    <3>1. listed \in SUBSET listed
      OBVIOUS
    <3> QED BY <1>3, <2>1, <3>1, RemainingIs DEF Commitment
  <2>3. account.cash - Commitment(listed) <= J + slip' /\ M <= H + Commitment(listed) + slip'
    <3> HIDE DEF K, J, G, M, H
    <3> QED BY <1>3, <1>5, <1>7, <2>1, <2>2
  <2>4. ASSUME NEW s \in Symbols
        PROVE  held.shares[s] - MaxOrder * Cardinality(listed)
                 <= position'[s] - Promised(In(open', s)) + slip'
    <3> DEFINE a == held.shares[s] - MaxOrder * Cardinality(listed)
    <3> DEFINE b == position[s] - Promised(In(open, s))
    <3> DEFINE c == position'[s] - Promised(In(open', s))
    <3>1. MaxOrder \in Nat /\ Cardinality(listed) \in Nat
      BY <2>1, ControlConstants, FS_CardinalityType DEF LimitsValid
    <3>2. MaxOrder * Cardinality(listed) \in Int
      BY <3>1
    <3>3. a \in Int /\ b \in Int /\ c \in Int /\ a <= b + slip /\ b <= c
      BY <1>1, <1>2, <1>3, <1>5, <2>1, <3>2
    <3> DEFINE u == slip
    <3> DEFINE v == slip'
    <3>4. u \in Int /\ v \in Int /\ u <= v /\ a <= b + u
      BY <1>3, <1>5, <3>3
    <3> HIDE DEF K, J, G, M, H, a, b, c, u, v
    <3>5. a <= c + v
      BY <3>3, <3>4
    <3> QED BY <3>5 DEF a, c, v
  <2> QED BY <2>1, <2>3, <2>4
<1> QED BY <1>8, <1>9

\* The open orders promise no more of a symbol than their number allows.
LEMMA PromisedBounded ==
  ASSUME TypeOK, IsFiniteSet(open), Limits, NEW s \in Symbols
  PROVE  /\ MaxOrder * Cardinality(open) \in Int /\ Promised(In(open, s)) \in Int
         /\ Promised(In(open, s)) <= MaxOrder * Cardinality(open)
<1> DEFINE T == In(open, s)
<1> DEFINE k == Cardinality(T)
<1> DEFINE m == Cardinality(open)
<1>1. T \subseteq OpenOrder /\ T \subseteq open /\ \A o \in T : o.left <= MaxOrder
  BY DEF In, Limits, TypeOK
<1> HIDE DEF T
<1>2. IsFiniteSet(T) /\ k \in Nat /\ k <= m /\ m \in Nat /\ MaxOrder \in Nat
  BY <1>1, FS_Subset, FS_CardinalityType, ControlConstants DEF LimitsValid
<1>3. Promised(T) <= MaxOrder * k /\ Promised(T) \in Int
  BY <1>1, <1>2, RemainingBounded DEF Promised
<1> HIDE DEF k, m
<1>4. MaxOrder * k \in Int /\ MaxOrder * m \in Int /\ MaxOrder * k <= MaxOrder * m
  BY <1>2
<1>5. Promised(T) <= MaxOrder * m
  BY <1>3, <1>4
<1> QED BY <1>3, <1>4, <1>5 DEF T, m

\* Every step keeps the limits.
LEMMA LimitsStep == RateInv /\ RateInv' /\ LimitsInv /\ [Next]_vars => LimitsInv'
<1> SUFFICES ASSUME RateInv, RateInv', LimitsInv, [Next]_vars PROVE LimitsInv'
  OBVIOUS
<1>0. /\ TypeOK /\ StampsInv /\ TypeOK' /\ IsFiniteSet(open) /\ IsFiniteSet(open')
      /\ Limits /\ SnapshotsInv /\ ListedInv /\ SentInv
  BY DEF RateInv, StampsInv, LimitsInv, Limits
<1>a. slip \in Nat /\ moved \in Nat /\ moved <= slip
  BY <1>0 DEF TypeOK, SnapshotsInv
<1> SUFFICES Limits' /\ SnapshotsInv' /\ ListedInv' /\ SentInv'
  BY DEF LimitsInv, Limits
<1>1. ASSUME UNCHANGED brokerVars, slip' = slip
      PROVE  /\ Limits' /\ Equity' = Equity /\ Depth' = Depth
             /\ position' = position /\ cash' = cash /\ open' = open
             /\ \A s \in Symbols : OpenIn(s)' = OpenIn(s)
  BY <1>0, <1>1, SameLimits DEF brokerVars, Equity, Depth, OpenIn
<1>2. ASSUME UNCHANGED <<brokerVars, pc, request, readVars, historyVars>>
      PROVE  Limits' /\ SnapshotsInv' /\ ListedInv' /\ SentInv'
  <2>1. /\ UNCHANGED brokerVars /\ slip' = slip /\ moved' = moved /\ pc' = pc /\ request' = request
        /\ account' = account /\ held' = held /\ listed' = listed
    BY <1>2 DEF readVars, historyVars
  <2>2. SnapshotsInv' /\ ListedInv'
    BY <1>0, <1>1, <2>1 DEF SnapshotsInv, ListedInv, Reserved
  <2>3. SentInv'
    BY <1>0, <1>1, <2>1 DEF SentInv, Funded, Covered, Reserved, OpenIn
  <2> QED BY <1>1, <2>1, <2>2, <2>3
<1>3. ASSUME NEW order \in Requests, Assess(order)
      PROVE  Limits' /\ SnapshotsInv' /\ ListedInv' /\ SentInv'
  BY <1>a, <1>1, <1>3 DEF Assess, SnapshotsInv, ListedInv, SentInv, historyVars
<1>4. CASE ReadAccount
  <2>1. /\ UNCHANGED brokerVars /\ slip' = slip /\ moved' = moved /\ pc' = "positions"
        /\ account'.cash = cash /\ account'.equity = Equity /\ cash \in Int
    BY <1>0, <1>4 DEF ReadAccount, historyVars, TypeOK
  <2> QED BY <1>a, <1>1, <2>1 DEF SnapshotsInv, ListedInv, SentInv
<1>5. CASE ReadPositions
  <2>1. /\ UNCHANGED brokerVars /\ slip' = slip /\ moved' = moved /\ pc = "positions" /\ pc' = "orders"
        /\ held'.shares = position /\ account' = account
    BY <1>5 DEF ReadPositions, historyVars
  <2>2. Long(position) \in Int /\ \A s \in Symbols : position[s] \in Int
    BY <1>0, Amounts
  <2>3. account.equity = Equity /\ account.cash <= cash + moved
    BY <1>0, <2>1 DEF SnapshotsInv
  <2>4. Long(position) <= Long(position) + moved /\ \A s \in Symbols : position[s] <= position[s] + moved
    BY <1>a, <2>2
  <2>5. position # NoShares => Reserved(cash - Commitment(open) + slip, Equity)
    BY <1>0 DEF Limits, ReserveKept
  <2> QED BY <1>a, <1>1, <2>1, <2>3, <2>4, <2>5 DEF SnapshotsInv, ListedInv, SentInv, Reserved
<1>6. CASE ReadOpenOrders
  <2>1. /\ UNCHANGED brokerVars /\ slip' = slip /\ moved' = moved /\ pc = "orders" /\ pc' = "decide"
        /\ listed' = open /\ held' = held /\ account' = account
    BY <1>6 DEF ReadOpenOrders, historyVars
  <2>2. /\ account.equity = Equity /\ account.cash <= cash + moved
        /\ Long(position) <= Long(held.shares) + moved
        /\ \A s \in Symbols : held.shares[s] <= position[s] + moved
        /\ held.shares # NoShares => Reserved(cash - Commitment(open) + slip, Equity)
    BY <1>0, <2>1 DEF SnapshotsInv
  <2>3. /\ Long(position) \in Int /\ cash \in Int /\ Commitment(open) \in Int
        /\ account.cash \in Int /\ held.shares \in [Symbols -> Int]
        /\ \A s \in Symbols : position[s] \in Int
    BY <1>0, Amounts DEF TypeOK
  <2>4. Long(held.shares) \in Int
    <3> DEFINE h == held.shares
    <3>1. h \in [Symbols -> Int]
      BY <2>3
    <3> HIDE DEF h
    <3>2. Long(h) \in Int
      BY <3>1, SumsAreInts
    <3> QED BY <3>2 DEF h
  <2>5. /\ account.cash - Commitment(open) <= cash - Commitment(open) + slip
        /\ Long(position) + Commitment(open) <= Long(held.shares) + Commitment(open) + slip
    BY <1>a, <2>2, <2>3, <2>4
  <2>6. ASSUME NEW s \in Symbols
        PROVE  held.shares[s] - MaxOrder * Cardinality(open)
                 <= position[s] - Promised(OpenIn(s)) + slip
    <3> DEFINE a == MaxOrder * Cardinality(open)
    <3> DEFINE b == Promised(In(open, s))
    <3>1. a \in Int /\ b \in Int /\ b <= a
      BY <1>0, PromisedBounded
    <3>2. held.shares[s] \in Int /\ position[s] \in Int /\ held.shares[s] <= position[s] + moved
      BY <2>2, <2>3
    <3> HIDE DEF a, b
    <3>3. held.shares[s] - a <= position[s] - b + slip
      BY <1>a, <3>1, <3>2
    <3> QED BY <3>3 DEF a, b, In, OpenIn
  <2>7. SnapshotsInv'
    BY <1>0, <1>1, <2>1, <2>2 DEF SnapshotsInv, Reserved
  <2>8. ListedInv'
    BY <1>0, <1>1, <2>1, <2>5, <2>6 DEF ListedInv
  <2> QED BY <1>1, <2>1, <2>7, <2>8 DEF SentInv
<1>7. ASSUME Forget, pc' \in {"sent", "idle"} PROVE SnapshotsInv' /\ ListedInv' /\ slip' = slip
  BY <1>a, <1>7 DEF Forget, SnapshotsInv, ListedInv
<1>8. CASE Decide
  <2>1. /\ UNCHANGED brokerVars /\ request' = request /\ pc = "decide" /\ pc' \in {"sent", "idle"}
        /\ Forget /\ (pc' = "sent" => Allowed(request))
    BY <1>8 DEF Decide
  <2>2. SentInv'
    <3> SUFFICES ASSUME pc' = "sent" PROVE SentInv'
      BY DEF SentInv
    <3>1. /\ request.quantity <= MaxOrder
          /\ request.side = "buy" => Funded(request.quantity)
          /\ request.side = "sell" => /\ Reserved(cash - Commitment(open) + slip, Equity)
                                      /\ Covered(request.symbol, request.quantity)
      BY <1>0, <2>1, AllowedFits
    <3> QED BY <1>1, <1>7, <2>1, <3>1 DEF SentInv, Funded, Covered, Reserved, OpenIn
  <2> QED BY <1>1, <1>7, <2>1, <2>2
<1>9. CASE Deny
  BY <1>1, <1>7, <1>9 DEF Deny, SentInv
<1>10. CASE Accept
  <2>1. Limits'
    BY <1>0, <1>10, AcceptKeepsLimits
  <2> QED BY <1>a, <1>10, <2>1 DEF Accept, SnapshotsInv, ListedInv, SentInv, historyVars
<1>11. CASE Refuse
  BY <1>a, <1>1, <1>11 DEF Refuse, SnapshotsInv, ListedInv, SentInv, historyVars
<1>12. ASSUME NEW o \in open, Fill(o) \/ Expire(o)
       PROVE  Limits' /\ SnapshotsInv' /\ ListedInv' /\ SentInv'
  <2>1. pc' = pc /\ request' = request /\ UNCHANGED readVars
    BY <1>12 DEF Fill, Expire
  <2>2. pc = "sent" => request \in Requests
    BY <1>0 DEF StampsInv
  <2>3. open # {}
    OBVIOUS
  <2>4. Eases
    BY <1>0, <1>12, FillEases, ExpireEases
  <2>5. Limits' /\ SentInv'
    BY <1>0, <2>1, <2>2, <2>3, <2>4, EasedLimits
  <2>6. PICK k \in {0, 1} : /\ Moves(k) /\ moved' <= slip'
                            /\ pc \in {"positions", "orders", "decide"} => moved' = moved + k
    <3>1. CASE Fill(o)
      <4>1. Moves(1)
        BY <1>0, <3>1, FillEases
      <4>2. moved' <= slip' /\ (pc \in {"positions", "orders", "decide"} => moved' = moved + 1)
        BY <1>a, <3>1 DEF Fill
      <4> QED BY <4>1, <4>2
    <3>2. CASE Expire(o)
      <4>1. Moves(0)
        BY <1>0, <3>2, ExpireEases
      <4>2. moved' = moved /\ slip' = slip
        BY <3>2 DEF Expire, historyVars
      <4> QED BY <1>a, <4>1, <4>2
    <3> QED BY <1>12, <3>1, <3>2
  <2>7. SnapshotsInv' /\ ListedInv'
    BY <1>0, <2>1, <2>4, <2>6, MovedSnapshots
  <2> QED BY <2>5, <2>7
<1>13. CASE Tick
  BY <1>2, <1>13 DEF Tick
<1>14. CASE UNCHANGED vars
  BY <1>2, <1>14 DEF vars
<1> QED BY <1>3, <1>4, <1>5, <1>6, <1>8, <1>9, <1>10, <1>11, <1>12, <1>13, <1>14 DEF Next

\* The limits hold always.
LEMMA LimitsInvariant == Spec => []LimitsInv
<1>1. RateInv /\ RateInv' /\ LimitsInv /\ [Next]_vars => LimitsInv'
  BY LimitsStep
<1> QED BY <1>1, LimitsInit, RateInvariant, PTL DEF Spec

\* max_gross_exposure_fraction: long positions together with what the open
\* buys may still add exceed the gross limit by no more than was filled
\* between the reads of one assessment, however approved orders fill and expire.
THEOREM GrossLimit == Spec => []GrossBounded
<1>1. LimitsInv => GrossBounded
  BY DEF LimitsInv
<1> QED BY <1>1, LimitsInvariant, PTL

\* minimum_cash_reserve and its fraction: an account that bought something
\* keeps the reserve after every open buy has filled, up to what was filled
\* between the reads of one assessment.
THEOREM ReserveLimit == Spec => []ReserveKept
<1>1. LimitsInv => ReserveKept
  BY DEF LimitsInv
<1> QED BY <1>1, LimitsInvariant, PTL

\* Sells are checked against the position alone, and yet max_open_owned_orders
\* and max_order_notional bound how far a symbol can be sold short, up to what
\* was filled between the reads of one assessment.
THEOREM OversellLimit == Spec => []OversellBounded
<1>1. LimitsInv => OversellBounded
  BY DEF LimitsInv
<1> QED BY <1>1, LimitsInvariant, PTL


-----------------------------------------------------------------------------
(* How large the allowance can get *)

\* What a book of small orders may fill, on both sides together.
LEMMA BookBounded ==
  ASSUME NEW orders, orders \subseteq OpenOrder, IsFiniteSet(orders),
         NEW b \in Nat, \A o \in orders : o.left <= b
  PROVE  /\ Commitment(orders) \in Int /\ Promised(orders) \in Int
         /\ 0 <= Commitment(orders) /\ 0 <= Promised(orders)
         /\ Commitment(orders) + Promised(orders) <= b * Cardinality(orders)
<1> DEFINE Bad == {t \in SUBSET orders :
                     ~ (Commitment(t) + Promised(t) <= b * Cardinality(t))}
<1>1. ASSUME NEW t \in SUBSET orders
      PROVE  /\ Commitment(t) \in Int /\ Promised(t) \in Int
             /\ 0 <= Commitment(t) /\ 0 <= Promised(t) /\ IsFiniteSet(t)
             /\ Commitment(t) <= b * Cardinality(t) /\ Promised(t) <= b * Cardinality(t)
             /\ Cardinality(t) \in Nat
  BY FS_Subset, FS_CardinalityType, RemainingBounded DEF Commitment, Promised
<1>2. ASSUME Bad # {} PROVE FALSE
  <2>1. PICK t \in Bad : \A v \in Bad : v \subseteq t => v = t
    <3>1. Bad \in SUBSET (SUBSET orders)
      OBVIOUS
    <3> HIDE DEF Bad
    <3> QED BY <1>2, <3>1, MinimalSubset
  <2>2. t \in SUBSET orders /\ ~ (Commitment(t) + Promised(t) <= b * Cardinality(t))
    OBVIOUS
  <2>3. t # {}
    <3> SUFFICES ASSUME t = {} PROVE FALSE
      OBVIOUS
    <3>1. Cardinality(t) = 0
      BY FS_EmptySet
    <3>2. b * Cardinality(t) = 0
      BY <3>1
    <3> QED BY <1>1, <2>2, <3>2
  <2>4. PICK o \in t : TRUE
    BY <2>3
  <2> DEFINE u == t \ {o}
  <2>5. u \in SUBSET orders /\ u # t /\ u \subseteq t
    BY <2>2
  <2>6. Commitment(u) + Promised(u) <= b * Cardinality(u)
    <3>1. u \notin Bad
      <4> HIDE DEF Bad, u
      <4> QED BY <2>1, <2>5
    <3> QED BY <2>5, <3>1
  <2>7. Cardinality(t) = Cardinality(u) + 1
    <3>1. IsFiniteSet(t)
      BY <1>1, <2>2
    <3>2. Cardinality(u) = Cardinality(t) - 1 /\ Cardinality(t) \in Nat
      BY <2>4, <3>1, FS_RemoveElement, FS_CardinalityType
    <3> HIDE DEF u
    <3> QED BY <3>2
  <2>8. /\ Commitment(t) = Commitment(u) + Part(o, "buy")
        /\ Promised(t) = Promised(u) + Part(o, "sell")
        /\ Part(o, "buy") \in Nat /\ Part(o, "sell") \in Nat
    <3>1. t \subseteq OpenOrder /\ IsFiniteSet(t)
      BY <1>1, <2>2
    <3> QED BY <2>4, <3>1, RemainingRemove DEF Commitment, Promised
  <2>9. Part(o, "buy") + Part(o, "sell") <= b
    <3>1. o.left <= b /\ o.left \in Nat /\ o.side \in {"buy", "sell"}
      BY <2>2, <2>4 DEF OpenOrder
    <3> QED BY <3>1 DEF Part
  <2> DEFINE n == Cardinality(u)
  <2>10. n \in Nat /\ b * n \in Nat /\ Commitment(u) \in Int /\ Promised(u) \in Int
    BY <1>1, <2>5
  <2>11. b * (n + 1) = b * n + b
    <3> HIDE DEF n
    <3> QED BY <2>10
  <2>12. Commitment(t) + Promised(t) <= b * n + b
    <3> HIDE DEF n, u
    <3> QED BY <2>6, <2>8, <2>9, <2>10 DEF n
  <2>13. b * Cardinality(t) = b * n + b
    BY <2>7, <2>11
  <2> QED BY <2>2, <2>12, <2>13
<1>3. Commitment(orders) + Promised(orders) <= b * Cardinality(orders)
  BY <1>2
<1>4. orders \in SUBSET orders
  OBVIOUS
<1> QED BY <1>1, <1>3, <1>4

\* A book that fills or expires gets no longer, and what was filled is gone
\* from it.
LEMMA BookShrinks ==
  ASSUME TypeOK, TypeOK', IsFiniteSet(open), NEW o \in open, Fill(o) \/ Expire(o)
  PROVE  /\ Cardinality(open') <= Cardinality(open)
         /\ Cardinality(open') \in Nat /\ Cardinality(open) \in Nat
         /\ Commitment(open') \in Int /\ Promised(open') \in Int
         /\ Commitment(open) \in Int /\ Promised(open) \in Int
         /\ Fill(o) => Commitment(open') + Promised(open') <= Commitment(open) + Promised(open) - 1
         /\ Expire(o) => Commitment(open') + Promised(open') <= Commitment(open) + Promised(open)
<1> DEFINE T == open \ {o}
<1>1. open \subseteq OpenOrder /\ o \in OpenOrder /\ o.side \in {"buy", "sell"}
  BY DEF TypeOK, OpenOrder
<1>2. /\ IsFiniteSet(T) /\ Cardinality(T) = Cardinality(open) - 1
      /\ Cardinality(open) \in Nat /\ Cardinality(T) \in Nat
  <2>1. IsFiniteSet(T)
    BY FS_Subset
  <2>2. Cardinality(T) = Cardinality(open) - 1
    BY FS_RemoveElement
  <2> HIDE DEF T
  <2> QED BY <2>1, <2>2, FS_CardinalityType
<1>3. ASSUME NEW side PROVE /\ Remaining(open, side) \in Int /\ Remaining(T, side) \in Int
                            /\ Remaining(T, side) <= Remaining(open, side)
  <2>1. /\ Remaining(open, side) = Remaining(T, side) + Part(o, side)
        /\ Remaining(open, side) \in Int /\ Remaining(T, side) \in Int /\ Part(o, side) \in Nat
    BY <1>1, RemainingRemove
  <2> HIDE DEF T
  <2> QED BY <2>1
<1> HIDE DEF T
<1>4. CASE Fill(o)
  <2>1. open' = (open \ {o}) \cup (IF o.left = 1 THEN {} ELSE {[o EXCEPT !.left = @ - 1]})
    BY <1>4 DEF Fill
  <2>2. Cardinality(open') \in Nat /\ Cardinality(open') <= Cardinality(open)
    <3>1. open' \subseteq T \cup {[o EXCEPT !.left = @ - 1]}
      BY <2>1 DEF T
    <3>2. Cardinality(open') \in Nat /\ Cardinality(open') <= Cardinality(T) + 1
      BY <1>2, <3>1, OneMore
    <3> QED BY <1>2, <3>2
  <2>3. ASSUME NEW side
        PROVE  /\ Remaining(open, side) \in Int /\ Remaining(open', side) \in Int
               /\ Remaining(open', side) <= Remaining(open, side) - (IF o.side = side THEN 1 ELSE 0)
    <3> DEFINE rest == open'
    <3>1. rest = (open \ {o}) \cup (IF o.left = 1 THEN {} ELSE {[o EXCEPT !.left = @ - 1]})
      BY <2>1
    <3> HIDE DEF rest
    <3>2. /\ Remaining(open, side) \in Int /\ Remaining(rest, side) \in Int
          /\ Remaining(rest, side) <= Remaining(open, side) - (IF o.side = side THEN 1 ELSE 0)
      BY <1>1, <3>1, FilledRemaining
    <3> QED BY <3>2 DEF rest
  <2>4. /\ Commitment(open') \in Int /\ Promised(open') \in Int
        /\ Commitment(open) \in Int /\ Promised(open) \in Int
        /\ Commitment(open') <= Commitment(open) - (IF o.side = "buy" THEN 1 ELSE 0)
        /\ Promised(open') <= Promised(open) - (IF o.side = "sell" THEN 1 ELSE 0)
    BY <2>3 DEF Commitment, Promised
  <2>5. Commitment(open') + Promised(open') <= Commitment(open) + Promised(open) - 1
    BY <1>1, <2>4
  <2>6. Commitment(open') + Promised(open') <= Commitment(open) + Promised(open)
    BY <2>4, <2>5
  <2> QED BY <1>2, <2>2, <2>4, <2>5, <2>6
<1>5. CASE Expire(o)
  <2>1. open' = T
    BY <1>5 DEF Expire, T
  <2>2. /\ Commitment(open') \in Int /\ Promised(open') \in Int
        /\ Commitment(open) \in Int /\ Promised(open) \in Int
        /\ Commitment(open') <= Commitment(open) /\ Promised(open') <= Promised(open)
    BY <1>3, <2>1 DEF Commitment, Promised
  <2>3. Cardinality(open') = Cardinality(open) - 1
    BY <1>2, <2>1
  <2>4. ~ Fill(o) \/ Commitment(open') + Promised(open') <= Commitment(open) + Promised(open) - 1
    BY <1>4
  <2> QED BY <1>2, <2>1, <2>2, <2>3, <2>4
<1> QED BY <1>4, <1>5

\* Initially nothing is open and nothing was filled.
LEMMA SlipInit == Init => SlipInv
<1> SUFFICES ASSUME Init PROVE SlipInv
  OBVIOUS
<1>1. open = {} /\ pc = "idle" /\ moved = 0 /\ slip = 0
  BY DEF Init
<1>2. Cardinality({}) = 0
  BY FS_EmptySet
<1>3. MaxOpen \in Nat /\ MaxOrder \in Nat /\ MaxOpen * MaxOrder \in Nat
  BY ControlConstants DEF LimitsValid
<1> QED BY <1>1, <1>2, <1>3 DEF SlipInv, SlipBounded

\* Every step keeps the bound: what fills during an assessment was open when it
\* began, and an order is added only after an assessment has ended.
LEMMA SlipStep ==
  RateInv /\ RateInv' /\ LimitsInv /\ SlipInv /\ [Next]_vars => SlipInv'
<1> SUFFICES ASSUME RateInv, RateInv', LimitsInv, SlipInv, [Next]_vars PROVE SlipInv'
  OBVIOUS
<1>0. /\ TypeOK /\ TypeOK' /\ IsFiniteSet(open) /\ open \subseteq OpenOrder
      /\ \A o \in open : o.left <= MaxOrder
  BY DEF RateInv, StampsInv, LimitsInv, TypeOK
<1> DEFINE B == MaxOpen * MaxOrder
<1> DEFINE W == Commitment(open) + Promised(open)
<1>1. /\ MaxOpen \in Nat /\ MaxOrder \in Nat /\ B \in Nat /\ slip \in Nat /\ moved \in Nat
      /\ Cardinality(open) \in Nat /\ moved <= slip /\ slip <= B /\ Cardinality(open) <= MaxOpen
  <2>1. MaxOpen \in Nat /\ MaxOrder \in Nat
    BY ONLY ControlConstants DEF LimitsValid
  <2>2. B \in Nat
    BY ONLY <2>1
  <2>3. slip \in Nat /\ moved \in Nat
    BY ONLY <1>0 DEF TypeOK
  <2>4. Cardinality(open) \in Nat
    BY ONLY <1>0, FS_CardinalityType
  <2>5. moved <= slip
    BY DEF LimitsInv, SnapshotsInv
  <2>6. slip <= B /\ Cardinality(open) <= MaxOpen
    BY DEF SlipInv, SlipBounded
  <2> QED BY ONLY <2>1, <2>2, <2>3, <2>4, <2>5, <2>6
<1>2. Commitment(open) \in Int /\ Promised(open) \in Int /\ W \in Int /\ W <= B
  <2> DEFINE c == Cardinality(open)
  <2>1. /\ Commitment(open) \in Int /\ Promised(open) \in Int /\ W <= MaxOrder * c
    BY <1>0, <1>1, BookBounded
  <2>2. MaxOrder * c <= B /\ MaxOrder * c \in Int
    <3> HIDE DEF c
    <3> QED BY <1>1 DEF c
  <2> HIDE DEF c, B
  <2> QED BY <1>1, <2>1, <2>2
<1>3. ASSUME open' = open, slip' = slip, moved' = moved, listed' = listed, pc' = pc
      PROVE  SlipInv'
  BY <1>3 DEF SlipInv, SlipBounded
<1>4. CASE \E order \in Requests : Assess(order)
  <2>1. /\ pc = "idle" /\ pc' = "account" /\ open' = open /\ slip' = slip /\ moved' = moved
    BY <1>4 DEF Assess, brokerVars, historyVars
  <2>2. moved = 0
    BY <2>1 DEF SlipInv
  <2>3. 0 + Commitment(open) + Promised(open) <= MaxOpen * MaxOrder
    BY <1>2
  <2> QED BY <1>1, <2>1, <2>2, <2>3 DEF SlipInv, SlipBounded
<1>5. CASE ReadAccount \/ ReadPositions
  <2>1. /\ pc \in {"account", "positions"} /\ pc' \in {"positions", "orders"}
        /\ open' = open /\ slip' = slip /\ moved' = moved
    BY <1>5 DEF ReadAccount, ReadPositions, brokerVars, historyVars
  <2> QED BY <2>1 DEF SlipInv, SlipBounded
<1>6. CASE ReadOpenOrders
  <2>1. /\ pc = "orders" /\ pc' = "decide" /\ listed' = open
        /\ open' = open /\ slip' = slip /\ moved' = moved
    BY <1>6 DEF ReadOpenOrders, brokerVars, historyVars
  <2> QED BY <1>1, <2>1 DEF SlipInv, SlipBounded
<1>7. CASE Decide
  <2>1. /\ pc = "decide" /\ pc' \in {"sent", "idle"} /\ open' = open /\ slip' = slip /\ moved' = 0
        /\ pc' = "sent" => Cardinality(listed) < MaxOpen
    BY <1>7 DEF Decide, Forget, brokerVars, Allowed, OpenAllows
  <2>2. Cardinality(open) <= Cardinality(listed)
    BY <2>1 DEF SlipInv
  <2>3. Cardinality(listed) \in Nat
    BY <2>1, FS_CardinalityType DEF LimitsInv, ListedInv
  <2> QED BY <1>1, <2>1, <2>2, <2>3 DEF SlipInv, SlipBounded
<1>8. CASE Deny
  BY <1>1, <1>8 DEF Deny, Forget, brokerVars, SlipInv, SlipBounded
<1>9. CASE Accept
  <2>1. /\ pc = "sent" /\ pc' = "idle" /\ slip' = slip /\ moved' = moved
        /\ Cardinality(open) < MaxOpen /\ moved = 0
    BY <1>9 DEF Accept, historyVars, SlipInv
  <2> DEFINE x == [id |-> Cardinality(stamps), symbol |-> request.symbol,
                   side |-> request.side, left |-> request.quantity]
  <2>2. open' \subseteq open \cup {x}
    BY <1>9 DEF Accept
  <2> HIDE DEF x
  <2>3. Cardinality(open') \in Nat /\ Cardinality(open') <= Cardinality(open) + 1
    BY <1>0, <2>2, OneMore
  <2>4. Cardinality(open') <= MaxOpen
    BY <1>1, <2>1, <2>3
  <2> QED BY <1>1, <2>1, <2>4 DEF SlipInv, SlipBounded
<1>10. CASE Refuse
  BY <1>1, <1>10 DEF Refuse, brokerVars, historyVars, SlipInv, SlipBounded
<1>11. ASSUME NEW o \in open, Fill(o) \/ Expire(o) PROVE SlipInv'
  <2> DEFINE V == Commitment(open') + Promised(open')
  <2> DEFINE k == IF Fill(o) THEN 1 ELSE 0
  <2>1. /\ Cardinality(open') <= Cardinality(open) /\ Cardinality(open') \in Nat
        /\ Commitment(open') \in Int /\ Promised(open') \in Int
        /\ Fill(o) => V <= W - 1
        /\ Expire(o) => V <= W
    BY <1>0, <1>11, BookShrinks
  <2>2. pc' = pc /\ listed' = listed
    BY <1>11 DEF Fill, Expire, readVars
  <2>3. Cardinality(open') <= MaxOpen /\ (pc = "sent" => Cardinality(open') < MaxOpen)
    BY <1>1, <2>1 DEF SlipInv
  <2>4. pc = "decide" => Cardinality(open') <= Cardinality(listed)
    <3> SUFFICES ASSUME pc = "decide" PROVE Cardinality(open') <= Cardinality(listed)
      OBVIOUS
    <3>1. Cardinality(listed) \in Nat /\ Cardinality(open) <= Cardinality(listed)
      BY FS_CardinalityType DEF LimitsInv, ListedInv, SlipInv
    <3> QED BY <1>1, <2>1, <3>1
  <2>5. moved' \in Nat /\ slip' \in Nat
    BY <1>0 DEF TypeOK
  <2>6. CASE pc \in {"idle", "sent"}
    <3>1. moved = 0
      BY <2>6 DEF SlipInv
    <3>2. moved' = 0 /\ slip' = slip
      BY <1>1, <1>11, <2>6, <3>1 DEF Fill, Expire, historyVars
    <3> QED BY <1>1, <2>2, <2>3, <2>4, <2>6, <3>2 DEF SlipInv, SlipBounded
  <2>7. CASE pc \notin {"idle", "sent"}
    <3>1. moved + Commitment(open) + Promised(open) <= B
      BY <2>7 DEF SlipInv
    <3>2. moved + W <= B
      BY <1>1, <1>2, <3>1
    <3>3. V \in Int /\ (Commitment(open) + Promised(open)) \in Int
      BY <1>2, <2>1
    <3>4. moved' + V <= B /\ slip' <= B
      <4>1. CASE Fill(o)
        <5>1. /\ moved' = moved + 1 /\ V <= W - 1
              /\ slip' = IF slip < moved' THEN moved' ELSE slip
          BY <2>1, <2>7, <4>1 DEF Fill
        <5>2. 0 <= Commitment(open') /\ 0 <= Promised(open')
          <6>1. open' \subseteq OpenOrder /\ IsFiniteSet(open')
            BY DEF RateInv, StampsInv, TypeOK
          <6>2. \A p \in open' : p.left \in Nat
            BY <6>1 DEF OpenOrder
          <6>3. \A p \in open' : p.left <= MaxOrder
            BY <1>0, <4>1, <6>2, FillEases DEF Eases
          <6> DEFINE rest == open'
          <6>4. rest \subseteq OpenOrder /\ IsFiniteSet(rest) /\ \A p \in rest : p.left <= MaxOrder
            BY <6>1, <6>3
          <6> HIDE DEF rest
          <6>5. 0 <= Commitment(rest) /\ 0 <= Promised(rest)
            BY <1>1, <6>4, BookBounded
          <6> QED BY <6>5 DEF rest
        <5>3. 0 <= V
          BY <2>1, <5>2
        <5> HIDE DEF V, W, B
        <5> QED BY <1>1, <1>2, <3>2, <3>3, <5>1, <5>3
      <4>2. CASE Expire(o)
        <5>1. moved' = moved /\ slip' = slip /\ V <= W
          BY <2>1, <4>2 DEF Expire, historyVars
        <5> HIDE DEF V, W, B
        <5> QED BY <1>1, <1>2, <3>2, <3>3, <5>1
      <4> QED BY <1>11, <4>1, <4>2
    <3>5. moved' + Commitment(open') + Promised(open') <= B
      BY <2>1, <2>5, <3>4
    <3> QED BY <2>2, <2>3, <2>4, <2>7, <3>4, <3>5 DEF SlipInv, SlipBounded
  <2> QED BY <2>6, <2>7
<1>12. CASE Tick
  BY <1>3, <1>12 DEF Tick, brokerVars, readVars, historyVars
<1>13. CASE UNCHANGED vars
  BY <1>3, <1>13 DEF vars, brokerVars, readVars, historyVars
<1> QED BY <1>4, <1>5, <1>6, <1>7, <1>8, <1>9, <1>10, <1>11, <1>12, <1>13 DEF Next

\* No more is filled between the reads of one assessment than
\* max_open_owned_orders orders of max_order_notional hold: this bounds how far
\* the gross limit, the reserve and the short position can go beyond theirs.
THEOREM SlipLimit == Spec => []SlipBounded
<1>1. RateInv /\ RateInv' /\ LimitsInv /\ SlipInv /\ [Next]_vars => SlipInv'
  BY SlipStep
<1>2. SlipInv => SlipBounded
  BY DEF SlipInv
<1> QED BY <1>1, <1>2, SlipInit, RateInvariant, LimitsInvariant, PTL DEF Spec
=============================================================================
