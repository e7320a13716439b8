--------------------------- MODULE SimulationProofs ---------------------------
(***************************************************************************)
(* What holds of the simulation for every stream of prices, every strategy *)
(* and every configuration the code accepts: the books balance, a halt     *)
(* stops buying, a halted position is always on its way out, and the       *)
(* report agrees with the portfolio.                                       *)
(***************************************************************************)
EXTENDS SimulationReport, TLAPS

USE SimulationConstants

\* What the proofs need of the types.
Kinds ==
  /\ now \in Nat /\ phase \in {"market", "fills", "decide", "done", "failed"}
  /\ close \in Nat /\ (phase \in {"fills", "decide"} => close # 0 /\ now # 0)
  /\ pending \subseteq Orders /\ arrived \subseteq Fills
  /\ cash \in Int /\ quantity \in Nat /\ basis \in Int /\ realized \in Int /\ fees \in Int
  /\ peak \in Int /\ halted \in BOOLEAN

\* At most one order is alive, it is a buy only while the run is not halted,
\* and there is none before the evaluation.
OneOrder ==
  /\ \A order \in pending : order.at <= now
  /\ phase \in {"fills", "decide"} => pending = {}
  /\ phase # "fills" => arrived = {}
  /\ \A x, y \in pending : x = y
  /\ \A x, y \in arrived : x = y
  /\ \A x \in pending \cup arrived : x.side = "buy" => ~halted
  /\ now < EvalStart => quantity = 0 /\ pending = {} /\ arrived = {}

\* When an order is decided, the breakers have already been observed.
Observed == phase = "decide" => now >= EvalStart /\ (Breaker => halted)

\* The inductive invariant.
SimInv ==
  /\ Kinds
  /\ AccountingIdentity
  /\ NegativeCashHalts
  /\ OneOrder
  /\ Observed
  /\ HaltedExitPending

-----------------------------------------------------------------------------
(* Arithmetic *)

\* Rounding an integer quotient gives an integer.
LEMMA QuantizeType == ASSUME NEW n \in Int, NEW d \in Nat \ {0} PROVE Quantize(n, d) \in Int
BY DEF Quantize

\* The product of two positive numbers is positive.
LEMMA PositiveProduct ==
  ASSUME NEW a \in Nat \ {0}, NEW b \in Nat \ {0} PROVE a * b \in Nat \ {0}
OBVIOUS

\* The larger of two numbers is one of them.
LEMMA MaxOfTwo ==
  ASSUME NEW a \in Int, NEW b \in Int
  PROVE  /\ Max({a, b}) \in Int /\ Max({a, b}) >= a /\ Max({a, b}) >= b
         /\ Max({a, b}) \in {a, b}
<1>1. \E x \in {a, b} : \A y \in {a, b} : x >= y
  OBVIOUS
<1> QED BY <1>1 DEF Max

\* The smaller of two numbers is one of them.
LEMMA MinOfTwo ==
  ASSUME NEW a \in Int, NEW b \in Int
  PROVE  Min({a, b}) \in {a, b}
<1>1. \E x \in {a, b} : \A y \in {a, b} : x =< y
  OBVIOUS
<1> QED BY <1>1 DEF Min

\* The same of four numbers.
LEMMA MinOfFour ==
  ASSUME NEW a \in Int, NEW b \in Int, NEW c \in Int, NEW d \in Int
  PROVE  Min({a, b, c, d}) \in Int
<1>1. \E x \in {a, b, c, d} : \A y \in {a, b, c, d} : x =< y
  OBVIOUS
<1> QED BY <1>1 DEF Min

-----------------------------------------------------------------------------
(* One lemma per action *)

\* The initial state satisfies the invariant.
LEMMA InitSim == Init => SimInv
<1> SUFFICES ASSUME Init PROVE SimInv
  OBVIOUS
<1>1. InitialCash \in Nat
  OBVIOUS
<1>2. Kinds
  <2>1. halted \in BOOLEAN /\ pending \subseteq Orders /\ arrived \subseteq Fills
    BY Zenon DEF Init
  <2> QED BY <1>1, <2>1 DEF Init, Kinds
<1>3. AccountingIdentity /\ NegativeCashHalts
  BY <1>1 DEF Init, AccountingIdentity, NegativeCashHalts
<1>4. OneOrder /\ Observed /\ HaltedExitPending
  BY DEF Init, OneOrder, Observed, HaltedExitPending
<1> QED BY <1>2, <1>3, <1>4 DEF SimInv

\* An order and a price make a fill, unless the fill price is not positive.
LEMMA FillOfType ==
  ASSUME NEW order \in Orders, NEW o \in Prices, ~(FillOf(order, o).price <= 0)
  PROVE  FillOf(order, o) \in Fills
<1> DEFINE factor == IF order.side = "buy" THEN Parts + Slippage ELSE Parts - Slippage
<1>1. o * factor \in Int
  OBVIOUS
<1>2. FillPrice(order.side, o) \in Int
  BY <1>1, QuantizeType DEF FillPrice
<1> QED
  BY <1>2 DEF FillOf, Fills, Orders

\* Every pending order is filled by the next event, and nothing else changes
\* hands.
LEMMA MarketEventSim ==
  ASSUME SimInv, NEW t \in 1 .. MaxTime, NEW o \in Prices, NEW c \in Prices,
         MarketEvent(t, o, c)
  PROVE  SimInv'
<1> DEFINE due == {order \in pending : Eligible(order, t)}
           found == {FillOf(order, o) : order \in due}
<1>0. /\ phase = "market" /\ t > now /\ now' = t /\ close' = c /\ arrived = {}
      /\ UNCHANGED <<cash, quantity, basis, realized, fees, rejected, peak, halted>>
  BY DEF MarketEvent, SimInv, OneOrder, portfolioVars, riskVars
<1>1. due = pending
  BY <1>0 DEF SimInv, Kinds, OneOrder, Eligible, Orders
<1>2. AccountingIdentity' /\ NegativeCashHalts'
  BY <1>0 DEF SimInv, AccountingIdentity, NegativeCashHalts
<1>3. CASE \E fill \in found : fill.price <= 0
  <2>1. phase' = "failed" /\ pending' = pending /\ arrived' = arrived
    BY <1>3 DEF MarketEvent
  <2>2. Kinds'
    BY <1>0, <2>1 DEF SimInv, Kinds
  <2>3. OneOrder' /\ Observed' /\ HaltedExitPending'
    BY <1>0, <2>1 DEF SimInv, Kinds, OneOrder, Observed, HaltedExitPending, Orders
  <2> QED BY <1>2, <2>2, <2>3 DEF SimInv
<1>4. CASE ~ \E fill \in found : fill.price <= 0
  <2>1. phase' = "fills" /\ arrived' = found /\ pending' = {}
    BY <1>1, <1>4 DEF MarketEvent
  <2>2. found \subseteq Fills
    BY <1>4, FillOfType DEF SimInv, Kinds
  <2>3. Kinds'
    BY <1>0, <2>1, <2>2 DEF SimInv, Kinds
  <2>4. \A x, y \in found : x = y
    BY <1>1 DEF SimInv, OneOrder
  <2>5. \A x \in found : x.side = "buy" => ~halted
    BY <1>1 DEF SimInv, OneOrder, FillOf
  <2>6. now' < EvalStart => quantity = 0 /\ found = {}
    BY <1>0, <1>1 DEF SimInv, Kinds, OneOrder
  <2>7. OneOrder' /\ Observed' /\ HaltedExitPending'
    BY <1>0, <2>1, <2>4, <2>5, <2>6 DEF OneOrder, Observed, HaltedExitPending
  <2> QED BY <1>2, <2>3, <2>7 DEF SimInv
<1> QED BY <1>3, <1>4

\* A refused event and the end of the stream leave the accounts alone.
LEMMA StopSim ==
  ASSUME SimInv, (\E t \in 1 .. MaxTime : RejectEvent(t)) \/ Finish
  PROVE  SimInv'
<1>1. /\ phase' \in {"done", "failed"} /\ pending' \in {pending, {}}
      /\ phase = "market"
      /\ UNCHANGED <<now, close, arrived, cash, quantity, basis, realized, fees, rejected,
                     peak, halted>>
  BY DEF RejectEvent, Finish, eventVars, portfolioVars, riskVars
<1>2. Kinds' /\ AccountingIdentity' /\ NegativeCashHalts'
  BY <1>1 DEF SimInv, Kinds, AccountingIdentity, NegativeCashHalts
<1>3. OneOrder' /\ Observed' /\ HaltedExitPending'
  BY <1>1 DEF SimInv, Kinds, OneOrder, Observed, HaltedExitPending
<1> QED BY <1>2, <1>3 DEF SimInv


\* A fill moves cost between cash, basis and realized profit and loses
\* nothing; being the only one, it leaves no buy behind if it halts.
LEMMA ApplyFillSim ==
  ASSUME SimInv, NEW fill \in arrived, ApplyFill(fill)
  PROVE  SimInv'
<1>0. /\ phase = "fills" /\ phase' = phase /\ arrived' = {} /\ pending = {} /\ pending' = {}
      /\ now' = now /\ close' = close /\ peak' = peak
      /\ now >= EvalStart
      /\ fill \in Fills
  BY DEF ApplyFill, SimInv, Kinds, OneOrder, eventVars
<1>1. /\ fill.quantity \in Nat \ {0} /\ fill.price \in Nat \ {0} /\ fill.side \in Sides
      /\ Notional(fill) \in Int /\ Fee(fill.quantity) \in Nat
  BY <1>0 DEF Fills, Notional, Fee
<1>2. /\ cash \in Int /\ quantity \in Nat /\ basis \in Int /\ realized \in Int /\ fees \in Int
      /\ halted \in BOOLEAN
      /\ cash + basis = InitialCash + realized - fees
      /\ quantity = 0 => basis = 0
      /\ cash < 0 => halted
  BY DEF SimInv, Kinds, AccountingIdentity, NegativeCashHalts
<1>3. /\ cash' \in Int /\ quantity' \in Nat /\ basis' \in Int /\ realized' \in Int /\ fees' \in Int
      /\ cash' + basis' = InitialCash + realized' - fees'
      /\ quantity' = 0 => basis' = 0
  <2>1. CASE ~Affordable(fill)
    BY <1>2, <2>1 DEF ApplyFill, portfolioVars
  <2>2. CASE Affordable(fill) /\ fill.side = "buy"
    BY <1>1, <1>2, <2>2 DEF ApplyFill, Buy, Affordable
  <2>3. CASE Affordable(fill) /\ fill.side # "buy"
    <3>1. fill.quantity <= quantity
      BY <2>3 DEF Affordable
    <3>2. ReleasedCost(fill.quantity) \in Int
      <4>1. quantity \in Nat \ {0}
        BY <1>1, <1>2, <3>1
      <4>2. basis * fill.quantity \in Int
        BY <1>1, <1>2
      <4> QED BY <1>2, <4>1, <4>2, QuantizeType DEF ReleasedCost
    <3>3. fill.quantity = quantity => ReleasedCost(fill.quantity) = basis
      BY DEF ReleasedCost
    <3>4. Sell(fill) /\ fees' = fees + Fee(fill.quantity)
      BY <2>3 DEF ApplyFill
    <3> QED BY <1>1, <1>2, <3>1, <3>2, <3>3, <3>4 DEF Sell
  <2> QED BY <2>1, <2>2, <2>3
<1>4. halted' \in BOOLEAN /\ (cash' < 0 => halted')
  <2>1. CASE ~Affordable(fill)
    BY <2>1, Zenon DEF ApplyFill
  <2>2. CASE Affordable(fill)
    <3>1. Settle(fill)
      BY <2>2, Zenon DEF ApplyFill
    <3>2. PostFillBreach(fill, cash', quantity') \in BOOLEAN
      BY Zenon DEF PostFillBreach
    <3>3. CASE cash' < 0
      BY <3>1, <3>3, Zenon DEF Settle
    <3>4. CASE ~(cash' < 0)
      BY <3>1, <3>2, <3>4, Zenon DEF Settle
    <3> QED BY <3>3, <3>4
  <2> QED BY <2>1, <2>2
<1>5. Kinds'
  BY <1>0, <1>3, <1>4 DEF SimInv, Kinds
<1>6. AccountingIdentity' /\ NegativeCashHalts'
  BY <1>3, <1>4 DEF AccountingIdentity, NegativeCashHalts
<1>7. OneOrder' /\ Observed' /\ HaltedExitPending'
  BY <1>0 DEF SimInv, Kinds, OneOrder, Observed, HaltedExitPending
<1> QED BY <1>5, <1>6, <1>7 DEF SimInv

\* Observing is idempotent: a breaker that would trip at the decision has
\* already tripped.
LEMMA ObserveSim ==
  ASSUME SimInv, Observe
  PROVE  SimInv'
<1>0. /\ phase = "fills" /\ pending = {} /\ arrived = {} /\ pending' = {} /\ arrived' = {}
      /\ now' = now /\ close' = close /\ peak' = NewPeak
      /\ cash' = cash /\ quantity' = quantity /\ basis' = basis /\ realized' = realized
      /\ fees' = fees
  BY DEF Observe, SimInv, OneOrder, eventVars, portfolioVars
<1>1. /\ now \in Nat \ {0} /\ close \in Nat \ {0} /\ cash \in Int /\ quantity \in Nat
      /\ peak \in Int /\ basis \in Int /\ realized \in Int /\ fees \in Int
      /\ halted \in BOOLEAN
  BY <1>0 DEF SimInv, Kinds
<1>2. Equity \in Int /\ Equity' = Equity
  BY <1>0, <1>1 DEF Equity
<1>3. NewPeak \in Int /\ NewPeak' = NewPeak
  <2>1. /\ NewPeak \in Int /\ NewPeak >= Equity
    BY <1>1, <1>2, MaxOfTwo DEF NewPeak
  <2>2. NewPeak' = Max({NewPeak, Equity})
    BY <1>0, <1>2 DEF NewPeak
  <2>3. Max({NewPeak, Equity}) >= NewPeak /\ Max({NewPeak, Equity}) \in {NewPeak, Equity}
    BY <1>2, <2>1, MaxOfTwo
  <2> QED BY <1>2, <2>1, <2>2, <2>3
<1>4. Breaker' = Breaker
  BY <1>0, <1>2, <1>3 DEF Breaker
<1>5. Breaker \in BOOLEAN
  BY Zenon DEF Breaker
<1>6. halted' \in BOOLEAN /\ (halted => halted') /\ (Breaker => halted')
  BY <1>1, <1>5, Zenon DEF Observe
<1>7. /\ phase' \in {"market", "decide"} /\ (phase' = "decide" => now >= EvalStart)
      /\ (phase' = "market" => now < EvalStart)
  BY <1>1 DEF Observe, InEvaluation
<1>8. Kinds'
  BY <1>0, <1>1, <1>3, <1>6, <1>7 DEF Kinds
<1>9. AccountingIdentity' /\ NegativeCashHalts'
  BY <1>0, <1>6 DEF SimInv, AccountingIdentity, NegativeCashHalts
<1>10. OneOrder' /\ Observed' /\ HaltedExitPending'
  BY <1>0, <1>1, <1>4, <1>6, <1>7 DEF SimInv, OneOrder, Observed, HaltedExitPending
<1> QED BY <1>8, <1>9, <1>10 DEF SimInv


\* The sizing of a buy is a number.
LEMMA BuySizeType ==
  ASSUME Kinds, close # 0, NEW wanted \in Int
  PROVE  BuySize(wanted) \in Int
<1> DEFINE price == ConservativePrice(close)
<1>1. /\ close \in Nat \ {0} /\ cash \in Int /\ quantity \in Nat
      /\ Parts + Slippage + Buffer \in Nat \ {0}
  BY DEF Kinds
<1>2. price \in Nat \ {0}
  BY <1>1, PositiveProduct DEF ConservativePrice
<1>3. /\ FeePerShare * Parts \in Nat /\ FeePerOrder * Parts \in Nat /\ MaxOrder * Parts \in Int
      /\ MaxPosition \in Int /\ MinReserve \in Int
  OBVIOUS
<1>4. price + FeePerShare * Parts \in Nat \ {0}
  BY <1>2, <1>3
<1>5. Equity \in Int
  BY <1>1 DEF Equity
<1>6. /\ Equity * MaxPosition - quantity * price \in Int
      /\ cash * Parts - Equity * MinReserve \in Int
  BY <1>1, <1>2, <1>3, <1>5
<1>7. \A v \in Int : \A p \in Nat \ {0} : SharesForValue(v, p) \in Int
  BY DEF SharesForValue
<1>8. \A v \in Int : SharesForTotalCost(v, price) \in Int
  BY <1>3, <1>4, <1>7 DEF SharesForTotalCost
<1> HIDE DEF price
<1>9. Min({wanted, SharesForTotalCost(MaxOrder * Parts, price),
           SharesForValue(Equity * MaxPosition - quantity * price, price),
           SharesForTotalCost(cash * Parts - Equity * MinReserve, price)}) \in Int
  BY <1>2, <1>3, <1>6, <1>7, <1>8, MinOfFour
<1> QED BY <1>9 DEF BuySize, price

\* A decision sells a halted position whole and buys only when not halted.
LEMMA DecideSim ==
  ASSUME SimInv, NEW signal \in Targets, Decide(signal)
  PROVE  SimInv'
<1> DEFINE delta == (Equity * EffectiveTarget(signal)) \div (close * Parts) - quantity
           side == IF delta > 0 THEN "buy" ELSE "sell"
           wanted == IF delta > 0 THEN delta ELSE -delta
           stopped == halted \/ Breaker
           approved == Approved(side, wanted, stopped)
           order == [side |-> side, quantity |-> approved, reference |-> close, at |-> now]
<1>0. /\ phase = "decide" /\ phase' = "market" /\ pending = {} /\ arrived = {} /\ arrived' = {}
      /\ now' = now /\ close' = close
      /\ cash' = cash /\ quantity' = quantity /\ basis' = basis /\ realized' = realized
      /\ fees' = fees
  BY DEF Decide, SimInv, OneOrder, eventVars, portfolioVars
<1>1. /\ now \in Nat /\ close \in Nat \ {0} /\ cash \in Int /\ quantity \in Nat /\ peak \in Int
      /\ basis \in Int /\ realized \in Int /\ fees \in Int /\ halted \in BOOLEAN
  BY <1>0 DEF SimInv, Kinds
<1>2. stopped = halted
  BY <1>0, <1>1, Zenon DEF SimInv, Observed
<1>3. halted' = halted
  <2>1. halted' = IF delta = 0 THEN halted ELSE stopped
    BY Zenon DEF Decide
  <2> QED BY <1>2, <2>1, Zenon
<1>4. Equity \in Int /\ NewPeak \in Int
  <2>1. Equity \in Int
    BY <1>1 DEF Equity
  <2> QED BY <1>1, <2>1, MaxOfTwo DEF NewPeak
<1>5. peak' \in Int
  BY <1>1, <1>4 DEF Decide
<1>6. close * Parts \in Nat \ {0}
  BY <1>1, PositiveProduct
<1>7. delta \in Int
  <2>1. EffectiveTarget(signal) \in Int
    BY DEF EffectiveTarget
  <2>2. Equity * EffectiveTarget(signal) \in Int
    BY <1>4, <2>1
  <2> QED BY <1>1, <1>6, <2>2
<1>8. /\ delta = 0 \/ approved <= 0 => pending' = {}
      /\ ~(delta = 0 \/ approved <= 0) => pending' = {order}
  BY <1>0 DEF Decide
<1>9. halted /\ quantity > 0 => delta = -quantity
  <2> SUFFICES ASSUME halted, quantity > 0 PROVE delta = -quantity
    BY <1>1
  <2>1. EffectiveTarget(signal) = 0
    BY DEF EffectiveTarget
  <2>2. Equity * EffectiveTarget(signal) = 0
    BY <1>4, <2>1
  <2>3. \A d \in Nat \ {0} : 0 \div d = 0
    OBVIOUS
  <2> QED BY <1>1, <1>6, <2>2, <2>3
<1> HIDE DEF delta
<1>10. approved \in Int /\ (side = "buy" /\ halted => approved = 0)
  <2>1. wanted \in Int
    BY <1>7
  <2>2. CASE side = "sell"
    BY <1>1, <2>1, <2>2, MinOfTwo DEF Approved
  <2>3. CASE side = "buy" /\ halted
    BY <1>2, <2>3 DEF Approved
  <2>4. CASE side = "buy" /\ ~halted
    <3>1. BuySize(wanted) \in Int
      BY <1>1, <2>1, BuySizeType DEF SimInv
    <3>2. approved = BuySize(wanted)
      BY <1>2, <2>4 DEF Approved
    <3> QED BY <2>4, <3>1, <3>2
  <2> QED BY <1>1, <2>2, <2>3, <2>4
<1>11. halted /\ quantity > 0 => side = "sell" /\ approved = quantity
  <2> SUFFICES ASSUME halted, quantity > 0 PROVE side = "sell" /\ approved = quantity
    BY <1>1
  <2>1. side = "sell" /\ wanted = quantity
    BY <1>1, <1>9
  <2> QED BY <1>1, <2>1, MinOfTwo DEF Approved
<1> HIDE DEF approved, side
<1>12. side \in Sides
  BY DEF side, Sides
<1>13. now \in Nat \ {0}
  BY <1>0 DEF SimInv, Kinds
<1>14. pending' \subseteq Orders
  BY <1>1, <1>8, <1>10, <1>12, <1>13 DEF Orders
<1>15. Kinds'
  BY <1>0, <1>1, <1>3, <1>5, <1>14 DEF Kinds
<1>16. AccountingIdentity' /\ NegativeCashHalts'
  BY <1>0, <1>3 DEF SimInv, AccountingIdentity, NegativeCashHalts
<1>17. OneOrder'
  <2>1. \A x \in pending' : x = order /\ x.at = now /\ x.side = side /\ ~(approved <= 0)
    BY <1>8
  <2>2. \A x \in pending' : x.side = "buy" => ~halted
    BY <1>10, <2>1
  <2>3. now >= EvalStart
    BY <1>0 DEF SimInv, Observed
  <2> HIDE DEF order
  <2> QED BY <1>0, <1>1, <1>3, <2>1, <2>2, <2>3 DEF OneOrder
<1>18. Observed' /\ HaltedExitPending'
  BY <1>0, <1>1, <1>3, <1>8, <1>9, <1>11 DEF Observed, HaltedExitPending
<1> QED BY <1>15, <1>16, <1>17, <1>18 DEF SimInv


\* Every step preserves the invariant.
LEMMA NextSim == SimInv /\ [Next]_vars => SimInv'
<1> SUFFICES ASSUME SimInv, [Next]_vars PROVE SimInv'
  OBVIOUS
<1>1. ASSUME UNCHANGED vars PROVE SimInv'
  BY <1>1 DEF SimInv, Kinds, AccountingIdentity, NegativeCashHalts, OneOrder, Observed,
    HaltedExitPending, Breaker, NewPeak, Equity, vars, eventVars, portfolioVars, riskVars
<1> QED
  BY <1>1, MarketEventSim, StopSim, ApplyFillSim, ObserveSim, DecideSim DEF Next, Proceed, Stopped

-----------------------------------------------------------------------------
(* The theorems *)

\* The invariant holds throughout every replay.
THEOREM SimulationInvariant == Spec => []SimInv
BY InitSim, NextSim, PTL DEF Spec

\* apply_fill keeps the books: cash and cost basis always add up to the
\* initial cash plus realized profit minus fees, rejected fills included.
THEOREM BooksBalance == Spec => []AccountingIdentity
<1>1. SimInv => AccountingIdentity
  BY DEF SimInv
<1> QED BY <1>1, SimulationInvariant, PTL

\* Negative cash halts the run: a sale whose fee exceeds the proceeds is
\* noticed by _validate_state at the fill that causes it.
THEOREM NegativeCashNoticed == Spec => []NegativeCashHalts
<1>1. SimInv => NegativeCashHalts
  BY DEF SimInv
<1> QED BY <1>1, SimulationInvariant, PTL

\* A halt never traps a position: between events of a replay the sale of
\* all of it is the one order pending at the simulated broker.
THEOREM HaltNeverTraps == Spec => []HaltedExitPending
<1>1. SimInv => HaltedExitPending
  BY DEF SimInv
<1> QED BY <1>1, SimulationInvariant, PTL

\* Once the risk manager has halted, no step of the engine adds shares, not
\* even the fill of an order approved before the halt.
THEOREM HaltStopsBuying == Spec => NoBuyWhileHalted
<1>1. SimInv /\ [Next]_vars => [quantity' > quantity => ~halted]_vars
  <2> SUFFICES ASSUME SimInv, Next PROVE quantity' > quantity => ~halted
    BY DEF vars
  <2>1. quantity \in Nat
    BY DEF SimInv, Kinds
  <2>2. ASSUME quantity' = quantity PROVE ~(quantity' > quantity)
    BY <2>1, <2>2
  <2>3. ASSUME NEW fill \in arrived, ApplyFill(fill) PROVE quantity' > quantity => ~halted
    <3>1. fill.side \in Sides /\ fill.quantity \in Nat
      BY <2>3 DEF SimInv, Kinds, Fills
    <3>2. CASE fill.side = "buy"
      BY <3>2 DEF SimInv, OneOrder
    <3>3. CASE fill.side # "buy"
      BY <2>1, <2>3, <3>1, <3>3 DEF ApplyFill, Sell, portfolioVars
    <3> QED BY <3>2, <3>3
  <2> QED
    BY <2>2, <2>3 DEF Next, Proceed, MarketEvent, RejectEvent, Observe, Decide, Finish, Stopped,
      vars, portfolioVars
<1> QED BY <1>1, SimulationInvariant, PTL DEF Spec, NoBuyWhileHalted

-----------------------------------------------------------------------------
(* Types *)

\* Beyond SimInv: cost, fees, peak and the count of refusals are never
\* negative.
TypesInv == SimInv /\ basis \in Nat /\ fees \in Nat /\ peak \in Nat /\ rejected \in Nat

\* Rounding half to even cannot leave an interval whose ends are whole.
LEMMA QuantizeBounds ==
  ASSUME NEW n \in Nat, NEW d \in Nat \ {0}, NEW b \in Nat, n <= b * d
  PROVE  Quantize(n, d) \in 0 .. b
<1> DEFINE whole == n \div d
           rest == n % d
<1>1. /\ whole \in Nat /\ rest \in Nat /\ rest < d
      /\ n = d * whole + rest
  OBVIOUS
<1>2. Quantize(n, d) \in {whole, whole + 1} /\ (rest = 0 => Quantize(n, d) = whole)
  BY <1>1 DEF Quantize
<1> HIDE DEF whole, rest
<1>3. whole <= b
  <2> SUFFICES ASSUME whole >= b + 1 PROVE FALSE
    BY <1>1
  <2>1. d * whole >= d * (b + 1)
    BY <1>1
  <2>2. d * (b + 1) = b * d + d
    OBVIOUS
  <2>3. b * d \in Nat /\ d * whole \in Nat
    BY <1>1
  <2> HIDE DEF Quantize
  <2> QED BY <1>1, <2>1, <2>2, <2>3
<1>4. rest # 0 => whole < b
  <2> SUFFICES ASSUME rest # 0, whole = b PROVE FALSE
    BY <1>1, <1>3
  <2>1. b * d \in Nat /\ d * whole = b * d
    BY <1>1
  <2> QED BY <1>1, <2>1
<1> QED BY <1>1, <1>2, <1>3, <1>4

\* Part of a position never costs more than all of it.
LEMMA ReleasedCostBounds ==
  ASSUME basis \in Nat, quantity \in Nat \ {0}, NEW n \in Nat, n <= quantity
  PROVE  ReleasedCost(n) \in 0 .. basis
<1>1. basis * n \in Nat /\ basis * n <= basis * quantity
  OBVIOUS
<1>2. Quantize(basis * n, quantity) \in 0 .. basis
  BY <1>1, QuantizeBounds
<1> QED BY <1>2 DEF ReleasedCost

\* A fill keeps cost, fees and the count of refusals from going negative.
LEMMA ApplyFillTypes ==
  ASSUME TypesInv, NEW fill \in arrived, ApplyFill(fill)
  PROVE  basis' \in Nat /\ fees' \in Nat /\ peak' \in Nat /\ rejected' \in Nat
<1>1. fill \in Fills /\ quantity \in Nat
  BY DEF TypesInv, SimInv, Kinds
<1>2. /\ fill.quantity \in Nat \ {0} /\ Notional(fill) \in Nat /\ Fee(fill.quantity) \in Nat
  BY <1>1 DEF Fills, Notional, Fee
<1>3. basis \in Nat /\ fees \in Nat /\ peak \in Nat /\ rejected \in Nat
  BY DEF TypesInv
<1>4. peak' \in Nat
  BY <1>3 DEF ApplyFill
<1>5. CASE ~Affordable(fill)
  BY <1>3, <1>4, <1>5 DEF ApplyFill, portfolioVars
<1>6. CASE Affordable(fill)
  <2>1. fees' \in Nat
    BY <1>2, <1>3, <1>6 DEF ApplyFill
  <2>2. rejected' \in Nat
    BY <1>3, <1>6 DEF ApplyFill, Settle
  <2>3. CASE fill.side = "buy"
    BY <1>2, <1>3, <1>4, <1>6, <2>1, <2>2, <2>3 DEF ApplyFill, Buy
  <2>4. CASE fill.side # "buy"
    <3>1. fill.quantity <= quantity
      BY <1>6, <2>4 DEF Affordable
    <3>2. ReleasedCost(fill.quantity) \in 0 .. basis
      BY <1>1, <1>2, <1>3, <3>1, ReleasedCostBounds
    <3>3. basis' = basis - ReleasedCost(fill.quantity)
      BY <1>6, <2>4 DEF ApplyFill, Sell
    <3> QED BY <1>3, <1>4, <2>1, <2>2, <3>2, <3>3
  <2> QED BY <2>3, <2>4
<1> QED BY <1>5, <1>6

\* A new peak is the old one or a higher equity.
LEMMA NewPeakType ==
  ASSUME TypesInv
  PROVE  NewPeak \in Nat
<1>1. peak \in Nat /\ cash \in Int /\ close \in Nat /\ quantity \in Nat
  BY DEF TypesInv, SimInv, Kinds
<1>2. Equity \in Int
  BY <1>1 DEF Equity
<1>3. Max({peak, Equity}) \in Int /\ Max({peak, Equity}) >= peak
  BY <1>1, <1>2, MaxOfTwo
<1> QED BY <1>1, <1>3 DEF NewPeak

\* Every step keeps the counts and sums natural numbers.
LEMMA NextTypes == TypesInv /\ [Next]_vars => TypesInv'
<1> SUFFICES ASSUME TypesInv, [Next]_vars PROVE TypesInv'
  OBVIOUS
<1>1. SimInv'
  BY NextSim DEF TypesInv
<1>2. basis \in Nat /\ fees \in Nat /\ peak \in Nat /\ rejected \in Nat
  BY DEF TypesInv
<1>3. basis' \in Nat /\ fees' \in Nat /\ peak' \in Nat /\ rejected' \in Nat
  <2>1. ASSUME NEW fill \in arrived, ApplyFill(fill)
        PROVE  basis' \in Nat /\ fees' \in Nat /\ peak' \in Nat /\ rejected' \in Nat
    BY <2>1, ApplyFillTypes
  <2>2. ASSUME Proceed \/ UNCHANGED vars
        PROVE  /\ basis' = basis /\ fees' = fees /\ rejected' = rejected
               /\ peak' \in {peak, NewPeak}
    BY <2>2 DEF Proceed, MarketEvent, RejectEvent, Observe, Decide, Finish, Stopped,
      vars, portfolioVars, riskVars
  <2> QED BY <1>2, <2>1, <2>2, NewPeakType DEF Next
<1> QED BY <1>1, <1>3 DEF TypesInv

\* The fields of the portfolio and of the risk manager keep their kinds: the
\* position is never short, and a partial sale, which releases a rounded
\* share of the cost, never releases more cost than there is.
THEOREM SimulationTypes == Spec => []TypeOK
<1>1. Init => TypesInv
  BY InitSim DEF Init, TypesInv
<1>2. TypesInv => TypeOK
  BY DEF TypesInv, SimInv, Kinds, TypeOK
<1> QED BY <1>1, <1>2, NextTypes, PTL DEF Spec

-----------------------------------------------------------------------------
(* The promise of the sizing *)

\* What a buy of n shares can cost at the conservative price, times Parts.
Worst(n, reference) ==
  n * (ConservativePrice(reference) + FeePerShare * Parts) + FeePerOrder * Parts

\* Until it is filled, a buy fits the order limit and the cash at its
\* conservative price.
SizedInv ==
  /\ SimInv
  /\ \A x \in pending \cup arrived :
       x.side = "buy" => /\ Worst(x.quantity, x.reference) <= MaxOrder * Parts
                         /\ Worst(x.quantity, x.reference) <= cash * Parts

\* The smallest of four numbers is no larger than any.
LEMMA MinOfFourBounds ==
  ASSUME NEW a \in Int, NEW b \in Int, NEW c \in Int, NEW d \in Int
  PROVE  Min({a, b, c, d}) <= b /\ Min({a, b, c, d}) <= d
<1>1. \E x \in {a, b, c, d} : \A y \in {a, b, c, d} : x =< y
  OBVIOUS
<1> QED BY <1>1 DEF Min

\* A floor division never overspends.
LEMMA DivisionFits ==
  ASSUME NEW v \in Int, NEW p \in Nat \ {0}, NEW n \in Nat \ {0}, n <= v \div p
  PROVE  n * p <= v
<1> DEFINE whole == v \div p
           rest == v % p
<1>1. whole \in Int /\ rest \in Nat /\ v = p * whole + rest
  OBVIOUS
<1> HIDE DEF whole, rest
<1>2. n <= whole
  BY DEF whole
<1>3. n * p <= whole * p /\ n * p \in Int /\ whole * p \in Int
  BY <1>1, <1>2
<1>4. whole * p = p * whole
  BY <1>1
<1> QED BY <1>1, <1>3, <1>4

\* As many shares as the value pays for, fees included, cost no more than
\* the value.
LEMMA SharesFit ==
  ASSUME NEW value \in Int, NEW price \in Nat \ {0}, NEW n \in Nat \ {0},
         n <= SharesForTotalCost(value, price)
  PROVE  n * (price + FeePerShare * Parts) + FeePerOrder * Parts <= value
<1> DEFINE rest == value - FeePerOrder * Parts
           unit == price + FeePerShare * Parts
<1>1. FeePerShare * Parts \in Nat /\ FeePerOrder * Parts \in Nat
  OBVIOUS
<1>2. rest \in Int /\ unit \in Nat \ {0}
  BY <1>1
<1>3. n <= SharesForValue(rest, unit)
  BY DEF SharesForTotalCost
<1>4. n * unit <= rest
  <2> HIDE DEF rest, unit
  <2>1. n <= rest \div unit
    BY <1>2, <1>3 DEF SharesForValue
  <2> QED BY <1>2, <2>1, DivisionFits
<1>5. n * unit \in Int
  BY <1>2
<1> HIDE DEF unit
<1>6. n * unit + FeePerOrder * Parts <= value
  BY <1>1, <1>4, <1>5
<1> QED BY <1>6 DEF unit

\* The size of a buy of a run with equity fits the order limit and the cash.
LEMMA BuySizeFits ==
  ASSUME Kinds, close # 0, Equity > 0, NEW wanted \in Int, BuySize(wanted) > 0
  PROVE  /\ Worst(BuySize(wanted), close) <= MaxOrder * Parts
         /\ Worst(BuySize(wanted), close) <= cash * Parts
<1> DEFINE price == ConservativePrice(close)
           n == BuySize(wanted)
           byOrder == SharesForTotalCost(MaxOrder * Parts, price)
           byPosition == SharesForValue(Equity * MaxPosition - quantity * price, price)
           byReserve == SharesForTotalCost(cash * Parts - Equity * MinReserve, price)
<1>1. /\ close \in Nat \ {0} /\ cash \in Int /\ quantity \in Nat
      /\ Parts + Slippage + Buffer \in Nat \ {0}
  BY DEF Kinds
<1>2. price \in Nat \ {0}
  BY <1>1, PositiveProduct DEF ConservativePrice
<1>3. /\ FeePerShare * Parts \in Nat /\ FeePerOrder * Parts \in Nat /\ MaxOrder * Parts \in Int
      /\ MaxPosition \in Int /\ MinReserve \in Nat
  OBVIOUS
<1>4. price + FeePerShare * Parts \in Nat \ {0}
  BY <1>2, <1>3
<1>5. Equity \in Nat
  BY <1>1 DEF Equity
<1>6. /\ Equity * MaxPosition - quantity * price \in Int
      /\ cash * Parts - Equity * MinReserve \in Int
      /\ cash * Parts \in Int /\ Equity * MinReserve \in Nat
  BY <1>1, <1>2, <1>3, <1>5
<1>7. \A v \in Int : \A p \in Nat \ {0} : SharesForValue(v, p) \in Int
  BY DEF SharesForValue
<1>8. \A v \in Int : SharesForTotalCost(v, price) \in Int
  BY <1>3, <1>4, <1>7 DEF SharesForTotalCost
<1>9. n = Min({wanted, byOrder, byPosition, byReserve})
  BY DEF BuySize
<1> HIDE DEF price
<1>10. byOrder \in Int /\ byPosition \in Int /\ byReserve \in Int
  BY <1>2, <1>3, <1>6, <1>7, <1>8
<1>11. n \in Nat \ {0}
  BY <1>1, BuySizeType
<1> HIDE DEF n, byOrder, byPosition, byReserve
<1>12. n <= byOrder /\ n <= byReserve
  BY <1>9, <1>10, MinOfFourBounds
<1> DEFINE worst == n * (price + FeePerShare * Parts) + FeePerOrder * Parts
<1>13. worst <= MaxOrder * Parts
  BY <1>2, <1>3, <1>11, <1>12, SharesFit DEF byOrder
<1>14. worst <= cash * Parts - Equity * MinReserve
  BY <1>2, <1>6, <1>11, <1>12, SharesFit DEF byReserve
<1>15. worst = Worst(n, close)
  BY DEF Worst, price
<1>16. worst \in Int
  BY <1>2, <1>3, <1>11
<1> HIDE DEF worst
<1>17. worst <= cash * Parts
  BY <1>6, <1>14, <1>16
<1> QED BY <1>13, <1>15, <1>17 DEF n

\* A decision submits only buys that fit.
LEMMA DecideSized ==
  ASSUME SizedInv, NEW signal \in Targets, Decide(signal)
  PROVE  SizedInv'
<1> DEFINE delta == (Equity * EffectiveTarget(signal)) \div (close * Parts) - quantity
           side == IF delta > 0 THEN "buy" ELSE "sell"
           wanted == IF delta > 0 THEN delta ELSE -delta
           stopped == halted \/ Breaker
           approved == Approved(side, wanted, stopped)
           order == [side |-> side, quantity |-> approved, reference |-> close, at |-> now]
<1>0. /\ SimInv /\ Kinds /\ phase = "decide" /\ pending = {} /\ arrived = {} /\ arrived' = {}
      /\ cash' = cash /\ close # 0
  BY DEF Decide, SizedInv, SimInv, Kinds, OneOrder, portfolioVars
<1>1. SimInv'
  BY <1>0, DecideSim
<1>2. pending' = {} \/ (~(delta = 0 \/ approved <= 0) /\ pending' = {order})
  BY <1>0 DEF Decide
<1>3. delta \in Int
  <2>1. /\ close \in Nat \ {0} /\ quantity \in Nat /\ cash \in Int
    BY <1>0 DEF Kinds
  <2>2. Equity \in Int /\ close * Parts \in Nat \ {0} /\ EffectiveTarget(signal) \in Int
    BY <2>1, PositiveProduct DEF Equity, EffectiveTarget
  <2>3. Equity * EffectiveTarget(signal) \in Int
    BY <2>2
  <2> QED BY <2>1, <2>2, <2>3
<1>4. ASSUME side = "buy", ~(approved <= 0)
      PROVE  /\ Worst(approved, close) <= MaxOrder * Parts
             /\ Worst(approved, close) <= cash * Parts
  <2>1. wanted \in Int
    BY <1>3
  <2> HIDE DEF wanted, side
  <2>2. stopped \/ ~stopped
    OBVIOUS
  <2>3. ~stopped /\ approved = BuySize(wanted)
    BY <1>4, <2>2 DEF Approved
  <2>4. Equity > 0
    <3>1. ~(Equity <= 0)
      BY <2>3, Zenon DEF Breaker
    <3>2. Equity \in Int
      BY <1>0 DEF Kinds, Equity
    <3> QED BY <3>1, <3>2
  <2>5. BuySize(wanted) \in Int
    BY <1>0, <2>1, BuySizeType
  <2> HIDE DEF approved
  <2>6. BuySize(wanted) > 0
    BY <1>4, <2>3, <2>5
  <2> QED BY <1>0, <2>1, <2>3, <2>4, <2>6, BuySizeFits
<1> HIDE DEF delta, side, approved
<1>5. \A x \in pending' \cup arrived' :
        x.side = "buy" => /\ Worst(x.quantity, x.reference) <= MaxOrder * Parts
                          /\ Worst(x.quantity, x.reference) <= cash * Parts
  BY <1>0, <1>2, <1>4
<1>6. \A x \in pending' \cup arrived' :
        x.side = "buy" => /\ Worst(x.quantity, x.reference) <= MaxOrder * Parts
                          /\ Worst(x.quantity, x.reference) <= cash' * Parts
  BY <1>0, <1>5
<1> QED BY <1>1, <1>6 DEF SizedInv

\* A new event only turns the orders into fills of the same size and
\* reference.
LEMMA MarketEventSized ==
  ASSUME SizedInv, NEW t \in 1 .. MaxTime, NEW o \in Prices, NEW c \in Prices,
         MarketEvent(t, o, c)
  PROVE  SizedInv'
<1>1. SimInv'
  BY MarketEventSim DEF SizedInv
<1>2. cash' = cash /\ arrived = {}
  BY DEF MarketEvent, SizedInv, SimInv, OneOrder, portfolioVars
<1>3. \A x \in pending' \cup arrived' : \E y \in pending :
        x.side = y.side /\ x.quantity = y.quantity /\ x.reference = y.reference
  BY <1>2 DEF MarketEvent, FillOf
<1> QED BY <1>1, <1>2, <1>3 DEF SizedInv

\* Every step preserves the sizing.
LEMMA NextSized == SizedInv /\ [Next]_vars => SizedInv'
<1> SUFFICES ASSUME SizedInv, [Next]_vars PROVE SizedInv'
  OBVIOUS
<1>1. SimInv'
  BY NextSim DEF SizedInv
<1>2. ASSUME NEW fill \in arrived, ApplyFill(fill) PROVE SizedInv'
  <2>1. arrived' = {} /\ pending' = {}
    BY <1>2 DEF ApplyFill, SizedInv, SimInv, OneOrder
  <2> QED BY <1>1, <2>1 DEF SizedInv
<1>3. ASSUME cash' = cash, arrived' = arrived, pending' \in {pending, {}} PROVE SizedInv'
  BY <1>1, <1>3 DEF SizedInv
<1>4. ASSUME UNCHANGED vars \/ (\E t \in 1 .. MaxTime : RejectEvent(t)) \/ Finish \/ Stopped
             \/ Observe
      PROVE  cash' = cash /\ arrived' = arrived /\ pending' \in {pending, {}}
  BY <1>4 DEF RejectEvent, Finish, Stopped, Observe, vars, portfolioVars
<1> QED
  BY <1>2, <1>3, <1>4, MarketEventSized, DecideSized DEF Next, Proceed

\* A fill that is no dearer than the conservative price costs no more than
\* a bound on the worst case.
LEMMA WorstBounds ==
  ASSUME NEW fill \in Fills, fill.price * Parts <= ConservativePrice(fill.reference),
         NEW bound \in Int, Worst(fill.quantity, fill.reference) <= bound * Parts
  PROVE  Notional(fill) + Fee(fill.quantity) <= bound
<1> DEFINE n == fill.quantity
           price == fill.price
           dear == ConservativePrice(fill.reference)
           cost == price * n + (FeePerOrder + FeePerShare * n)
<1>1. /\ n \in Nat \ {0} /\ price \in Nat \ {0} /\ dear \in Nat
      /\ price * Parts <= dear
  BY DEF Fills, ConservativePrice
<1>2. cost = Notional(fill) + Fee(n)
  BY DEF Notional, Fee
<1>3. n * (dear + FeePerShare * Parts) + FeePerOrder * Parts <= bound * Parts
  BY DEF Worst
<1> HIDE DEF n, price, dear
<1>4. cost \in Int
  BY <1>1
<1>5. cost * Parts = n * (price * Parts + FeePerShare * Parts) + FeePerOrder * Parts
  BY <1>1
<1>6. n * (price * Parts + FeePerShare * Parts) <= n * (dear + FeePerShare * Parts)
  <2> DEFINE u == price * Parts + FeePerShare * Parts
             v == dear + FeePerShare * Parts
  <2>1. u \in Int /\ v \in Int /\ u <= v
    BY <1>1
  <2> HIDE DEF u, v
  <2>2. n * u <= n * v
    BY <1>1, <2>1
  <2> QED BY <2>2 DEF u, v
<1>7. cost * Parts <= bound * Parts
  <2> DEFINE a == n * (price * Parts + FeePerShare * Parts)
             b == n * (dear + FeePerShare * Parts)
             f == FeePerOrder * Parts
             g == bound * Parts
  <2>1. a \in Int /\ b \in Int /\ f \in Int /\ g \in Int
    BY <1>1
  <2> HIDE DEF a, b, f, g
  <2>2. a <= b /\ b + f <= g /\ cost * Parts = a + f
    BY <1>3, <1>5, <1>6 DEF a, b, f, g
  <2> QED BY <2>1, <2>2 DEF g
<1> HIDE DEF cost
<1>8. cost <= bound
  <2> SUFFICES ASSUME cost >= bound + 1 PROVE FALSE
    BY <1>4
  <2>1. cost * Parts >= (bound + 1) * Parts
    BY <1>4
  <2>2. (bound + 1) * Parts = bound * Parts + Parts /\ bound * Parts \in Int /\ cost * Parts \in Int
    BY <1>4
  <2> QED BY <1>7, <2>1, <2>2
<1> QED BY <1>2, <1>8 DEF n

\* evaluate sizes a buy one event before it is filled, at a price it does
\* not know; nothing between the two takes the cash it counted on, so a fill
\* within the conservative price is paid for and stays within the order
\* limit.
THEOREM SizingKept == Spec => BoundedBuyAccepted
<1> DEFINE Promise ==
      \A fill \in arrived \ arrived' :
        fill.side = "buy" /\ fill.price * Parts <= ConservativePrice(fill.reference)
        => /\ rejected' = rejected
           /\ Notional(fill) + Fee(fill.quantity) <= MaxOrder
<1>1. Init => SizedInv
  BY InitSim DEF Init, SizedInv
<1>2. SizedInv /\ [Next]_vars => [Promise]_vars
  <2> SUFFICES ASSUME SizedInv, Next PROVE Promise
    OBVIOUS
  <2> SUFFICES ASSUME NEW fill \in arrived \ arrived', fill.side = "buy",
                      fill.price * Parts <= ConservativePrice(fill.reference)
               PROVE  rejected' = rejected /\ Notional(fill) + Fee(fill.quantity) <= MaxOrder
    OBVIOUS
  <2>1. /\ fill \in Fills /\ cash \in Int
        /\ Worst(fill.quantity, fill.reference) <= MaxOrder * Parts
        /\ Worst(fill.quantity, fill.reference) <= cash * Parts
    BY DEF SizedInv, SimInv, Kinds
  <2>2. /\ Notional(fill) + Fee(fill.quantity) <= MaxOrder
        /\ Notional(fill) + Fee(fill.quantity) <= cash
    BY <2>1, WorstBounds
  <2>3. Notional(fill) \in Int /\ Fee(fill.quantity) \in Int
    BY <2>1 DEF Fills, Notional, Fee
  <2>4. \E x \in arrived : ApplyFill(x)
    BY DEF Next, Proceed, MarketEvent, RejectEvent, Observe, Decide, Finish, Stopped, vars,
      SizedInv, SimInv, OneOrder
  <2>5. ApplyFill(fill)
    BY <2>4 DEF SizedInv, SimInv, OneOrder
  <2>6. Affordable(fill)
    BY <2>2 DEF Affordable
  <2>7. cash' = cash - Notional(fill) - Fee(fill.quantity) /\ Settle(fill)
    BY <2>5, <2>6 DEF ApplyFill, Buy
  <2>8. ~(cash' < 0)
    BY <2>1, <2>2, <2>3, <2>7
  <2> QED BY <2>2, <2>7, <2>8 DEF Settle
<1> QED BY <1>1, <1>2, NextSized, PTL DEF Spec, BoundedBuyAccepted

-----------------------------------------------------------------------------
(* The report *)

\* The report starts without trades.
LEMMA InitReport == ReportInit => ReportInv
<1> SUFFICES ASSUME ReportInit PROVE ReportInv
  OBVIOUS
<1>1. trade \in Trades /\ trade.quantity = 0 /\ trade.entered = trade.left + trade.quantity
  BY DEF ReportInit, NoTrade, Trades
<1>2. closed \in [count : Nat, gross : Int, fees : Int] /\ closed.gross = 0 /\ closed.fees = 0
  BY DEF ReportInit
<1>3. trade.fees = 0 /\ trade.cost = 0 /\ trade.proceeds = 0
  BY DEF ReportInit, NoTrade
<1> QED BY <1>1, <1>2, <1>3 DEF ReportInit, Init, ReportInv

\* What apply_fill and the engine's count of rejected fills do to the
\* variables that the report is compared with, by the outcome of a fill.
LEMMA FillOutcome ==
  ASSUME SimInv, rejected \in Nat, NEW fill \in arrived, ApplyFill(fill)
  PROVE  /\ fill.quantity \in Nat \ {0} /\ Notional(fill) \in Int /\ Fee(fill.quantity) \in Nat
         /\ rejected' \in Nat
         /\ \/ rejected' = rejected + 1 /\ quantity' \in Nat /\ quantity' <= quantity
            \/ /\ rejected' = rejected /\ fill.side = "buy"
               /\ Buy(fill) /\ fees' = fees + Fee(fill.quantity)
            \/ /\ rejected' = rejected /\ fill.side # "buy" /\ fill.quantity <= quantity
               /\ Sell(fill) /\ fees' = fees + Fee(fill.quantity)
               /\ ReleasedCost(fill.quantity) \in Int
<1>1. /\ fill.quantity \in Nat \ {0} /\ fill.price \in Nat \ {0} /\ fill.side \in Sides
      /\ Notional(fill) \in Int /\ Fee(fill.quantity) \in Nat
  <2>1. fill \in Fills
    BY DEF SimInv, Kinds
  <2> QED BY <2>1 DEF Fills, Notional, Fee
<1>2. cash \in Int /\ quantity \in Nat /\ basis \in Int
  BY DEF SimInv, Kinds
<1>3. CASE ~Affordable(fill)
  BY <1>1, <1>2, <1>3 DEF ApplyFill, portfolioVars
<1>4. CASE Affordable(fill) /\ fill.side = "buy"
  <2>1. Buy(fill) /\ fees' = fees + Fee(fill.quantity) /\ Settle(fill)
    BY <1>4 DEF ApplyFill
  <2>2. ~(cash' < 0)
    BY <1>1, <1>2, <1>4, <2>1 DEF Buy, Affordable
  <2>3. rejected' = rejected
    BY <2>1, <2>2 DEF Settle
  <2> QED BY <1>1, <1>4, <2>1, <2>3
<1>5. CASE Affordable(fill) /\ fill.side # "buy"
  <2>1. Sell(fill) /\ fees' = fees + Fee(fill.quantity) /\ Settle(fill)
    BY <1>5 DEF ApplyFill
  <2>2. fill.quantity <= quantity
    BY <1>5 DEF Affordable
  <2>3. ReleasedCost(fill.quantity) \in Int
    <3>1. quantity \in Nat \ {0} /\ basis * fill.quantity \in Int
      BY <1>1, <1>2, <2>2
    <3> QED BY <1>2, <3>1, QuantizeType DEF ReleasedCost
  <2>4. rejected' = rejected + 1 \/ rejected' = rejected
    BY <2>1 DEF Settle
  <2>5. quantity' \in Nat /\ quantity' <= quantity
    BY <1>1, <1>2, <2>1, <2>2 DEF Sell
  <2> QED BY <1>1, <1>5, <2>1, <2>2, <2>3, <2>4, <2>5
<1> QED BY <1>3, <1>4, <1>5

\* A fill takes the loop of _round_trip_trades and the portfolio on together.
LEMMA FillReport ==
  ASSUME SimInv, ReportInv, NEW fill \in arrived, ApplyFill(fill), Reported(fill)
  PROVE  ReportInv'
<1>1. /\ fill.quantity \in Nat \ {0} /\ Notional(fill) \in Int /\ Fee(fill.quantity) \in Nat
      /\ rejected \in Nat /\ rejected' \in Nat
  BY FillOutcome DEF ReportInv
<1>2. /\ quantity \in Nat /\ basis \in Int /\ realized \in Int /\ fees \in Int
  BY DEF SimInv, Kinds
<1>3. CASE rejected' = rejected + 1 /\ quantity' \in Nat /\ quantity' <= quantity
  <2>1. UNCHANGED reportVars
    BY <1>1, <1>3 DEF Reported
  <2>2. trade.quantity \in Nat /\ trade.quantity >= quantity
    BY DEF ReportInv, Trades
  <2>3. rejected' # 0 /\ trade.quantity >= quantity'
    BY <1>1, <1>2, <1>3, <2>2
  <2> QED BY <1>1, <2>1, <2>3 DEF ReportInv, reportVars
<1>4. CASE /\ rejected' = rejected /\ fill.side = "buy"
           /\ Buy(fill) /\ fees' = fees + Fee(fill.quantity)
  <2>1. Entry(fill)
    BY <1>1, <1>4 DEF Reported
  <2>2. /\ trade.quantity \in Nat /\ trade.entered \in Nat /\ trade.left \in Nat
        /\ trade.cost \in Int /\ trade.proceeds \in Int /\ trade.fees \in Int
    BY DEF ReportInv, Trades
  <2>3. /\ trade' \in Trades /\ trade'.quantity = trade.quantity + fill.quantity
        /\ trade'.entered = trade'.left + trade'.quantity
        /\ trade'.cost = trade.cost + Notional(fill) /\ trade'.proceeds = trade.proceeds
        /\ trade'.fees = trade.fees + Fee(fill.quantity)
    BY <1>1, <2>1, <2>2 DEF Entry, Trades, ReportInv
  <2>4. /\ quantity' = quantity + fill.quantity /\ basis' = basis + Notional(fill)
        /\ realized' = realized
    BY <1>4 DEF Buy
  <2>5. closed \in [count : Nat, gross : Int, fees : Int] /\ UNCHANGED <<closed, impossible>>
    BY <2>1 DEF Entry, ReportInv
  <2>6. trade'.quantity # 0 /\ trade'.quantity >= quantity'
    BY <1>1, <1>2, <2>2, <2>3, <2>4 DEF ReportInv
  <2>7. rejected' = 0 =>
          /\ trade'.quantity = quantity'
          /\ closed'.fees + trade'.fees = fees'
          /\ closed'.gross + trade'.proceeds - trade'.cost + basis' = realized'
    BY <1>1, <1>2, <1>4, <2>2, <2>3, <2>4, <2>5 DEF ReportInv
  <2> QED BY <1>1, <2>3, <2>5, <2>6, <2>7 DEF ReportInv
<1>5. CASE /\ rejected' = rejected /\ fill.side # "buy" /\ fill.quantity <= quantity
           /\ Sell(fill) /\ fees' = fees + Fee(fill.quantity)
           /\ ReleasedCost(fill.quantity) \in Int
  <2> DEFINE rest == Reduced(fill)
  <2>1. /\ trade.quantity \in Nat /\ trade.entered \in Nat /\ trade.left \in Nat
        /\ trade.cost \in Int /\ trade.proceeds \in Int /\ trade.fees \in Int
        /\ trade.quantity >= quantity /\ trade.entered = trade.left + trade.quantity
        /\ closed.count \in Nat /\ closed.gross \in Int /\ closed.fees \in Int
    BY DEF ReportInv, Trades
  <2>2. /\ rest \in Trades /\ rest.quantity = trade.quantity - fill.quantity
        /\ rest.cost = trade.cost /\ rest.proceeds = trade.proceeds + Notional(fill)
        /\ rest.fees = trade.fees + Fee(fill.quantity)
        /\ rest.entered = rest.left + rest.quantity
        /\ rest.quantity = 0 => rest.entered = rest.left
        /\ ~(fill.quantity > trade.quantity)
    BY <1>1, <1>2, <1>5, <2>1 DEF Reduced, Trades
  <2>3. /\ quantity' = quantity - fill.quantity
        /\ basis' = basis - ReleasedCost(fill.quantity)
        /\ realized' = realized + Notional(fill) - ReleasedCost(fill.quantity)
    BY <1>5 DEF Sell
  <2>4. Exit(fill)
    BY <1>1, <1>5 DEF Reported
  <2>5. /\ trade' = IF rest.quantity = 0 THEN NoTrade ELSE rest
        /\ closed' = IF rest.quantity = 0 THEN Completed(rest) ELSE closed
        /\ impossible' = impossible
    BY <2>2, <2>4 DEF Exit
  <2> HIDE DEF rest
  <2>6. /\ rest.quantity \in Nat /\ rest.cost \in Int /\ rest.proceeds \in Int
        /\ rest.fees \in Int
    BY <2>2 DEF Trades
  <2>7. CASE rest.quantity = 0
    <3>1. /\ closed' \in [count : Nat, gross : Int, fees : Int]
          /\ closed'.gross = closed.gross + rest.proceeds - rest.cost
          /\ closed'.fees = closed.fees + rest.fees
      BY <2>1, <2>5, <2>6, <2>7 DEF Completed
    <3>2. /\ trade' = NoTrade /\ NoTrade \in Trades /\ NoTrade.quantity = 0
          /\ NoTrade.entered = NoTrade.left + NoTrade.quantity
          /\ NoTrade.cost = 0 /\ NoTrade.proceeds = 0 /\ NoTrade.fees = 0
      BY <2>5, <2>7 DEF NoTrade, Trades
    <3>3. quantity' = 0
      BY <1>1, <1>2, <1>5, <2>1, <2>2, <2>3, <2>7
    <3>4. rejected' = 0 =>
            /\ closed'.fees + trade'.fees = fees'
            /\ closed'.gross + trade'.proceeds - trade'.cost + basis' = realized'
      BY <1>1, <1>2, <1>5, <2>1, <2>2, <2>3, <2>6, <3>1, <3>2 DEF ReportInv
    <3> QED BY <1>1, <2>5, <3>1, <3>2, <3>3, <3>4 DEF ReportInv
  <2>8. CASE rest.quantity # 0
    <3>1. rest.quantity >= quantity'
      BY <1>1, <1>2, <2>1, <2>2, <2>3
    <3>2. rejected' = 0 =>
            /\ rest.quantity = quantity'
            /\ closed.fees + rest.fees = fees'
            /\ closed.gross + rest.proceeds - rest.cost + basis' = realized'
      BY <1>1, <1>2, <1>5, <2>1, <2>2, <2>3, <2>6 DEF ReportInv
    <3> QED BY <1>1, <2>2, <2>5, <2>8, <3>1, <3>2 DEF ReportInv
  <2> QED BY <2>7, <2>8
<1> QED BY <1>3, <1>4, <1>5, FillOutcome DEF ReportInv

\* Every other step leaves the report and the portfolio alone.
LEMMA NextReport ==
  SimInv /\ ReportInv /\ [ReportNext]_<<vars, reportVars>> => ReportInv'
<1> SUFFICES ASSUME SimInv, ReportInv, [ReportNext]_<<vars, reportVars>> PROVE ReportInv'
  OBVIOUS
<1>1. CASE UNCHANGED <<vars, reportVars>>
  BY <1>1 DEF vars, portfolioVars, reportVars, ReportInv
<1>2. CASE Proceed /\ UNCHANGED reportVars
  <2>1. UNCHANGED <<portfolioVars, rejected>>
    BY <1>2 DEF Proceed, MarketEvent, RejectEvent, Observe, Decide, Finish, Stopped, vars
  <2> QED BY <1>2, <2>1 DEF portfolioVars, reportVars, ReportInv
<1> QED BY <1>1, <1>2, FillReport DEF ReportNext

\* A reported run is a run of the engine: the report only watches.
THEOREM ReportWatches == ReportSpec => Spec
<1>1. ReportInit => Init
  BY DEF ReportInit
<1>2. [ReportNext]_<<vars, reportVars>> => [Next]_vars
  BY DEF ReportNext, Next
<1> QED BY <1>1, <1>2, PTL DEF ReportSpec, Spec

\* The metrics of every run are consistent with the portfolio: no impossible
\* sale is found, and without a rejected fill the open trade holds the
\* position and, when flat, the trades account for all realized profit.
THEOREM ReportConsistent == ReportSpec => []ReportAgrees
<1>1. SimInv /\ ReportInv => ReportAgrees
  <2> SUFFICES ASSUME SimInv, ReportInv PROVE ReportAgrees
    OBVIOUS
  <2>1. /\ quantity \in Nat /\ basis \in Int /\ realized \in Int
        /\ quantity = 0 => basis = 0
    BY DEF SimInv, Kinds, AccountingIdentity
  <2> QED BY <2>1 DEF ReportInv, ReportAgrees, NoTrade
<1> QED BY <1>1, InitReport, NextReport, ReportWatches, SimulationInvariant, PTL DEF ReportSpec
=============================================================================
