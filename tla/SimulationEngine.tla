--------------------------- MODULE SimulationEngine ---------------------------
(***************************************************************************)
(* SimulationEngine.run with the parts it drives: the replay clock, the    *)
(* simulated broker, the portfolio and the risk manager.  One symbol, as   *)
(* in every run of the program.  The loop body of run is four actions      *)
(* taken in turn: MarketEvent, ApplyFill, Observe, Decide.                 *)
(*                                                                         *)
(* Money is an integer number of the smallest unit the broker quantizes    *)
(* to; basis points and risk fractions are numbers of 1/Parts.  In place   *)
(* of the average price the model keeps the cost basis, average price      *)
(* times quantity.  The share of it that a partial sale releases is        *)
(* rounded to a unit, where the code rounds at the 28th digit.             *)
(* An intent's ID contains the timestamp of its event and there is one     *)
(* intent per event, so the duplicate checks of the risk manager and of    *)
(* the broker never fire and the sets they consult are left out, and       *)
(* pending orders and fills are sets: two of them differ in their at.      *)
(***************************************************************************)
EXTENDS Integers, FiniteSetsExt

CONSTANTS InitialCash, Prices, Targets,
          Slippage, Buffer, FeePerOrder, FeePerShare,
          MaxPosition, MaxOrder, MinReserve, MaxDrawdown, MaxLoss,
          Parts,       \* denominator of basis points and fractions
          EvalStart,   \* evaluation_start
          MaxTime      \* bound on the timestamps of the replayed events

ASSUME SimulationConstants ==
  /\ InitialCash \in Nat \ {0} /\ Prices \subseteq Nat \ {0}
  /\ Parts \in Nat \ {0} /\ Targets \subseteq 0 .. Parts
  /\ Slippage \in Nat /\ Buffer \in Nat /\ FeePerOrder \in Nat /\ FeePerShare \in Nat
  /\ {MaxPosition, MinReserve, MaxDrawdown} \subseteq 1 .. (Parts - 1)
  /\ MaxOrder \in Nat \ {0} /\ MaxLoss \in Nat \ {0}
  /\ EvalStart \in Nat /\ MaxTime \in Nat

VARIABLES
  now,       \* ReplayClock.current, 0 before the first event
  phase,     \* where the loop is
  close,     \* close of the current event
  pending,   \* SimulatedBroker._pending
  arrived,   \* fills of this event not yet applied
  cash, quantity, basis, realized, fees,   \* Portfolio
  rejected,  \* rejected_fill_count
  peak,      \* RiskManager.peak_equity
  halted     \* RiskManager.halted

portfolioVars == <<cash, quantity, basis, realized, fees>>
riskVars == <<peak, halted>>
eventVars == <<now, close>>
vars == <<eventVars, phase, pending, arrived, portfolioVars, rejected, riskVars>>

Sides == {"buy", "sell"}
Orders == [side : Sides, quantity : Nat \ {0}, reference : Nat \ {0}, at : Nat \ {0}]
Fills == [side : Sides, quantity : Nat \ {0}, reference : Nat \ {0}, at : Nat \ {0},
          price : Nat \ {0}]

\* Every field has a value of its kind; the position is never short.
TypeOK ==
  /\ now \in Nat
  /\ phase \in {"market", "fills", "decide", "done", "failed"}
  /\ close \in Nat
  /\ pending \subseteq Orders /\ arrived \subseteq Fills
  /\ cash \in Int /\ quantity \in Nat /\ basis \in Nat /\ realized \in Int /\ fees \in Nat
  /\ rejected \in Nat
  /\ peak \in Nat /\ halted \in BOOLEAN

Init ==
  /\ now = 0 /\ phase = "market" /\ close = 0
  /\ pending = {} /\ arrived = {}
  /\ cash = InitialCash /\ quantity = 0 /\ basis = 0 /\ realized = 0 /\ fees = 0
  /\ rejected = 0
  /\ peak = 0 /\ halted = FALSE

InEvaluation == now >= EvalStart

-----------------------------------------------------------------------------
(* The simulated broker *)

\* n / d rounded half to even, as Decimal.quantize does.
Quantize(n, d) ==
  LET whole == n \div d
      twice == 2 * (n % d)
  IN  IF twice > d \/ (twice = d /\ whole % 2 = 1) THEN whole + 1 ELSE whole

FillPrice(side, price) ==
  Quantize(price * (IF side = "buy" THEN Parts + Slippage ELSE Parts - Slippage), Parts)

Fee(n) == FeePerOrder + FeePerShare * n

FillOf(order, price) ==
  [side |-> order.side, quantity |-> order.quantity, reference |-> order.reference,
   at |-> order.at, price |-> FillPrice(order.side, price)]

Eligible(order, t) == t > order.at

\* The next event of the stream: the clock advances and the broker fills
\* the eligible orders at its open.  A fill price that is not positive, also
\* once quantized, ends the run.
MarketEvent(t, o, c) ==
  /\ phase = "market"
  /\ t > now
  /\ now' = t /\ close' = c
  /\ LET due == {order \in pending : Eligible(order, t)}
         found == {FillOf(order, o) : order \in due}
     IN  IF \E fill \in found : fill.price <= 0
         THEN phase' = "failed" /\ UNCHANGED <<pending, arrived>>
         ELSE phase' = "fills" /\ arrived' = found /\ pending' = pending \ due
  /\ UNCHANGED <<portfolioVars, rejected, riskVars>>

\* ReplayClock.advance refuses a timestamp that does not increase; the
\* adjusted-close check ends the run at the same place.
RejectEvent(t) ==
  /\ phase = "market"
  /\ t <= now
  /\ phase' = "failed"
  /\ UNCHANGED <<eventVars, pending, arrived, portfolioVars, rejected, riskVars>>

-----------------------------------------------------------------------------
(* The portfolio *)

Equity == cash + close * quantity

MutReleasedCost(n) == basis * n

\* Cost basis of n of the shares held.
ReleasedCost(n) == IF n = quantity THEN basis ELSE Quantize(basis * n, quantity)

Notional(fill) == fill.price * fill.quantity

\* The early checks of apply_fill, which raise before anything is assigned.
Affordable(fill) ==
  IF fill.side = "buy" THEN Notional(fill) + Fee(fill.quantity) <= cash
                       ELSE fill.quantity <= quantity

MutSell(fill) ==
  /\ quantity' = quantity - fill.quantity
  /\ basis' = basis - ReleasedCost(fill.quantity)
  /\ realized' = realized + Notional(fill) - ReleasedCost(fill.quantity) - Fee(fill.quantity)
  /\ cash' = cash + Notional(fill) - Fee(fill.quantity)

Buy(fill) ==
  /\ quantity' = quantity + fill.quantity
  /\ basis' = basis + Notional(fill)
  /\ cash' = cash - Notional(fill) - Fee(fill.quantity)
  /\ UNCHANGED realized

Sell(fill) ==
  /\ quantity' = quantity - fill.quantity
  /\ basis' = basis - ReleasedCost(fill.quantity)
  /\ realized' = realized + Notional(fill) - ReleasedCost(fill.quantity)
  /\ cash' = cash + Notional(fill) - Fee(fill.quantity)

-----------------------------------------------------------------------------
(* The risk manager *)

\* RiskManager.observe at the equity of the snapshot.
NewPeak == Max({peak, Equity})

Breaker ==
  \/ Equity <= 0
  \/ realized - fees <= -MaxLoss
  \/ NewPeak > 0 /\ (NewPeak - Equity) * Parts >= MaxDrawdown * NewPeak

\* RiskManager.observe_fill after the fill was applied: c and n are the cash
\* and the quantity it left.
PostFillBreach(fill, c, n) ==
  /\ fill.side = "buy"
  /\ LET value == n * fill.price
         equity == c + value
     IN  \/ Notional(fill) + Fee(fill.quantity) > MaxOrder
         \/ value > 0 /\ equity <= 0
         \/ value > 0 /\ equity > 0 /\ value * Parts > MaxPosition * equity
         \/ value > 0 /\ equity > 0 /\ c * Parts < equity * MinReserve

\* Amounts below are multiplied by Parts, so that nothing is rounded before
\* the final floor.
ConservativePrice(reference) == reference * (Parts + Slippage + Buffer)

SharesForValue(value, price) == IF value <= 0 THEN 0 ELSE value \div price

MutSharesForTotalCost(value, price) == SharesForValue(value, price)

SharesForTotalCost(value, price) ==
  SharesForValue(value - FeePerOrder * Parts, price + FeePerShare * Parts)

\* The largest quantity within all three limits at the conservative price.
BuySize(wanted) ==
  LET price == ConservativePrice(close)
      byOrder == SharesForTotalCost(MaxOrder * Parts, price)
      byPosition == SharesForValue(Equity * MaxPosition - quantity * price, price)
      byReserve == SharesForTotalCost(cash * Parts - Equity * MinReserve, price)
  IN  Min({wanted, byOrder, byPosition, byReserve})

MutApproved(side, wanted, stopped) ==
  IF side = "sell" THEN Min({wanted, quantity}) ELSE BuySize(wanted)

\* The quantity evaluate approves for an intent; 0 is a denial.
Approved(side, wanted, stopped) ==
  CASE side = "sell" -> Min({wanted, quantity})
    [] side = "buy" /\ stopped -> 0
    [] side = "buy" /\ ~stopped -> BuySize(wanted)

-----------------------------------------------------------------------------
(* The rest of the loop *)

\* The end of apply_fill, once everything is assigned: _validate_state
\* refuses negative cash, and an accepted fill goes to observe_fill.
Settle(fill) ==
  IF cash' < 0
  THEN rejected' = rejected + 1 /\ halted' = TRUE
  ELSE /\ halted' = (halted \/ PostFillBreach(fill, cash', quantity'))
       /\ UNCHANGED rejected

\* apply_fill for a fill of this event; a refused fill halts.
ApplyFill(fill) ==
  /\ phase = "fills"
  /\ fill \in arrived
  /\ IF ~Affordable(fill)
     THEN rejected' = rejected + 1 /\ halted' = TRUE /\ UNCHANGED portfolioVars
     ELSE /\ IF fill.side = "buy" THEN Buy(fill) ELSE Sell(fill)
          /\ fees' = fees + Fee(fill.quantity)
          /\ Settle(fill)
  /\ arrived' = arrived \ {fill}
  /\ UNCHANGED <<eventVars, phase, pending, peak>>

\* The equity snapshot and the circuit breakers, once the fills are applied.
Observe ==
  /\ phase = "fills"
  /\ arrived = {}
  /\ peak' = NewPeak
  /\ halted' = (halted \/ Breaker)
  /\ phase' = IF InEvaluation THEN "decide" ELSE "market"
  /\ UNCHANGED <<eventVars, pending, arrived, portfolioVars, rejected>>

MutEffectiveTarget(target) == target

\* The override that takes a halted position to cash.
EffectiveTarget(target) == IF halted /\ quantity > 0 THEN 0 ELSE target

\* order_for_target, evaluate (which observes again) and submit.
Decide(signal) ==
  /\ phase = "decide"
  /\ LET delta == (Equity * EffectiveTarget(signal)) \div (close * Parts) - quantity
         side == IF delta > 0 THEN "buy" ELSE "sell"
         wanted == IF delta > 0 THEN delta ELSE -delta
         stopped == halted \/ Breaker
         approved == Approved(side, wanted, stopped)
     IN  /\ halted' = IF delta = 0 THEN halted ELSE stopped
         /\ peak' = IF delta = 0 THEN peak ELSE NewPeak
         /\ pending' = IF delta = 0 \/ approved <= 0 THEN pending
                       ELSE pending \cup {[side |-> side, quantity |-> approved,
                                          reference |-> close, at |-> now]}
  /\ phase' = "market"
  /\ UNCHANGED <<eventVars, arrived, portfolioVars, rejected>>

\* The stream ends: no evaluated event is an error, and otherwise the orders
\* still pending are cancelled.
Finish ==
  /\ phase = "market"
  /\ IF now > 0 /\ InEvaluation
     THEN phase' = "done" /\ pending' = {}
     ELSE phase' = "failed" /\ UNCHANGED pending
  /\ UNCHANGED <<eventVars, arrived, portfolioVars, rejected, riskVars>>

Stopped == phase \in {"done", "failed"} /\ UNCHANGED vars

\* Every step but the application of a fill.
Proceed ==
  \/ \E t \in 1 .. MaxTime, o, c \in Prices : MarketEvent(t, o, c)
  \/ \E t \in 1 .. MaxTime : RejectEvent(t)
  \/ Observe
  \/ \E target \in Targets : Decide(target)
  \/ Finish
  \/ Stopped

Next == Proceed \/ \E fill \in arrived : ApplyFill(fill)

Spec == Init /\ [][Next]_vars

-----------------------------------------------------------------------------
(* Properties *)

\* Money is neither made nor lost by apply_fill: what is held in cash and at
\* cost is the initial cash plus realized profit minus fees, also after a
\* rejected fill; and a flat position has no cost left.
AccountingIdentity ==
  /\ cash + basis = InitialCash + realized - fees
  /\ quantity = 0 => basis = 0

\* Negative cash, which a sale's fee can cause, never goes unnoticed: the
\* run is halted from the same fill on.
NegativeCashHalts == cash < 0 => halted

\* "An emergency halt must not trap an existing position" (SAFETY.md):
\* between events of the evaluation a halted position has exactly one order
\* pending, the sale of all of it.
HaltedExitPending ==
  phase = "market" /\ halted /\ quantity > 0 =>
    pending = {[side |-> "sell", quantity |-> quantity, reference |-> close, at |-> now]}

\* A halt stops new exposure at once: no buy is filled in a run that is
\* already halted, although orders are filled an event after their approval.
NoBuyWhileHalted == [][quantity' > quantity => ~halted]_vars

\* The conservative sizing of evaluate keeps its promise one event later: a
\* buy filled no higher than its conservative price is never refused for
\* lack of cash and never exceeds the order commitment.
BoundedBuyAccepted ==
  [][\A fill \in arrived \ arrived' :
       fill.side = "buy" /\ fill.price * Parts <= ConservativePrice(fill.reference)
       => /\ rejected' = rejected
          /\ Notional(fill) + Fee(fill.quantity) <= MaxOrder]_vars
=============================================================================
