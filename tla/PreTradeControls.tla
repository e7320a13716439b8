--------------------------- MODULE PreTradeControls ---------------------------
(***************************************************************************)
(* PaperPreTradeController.assess and evaluate_paper_pretrade: the limits  *)
(* that decide whether one more paper order may be sent, over a sequence   *)
(* of orders that go on filling and expiring at the broker.                *)
(*                                                                         *)
(* One executor runs at a time: an order is resolved before the next one   *)
(* is assessed (PaperExecution).  Every share costs one unit and prices do *)
(* not move.  Each read of the assessment is a step of its own; time       *)
(* passes and the broker trades between them.                              *)
(***************************************************************************)
EXTENDS Integers, FiniteSets, FiniteSetsExt, Functions

CONSTANTS Symbols, Sizes,
          Equities,       \* what the account may be worth at the start, all cash
          MaxOrder,       \* max_order_notional
          GrossPct,       \* 100 * max_gross_exposure_fraction
          SymbolPct,      \* 100 * max_symbol_exposure_fraction
          MinReserve,     \* minimum_cash_reserve
          ReservePct,     \* 100 * minimum_cash_reserve_fraction
          MaxOpen,        \* max_open_owned_orders
          MaxPerWindow, Window,
          MaxPerSession, SessionOpen, SessionClose,
          Skew,           \* max_quote_future_skew
          MaxTime,        \* bound on time
          MaxOrders       \* bound on the submissions

\* PaperControlLimits.__post_init__, and a calendar day with a session.
LimitsValid ==
  /\ IsFiniteSet(Symbols) /\ Sizes \subseteq Nat \ {0}
  /\ Equities \subseteq Nat /\ MinReserve \in Nat
  /\ {GrossPct, SymbolPct, ReservePct} \subseteq 0 .. 100
  /\ SymbolPct <= GrossPct
  /\ {MaxOrder, MaxOpen, MaxPerWindow, Window, MaxPerSession, Skew} \subseteq Nat \ {0}
  /\ SessionOpen \in Nat /\ SessionClose \in Nat /\ SessionOpen < SessionClose
  /\ MaxTime \in Nat /\ MaxOrders \in Nat

ASSUME ControlConstants == LimitsValid

VARIABLES
  time,       \* the clock every snapshot is stamped with
  position,   \* external broker: symbol -> shares
  cash,       \* external broker
  open,       \* external broker: orders that are not terminal
  stamps,     \* created_at of every submission row
  pc,         \* where the assessment is
  request,    \* the order being assessed
  now,        \* the timestamp it was called with
  account,    \* the account snapshot: cash, equity and captured_at
  held,       \* the positions snapshot: shares and captured_at
  listed,     \* the open orders it read
  moved,      \* history: shares filled since this assessment began
  slip        \* history: the most shares filled during one assessment

brokerVars == <<position, cash, open>>
readVars == <<account, held, listed>>
historyVars == <<moved, slip>>
vars == <<time, brokerVars, stamps, pc, request, now, readVars, historyVars>>

Requests == [symbol : Symbols, side : {"buy", "sell"}, quantity : Sizes]
Ids == 1 .. MaxOrders
OpenOrder == [id : Ids, symbol : Symbols, side : {"buy", "sell"}, left : Nat \ {0}]
Times == 0 .. MaxTime
NoShares == [s \in Symbols |-> 0]
NoAccount == [cash |-> 0, equity |-> 0, at |-> 0]
NoHoldings == [shares |-> NoShares, at |-> 0]

\* Every variable holds a value of its kind.
TypeOK ==
  /\ time \in Times /\ now \in Times
  /\ position \in [Symbols -> Int] /\ cash \in Int
  /\ open \subseteq OpenOrder
  /\ stamps \subseteq [id : Ids, at : Times]
  /\ pc \in {"idle", "account", "positions", "orders", "decide", "sent"}
  /\ request \in Requests \cup {[symbol |-> "none"]}
  /\ account \in [cash : Int, equity : Int, at : Times]
  /\ held \in [shares : [Symbols -> Int], at : Times]
  /\ listed \subseteq OpenOrder
  /\ moved \in Nat /\ slip \in Nat

Init ==
  /\ time = 0 /\ now = 0
  /\ position = NoShares /\ cash \in Equities /\ open = {}
  /\ stamps = {}
  /\ pc = "idle" /\ request = [symbol |-> "none"]
  /\ account = NoAccount /\ held = NoHoldings /\ listed = {}
  /\ moved = 0 /\ slip = 0

\* External broker: what the account is worth.
Equity == cash + SumFunction(position)

-----------------------------------------------------------------------------
(* The reads of PaperPreTradeController.assess *)

\* A call with the current time; reconciliation precedes the reads.
Assess(order) ==
  /\ pc = "idle"
  /\ Cardinality(stamps) < MaxOrders
  /\ pc' = "account" /\ request' = order /\ now' = time
  /\ UNCHANGED <<time, brokerVars, stamps, readVars, historyVars>>

ReadAccount ==
  /\ pc = "account"
  /\ pc' = "positions"
  /\ account' = [cash |-> cash, equity |-> Equity, at |-> time]
  /\ UNCHANGED <<time, brokerVars, stamps, request, now, held, listed, historyVars>>

ReadPositions ==
  /\ pc = "positions"
  /\ pc' = "orders"
  /\ held' = [shares |-> position, at |-> time]
  /\ UNCHANGED <<time, brokerVars, stamps, request, now, account, listed, historyVars>>

ReadOpenOrders ==
  /\ pc = "orders"
  /\ pc' = "decide"
  /\ listed' = open
  /\ UNCHANGED <<time, brokerVars, stamps, request, now, account, held, historyVars>>

\* The snapshots are locals of the assessment.
Forget ==
  /\ account' = NoAccount /\ held' = NoHoldings /\ listed' = {}
  /\ moved' = 0 /\ UNCHANGED slip

-----------------------------------------------------------------------------
(* evaluate_paper_pretrade *)

\* The shares that the orders of one side have still to fill.
Remaining(orders, side) == SumFunction([o \in orders |-> IF o.side = side THEN o.left ELSE 0])

\* _open_order_commitment: what the open buys may still cost.
Commitment(orders) == Remaining(orders, "buy")

Magnitude(n) == IF n < 0 THEN -n ELSE n

\* _position_exposure
Exposure(shares) == SumFunction([s \in Symbols |-> Magnitude(shares[s])])

\* Mutant: the window leaves out its end.
MutRecent(t) == {x \in stamps : t - Window <= x.at /\ x.at < t}

\* Submissions of the closed window that ends at t, and of the session.
Recent(t) == {x \in stamps : t - Window <= x.at /\ x.at <= t}
InSession == {x \in stamps : SessionOpen <= x.at /\ x.at < SessionClose}

\* Snapshots taken too long after the call's timestamp are from the future;
\* positions carry their captured_at, so none is checked when none is held.
SnapshotsCurrent ==
  /\ account.at <= now + Skew
  /\ held.shares # NoShares => held.at <= now + Skew

SessionAllows == SessionOpen <= now /\ now < SessionClose

\* The larger of the two reserves is kept when this much cash is left.
Reserved(left, equity) == left >= MinReserve /\ left * 100 >= equity * ReservePct

\* Mutant: cash promised to open buys is spent again.
MutCashAllows(cost) == Reserved(account.cash - cost, account.equity)

\* Buying power, which is the cash of an unmargined account, and the reserve.
CashAllows(cost) ==
  /\ Commitment(listed) + cost <= account.cash
  /\ Reserved(account.cash - Commitment(listed) - cost, account.equity)

\* Mutant: the gross exposure leaves out what open buys may add.
MutExposureAllows(symbol, delta) ==
  /\ Max({0, Exposure(held.shares) + delta}) * 100 <= account.equity * GrossPct
  /\ Max({0, Magnitude(held.shares[symbol]) + delta}) * 100 <= account.equity * SymbolPct

\* Projected gross and symbol exposure after a change by delta.
ExposureAllows(symbol, delta) ==
  /\ Max({0, Exposure(held.shares) + Commitment(listed) + delta}) * 100
       <= account.equity * GrossPct
  /\ Max({0, Magnitude(held.shares[symbol]) + delta}) * 100
       <= account.equity * SymbolPct

\* open_order_limit
OpenAllows == Cardinality(listed) < MaxOpen

\* order_rate_limit and session_order_limit
RateAllows ==
  /\ \A x \in stamps : x.at <= now + Skew
  /\ Cardinality(Recent(now)) < MaxPerWindow
  /\ Cardinality(InSession) < MaxPerSession

\* Mutant: a sell is not checked against the position.
MutSideAllows(order) == order.side = "buy" => CashAllows(order.quantity)

\* Cash for a buy, shares for a sell; what open sells promise is not deducted.
SideAllows(order) ==
  IF order.side = "buy" THEN CashAllows(order.quantity)
                        ELSE order.quantity <= held.shares[order.symbol]

\* No reason to deny was found.
Allowed(order) ==
  /\ SnapshotsCurrent
  /\ SessionAllows
  /\ order.quantity <= MaxOrder
  /\ OpenAllows
  /\ \A s \in Symbols : held.shares[s] >= 0
  /\ SideAllows(order)
  /\ ExposureAllows(order.symbol,
                    IF order.side = "buy" THEN order.quantity ELSE -order.quantity)
  /\ RateAllows

\* Mutant: rows are numbered from zero.
MutDecide ==
  /\ pc = "decide"
  /\ IF Allowed(request)
     THEN /\ pc' = "sent"
          /\ stamps' = stamps \cup {[id |-> Cardinality(stamps), at |-> now]}
     ELSE pc' = "idle" /\ UNCHANGED stamps
  /\ Forget
  /\ UNCHANGED <<time, brokerVars, request, now>>

\* An allowed order is persisted with the call's timestamp and sent.
Decide ==
  /\ pc = "decide"
  /\ IF Allowed(request)
     THEN /\ pc' = "sent"
          /\ stamps' = stamps \cup {[id |-> Cardinality(stamps) + 1, at |-> now]}
     ELSE pc' = "idle" /\ UNCHANGED stamps
  /\ Forget
  /\ UNCHANGED <<time, brokerVars, request, now>>

\* A denial for a reason the model abstracts (operator pause, reconciliation,
\* clock, calendar, asset, quote, order policy), or a failed read.
Deny ==
  /\ pc \in {"account", "positions", "orders", "decide"}
  /\ pc' = "idle"
  /\ Forget
  /\ UNCHANGED <<time, brokerVars, stamps, request, now>>

-----------------------------------------------------------------------------
(* The external broker *)

\* The order is accepted, or it is rejected or was never sent.
Accept ==
  /\ pc = "sent"
  /\ pc' = "idle"
  /\ open' = open \cup {[id |-> Cardinality(stamps), symbol |-> request.symbol,
                         side |-> request.side, left |-> request.quantity]}
  /\ UNCHANGED <<time, position, cash, stamps, request, now, readVars, historyVars>>

Refuse ==
  /\ pc = "sent"
  /\ pc' = "idle"
  /\ UNCHANGED <<time, brokerVars, stamps, request, now, readVars, historyVars>>

\* One share of an open order fills, also while an assessment reads.
Fill(o) ==
  LET n == IF o.side = "buy" THEN 1 ELSE -1
  IN  /\ position' = [position EXCEPT ![o.symbol] = @ + n]
      /\ cash' = cash - n
      /\ open' = (open \ {o}) \cup (IF o.left = 1 THEN {} ELSE {[o EXCEPT !.left = @ - 1]})
      /\ moved' = IF pc \in {"idle", "sent"} THEN 0 ELSE moved + 1
      /\ slip' = IF slip < moved' THEN moved' ELSE slip
      /\ UNCHANGED <<time, stamps, pc, request, now, readVars>>

Expire(o) ==
  /\ open' = open \ {o}
  /\ UNCHANGED <<time, position, cash, stamps, pc, request, now, readVars, historyVars>>

Tick ==
  /\ time < MaxTime
  /\ time' = time + 1
  /\ UNCHANGED <<brokerVars, stamps, pc, request, now, readVars, historyVars>>

Next ==
  \/ \E order \in Requests : Assess(order)
  \/ ReadAccount
  \/ ReadPositions
  \/ ReadOpenOrders
  \/ Decide
  \/ Deny
  \/ Accept
  \/ Refuse
  \/ \E o \in open : Fill(o) \/ Expire(o)
  \/ Tick

Spec == Init /\ [][Next]_vars

-----------------------------------------------------------------------------
(* Properties *)

\* What is owned long, and what open buys may still add to it.
Long(shares) == SumFunction([s \in Symbols |-> Max({0, shares[s]})])

\* However the approved orders fill, long positions together with what the
\* open buys may still add stay within the gross exposure limit.  Shares that
\* fill between the reads of one assessment may be in neither of them; only
\* that much the limit can be exceeded, and not again with every assessment.
GrossBounded == (Long(position) + Commitment(open) - slip) * 100 <= Equity * GrossPct

\* The cash left after every open buy has filled never falls below the
\* reserve an account that has bought something must keep, by more than was
\* filled between the reads of one assessment.
ReserveKept ==
  position # NoShares \/ open # {} => Reserved(cash - Commitment(open) + slip, Equity)

\* During one assessment no more can fill than the open order limit and the
\* order size let be open when it began: an allowance of that size bounds how
\* far the limits above can be exceeded.
SlipBounded == slip <= MaxOpen * MaxOrder

\* What open sells may still take away.
Promised(orders) == Remaining(orders, "sell")

OpenIn(s) == {o \in open : o.symbol = s}

\* How far a symbol can be sold short.
Depth == (MaxOpen - 1) * MaxOrder + slip

\* Each sell is checked against the position alone, so open sells can together
\* promise more than is held; but the first of them was covered by the
\* position that was read, and the open order limit and the order size bound
\* by how much the account can go short, however the orders fill.
OversellBounded == \A s \in Symbols : position[s] - Promised(OpenIn(s)) >= -Depth

\* No window of the given length, wherever it lies, holds more submissions
\* than allowed, and neither does the session.
RateBounded ==
  /\ \A t \in Times : Cardinality({x \in stamps : t - Window <= x.at /\ x.at <= t})
                        <= MaxPerWindow
  /\ Cardinality(InSession) <= MaxPerSession

\* LIVE_READINESS.md: "Reject above symbol, strategy, and portfolio limits".
\* A symbol's position and its open buys stay within the symbol limit.
SymbolBounded ==
  \A s \in Symbols :
    (position[s] + Commitment(OpenIn(s))) * 100 <= Equity * SymbolPct

-----------------------------------------------------------------------------
(* Inductive strengthening *)

\* Submissions are stamped by calls that are not in the future, and an
\* assessment that runs has room for one more.
StampsInv ==
  /\ IsFiniteSet(stamps) /\ IsFiniteSet(open) /\ now <= time
  /\ \A x \in stamps : x.at <= now
  /\ pc # "idle" => request \in Requests
  /\ pc \in {"account", "positions", "orders", "decide"} => Cardinality(stamps) < MaxOrders
  /\ Cardinality(stamps) <= MaxOrders
  /\ pc = "sent" => stamps # {}

\* A snapshot is off by the shares filled since, at most: cash was spent,
\* positions grew or shrank, and open orders filled or expired.
SnapshotsInv ==
  /\ moved <= slip
  /\ pc \in {"positions", "orders", "decide"} =>
       account.equity = Equity /\ account.cash <= cash + moved
  /\ pc \in {"orders", "decide"} =>
       /\ Long(position) <= Long(held.shares) + moved
       /\ \A s \in Symbols : held.shares[s] <= position[s] + moved
       /\ held.shares # NoShares => Reserved(cash - Commitment(open) + slip, Equity)

\* What the listed orders held and the open ones do not was filled or expired:
\* trading since takes no headroom from what the snapshots leave.
ListedInv ==
  pc = "decide" =>
    /\ IsFiniteSet(listed)
    /\ account.cash - Commitment(listed) <= cash - Commitment(open) + slip
    /\ Long(position) + Commitment(open) <= Long(held.shares) + Commitment(listed) + slip
    /\ \A s \in Symbols :
         held.shares[s] - MaxOrder * Cardinality(listed)
           <= position[s] - Promised(OpenIn(s)) + slip

\* There is room for a buy of q shares under the gross limit and the reserve.
Funded(q) ==
  /\ (Long(position) + Commitment(open) + q - slip) * 100 <= Equity * GrossPct
  /\ Reserved(cash - Commitment(open) - q + slip, Equity)

\* There is room for a sale of q shares of s.
Covered(s, q) == position[s] - Promised(OpenIn(s)) - q >= -Depth

\* An order that was sent still fits, whatever filled or expired since.
SentInv ==
  pc = "sent" =>
    /\ request.quantity <= MaxOrder
    /\ request.side = "buy" => Funded(request.quantity)
    /\ request.side = "sell" => /\ Reserved(cash - Commitment(open) + slip, Equity)
                                /\ Covered(request.symbol, request.quantity)

\* No more is open than allowed, with room for an order that was sent; what was
\* filled since an assessment began was open when it began.
SlipInv ==
  /\ SlipBounded
  /\ Cardinality(open) <= MaxOpen
  /\ pc = "decide" => Cardinality(open) <= Cardinality(listed)
  /\ pc = "sent" => Cardinality(open) < MaxOpen
  /\ IF pc \in {"idle", "sent"}
     THEN moved = 0
     ELSE moved + Commitment(open) + Promised(open) <= MaxOpen * MaxOrder

LimitsInv ==
  /\ SnapshotsInv /\ ListedInv /\ SentInv
  /\ \A o \in open : o.left <= MaxOrder
  /\ GrossBounded /\ ReserveKept /\ OversellBounded
=============================================================================
