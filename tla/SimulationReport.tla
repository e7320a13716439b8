-------------------------- MODULE SimulationReport --------------------------
(***************************************************************************)
(* The report of a run (application/reporting.py): the trades that         *)
(* _round_trip_trades finds in result.fills.  The engine keeps every fill  *)
(* that apply_fill accepted; the loop over them is taken one turn further  *)
(* with each, so the variables below are the loop's state after the fills  *)
(* so far.                                                                 *)
(***************************************************************************)
EXTENDS SimulationEngine

VARIABLES trade,     \* the active _TradeAccumulator, or NoTrade
          closed,    \* completed: how many, and their gross result and fees
          impossible \* the loop has raised

reportVars == <<trade, closed, impossible>>

NoTrade == [quantity |-> 0, entered |-> 0, left |-> 0, cost |-> 0, proceeds |-> 0, fees |-> 0]

Trades == [quantity : Nat, entered : Nat, left : Nat, cost : Int, proceeds : Int, fees : Int]

ReportInit ==
  /\ Init
  /\ trade = NoTrade
  /\ closed = [count |-> 0, gross |-> 0, fees |-> 0]
  /\ impossible = FALSE

\* A buy opens a trade or adds to it.
Entry(fill) ==
  /\ trade' = [quantity |-> trade.quantity + fill.quantity,
               entered |-> trade.entered + fill.quantity, left |-> trade.left,
               cost |-> trade.cost + Notional(fill), proceeds |-> trade.proceeds,
               fees |-> trade.fees + Fee(fill.quantity)]
  /\ UNCHANGED <<closed, impossible>>

\* The accumulator after a sell.
Reduced(fill) ==
  [quantity |-> trade.quantity - fill.quantity,
   entered |-> trade.entered, left |-> trade.left + fill.quantity,
   cost |-> trade.cost, proceeds |-> trade.proceeds + Notional(fill),
   fees |-> trade.fees + Fee(fill.quantity)]

Completed(rest) ==
  [count |-> closed.count + 1, gross |-> closed.gross + rest.proceeds - rest.cost,
   fees |-> closed.fees + rest.fees]

\* Mutant: a trade is closed by its first exit.
MutExit(fill) ==
  /\ trade' = NoTrade
  /\ closed' = Completed(Reduced(fill))
  /\ UNCHANGED impossible

\* A sell reduces the trade, and completes it when nothing is left.  One that
\* finds no trade or too few shares in it raises.
Exit(fill) ==
  LET rest == Reduced(fill)
      flat == rest.quantity = 0
  IN  IF fill.quantity > trade.quantity \/ (flat /\ rest.entered # rest.left)
      THEN impossible' = TRUE /\ UNCHANGED <<trade, closed>>
      ELSE /\ trade' = IF flat THEN NoTrade ELSE rest
           /\ closed' = IF flat THEN Completed(rest) ELSE closed
           /\ UNCHANGED impossible

\* fills.append(fill), in the engine only when apply_fill did not raise.
Reported(fill) ==
  IF rejected' > rejected THEN UNCHANGED reportVars
  ELSE IF fill.side = "buy" THEN Entry(fill) ELSE Exit(fill)

ReportNext ==
  \/ Proceed /\ UNCHANGED reportVars
  \/ \E fill \in arrived : ApplyFill(fill) /\ Reported(fill)

ReportSpec == ReportInit /\ [][ReportNext]_<<vars, reportVars>>

-----------------------------------------------------------------------------
\* The report and the portfolio tell the same story: calculate_metrics finds
\* no impossible sale, and in a run without a rejected fill the open trade
\* holds the position, fees are those of the trades, and whenever the position
\* is flat the gross result of the completed trades is the realized profit.
ReportAgrees ==
  /\ ~ impossible
  /\ rejected = 0 =>
       /\ trade.quantity = quantity
       /\ closed.fees + trade.fees = fees
       /\ quantity = 0 => closed.gross = realized

-----------------------------------------------------------------------------
(* Inductive strengthening *)

\* The accumulator counts the shares it holds, at least those of the
\* portfolio, and between two flat positions the difference of its proceeds
\* and its cost is what the portfolio has realized and still carries as basis.
ReportInv ==
  /\ rejected \in Nat
  /\ trade \in Trades
  /\ closed \in [count : Nat, gross : Int, fees : Int]
  /\ ~ impossible
  /\ trade.entered = trade.left + trade.quantity /\ trade.quantity >= quantity
  /\ trade.quantity = 0 => trade = NoTrade
  /\ rejected = 0 =>
       /\ trade.quantity = quantity
       /\ closed.fees + trade.fees = fees
       /\ closed.gross + trade.proceeds - trade.cost + basis = realized
=============================================================================
