------------------------------ MODULE Backtest ------------------------------
(***************************************************************************)
(* The backtest (src/backtest.py): the decisions and reducers of Strategy  *)
(* replayed bar by bar over BacktestExchange, with prices and quantities.  *)
(*                                                                         *)
(* An hourly bar is one run_poll_once: Bar is set_bar, the refresh of the  *)
(* limit order and the choice of the day's ATR; Decide and the actions of  *)
(* the decision follow until one holds.  Nothing runs beside them and      *)
(* nothing fails.  st is the State without its prices: qty and ref_price   *)
(* are the position_qty and the ref that Strategy leaves out.              *)
(***************************************************************************)
EXTENDS Strategy, Prices

CONSTANTS Seeds,         \* values of seed_usdt
          DailySeries,   \* the daily candles of a run, oldest first
          Dates,         \* the days of its hourly bars
          Closes,        \* closing prices of hourly bars
          Wicks,         \* how far the low of a bar lies below its close
          MaxSteps,      \* MAX_STEPS_PER_POLL
          MaxBars        \* bound: hourly bars replayed

ASSUME BacktestAssumption ==
    /\ Seeds \union {MaxSteps, MaxBars} \subseteq Nat \ {0}
    /\ Dates \subseteq Nat /\ Closes \subseteq Nat \ {0} /\ Wicks \subseteq Nat
    /\ DailySeries \subseteq Seq(Candle)
    /\ \A daily \in DailySeries : \A i \in 2 .. Len(daily) :
          daily[i - 1].date < daily[i].date

VARIABLES st, qty, ref_price,
          daily,          \* the candles of this run, future days included
          bars, date, price, low, atr14,    \* the bar being replayed
          free_usdt, base_balance,
          order,          \* the last order of _orders, and the bar it was placed in
          pc, todo, steps, progressed

barVars == <<bars, date, price, low, atr14>>
venueVars == <<free_usdt, base_balance, order>>
vars == <<st, qty, ref_price, daily, barVars, venueVars, pc, todo, steps, progressed>>

NoOrder == [price |-> 0, amount |-> 0, status |-> "canceled", placed |-> 0]

Init ==
    /\ free_usdt \in Seeds /\ base_balance = 0 /\ order = NoOrder
    /\ st = start_cycle(free_usdt, 1) /\ qty = 0 /\ ref_price = 0
    /\ daily \in DailySeries
    /\ bars = 0 /\ date \in Dates /\ price = 0 /\ low = 0
    /\ atr14 = NoAtr
    /\ pc = "bar" /\ todo = <<>> /\ steps = 0 /\ progressed = FALSE

-----------------------------------------------------------------------------
(* The ATR of the day                                                      *)

\* Every ATR with the day whose close settles it.
_atr_schedule(candles) ==
    LET atr == Smoothed(true_ranges(candles))
    IN  [k \in 1 .. Len(candles) - AtrPeriod |->
            [date |-> candles[k + AtrPeriod].date, atr |-> atr[k + AtrPeriod - 1]]]

\* A bug: bisect_right, which takes the candle of the day itself.
Settled_Today(schedule, day) == Cardinality({k \in DOMAIN schedule : schedule[k].date <= day})

\* bisect_left(dates, day): how many entries are of an earlier day.
Settled(schedule, day) == Cardinality({k \in DOMAIN schedule : schedule[k].date < day})

\* The last of them; before there is one, 0, and the width is the floor.
AtrOf(candles, day) ==
    LET schedule == _atr_schedule(candles)
        idx == Settled(schedule, day)
    IN  IF idx > 0 THEN schedule[idx].atr ELSE NoAtr

-----------------------------------------------------------------------------
(* BacktestExchange                                                        *)

\* A bug: an order that is already filled fills again.
Touched_Again(lo) == lo <= order.price /\ order.status # "canceled"

\* fetch_order: a resting order fills in full once a low touches its price.
Touched(lo) == order.status = "open" /\ lo <= order.price

FilledCost == LimitCost(order.amount, order.price)

\* What fetch_order does to the venue, and the order it returns.
fetch_order(lo, final) ==
    IF Touched(lo)
    THEN /\ order' = [order EXCEPT !.status = "closed"]
         /\ free_usdt' = free_usdt - FilledCost
         /\ base_balance' = base_balance + NetOfFee(order.amount)
    ELSE /\ order' = [order EXCEPT !.status = IF @ = "open" THEN final ELSE @]
         /\ UNCHANGED <<free_usdt, base_balance>>

\* The fold of that order into s, which then may forget it: the prices of a
\* State beside Strategy's part.
Fold(s, lo, forgets) ==
    LET folded == IF Touched(lo) THEN fold_order_progress(s, s.open_limit.id, FilledCost)
                  ELSE s
    IN  /\ st' = IF forgets THEN on_limit_canceled(folded) ELSE folded
        /\ qty' = IF Touched(lo) THEN qty + NetOfFee(order.amount) ELSE qty
        /\ ref_price' = IF folded.tranches_used # s.tranches_used THEN order.price
                        ELSE ref_price

-----------------------------------------------------------------------------
(* One bar                                                                 *)

\* fallback_hours is a parameter, and bars may be missing: any bar may be the first
\* after that time, on the day of the last fill or on a later one.
Aged(s) == [s EXCEPT !.last_fill_time = IF @ = "recent" THEN "elapsed" ELSE @]

NextBar(day, aged, close, wick) ==
    /\ pc = "bar" /\ bars < MaxBars
    /\ day >= date
    /\ bars' = bars + 1 /\ date' = day /\ price' = close /\ low' = close - wick
    /\ atr14' = AtrOf(daily, day)
    /\ fetch_order(close - wick, "open")
    /\ Fold(IF aged THEN Aged(st) ELSE st, close - wick, order.status = "canceled")
    /\ pc' = "decide" /\ steps' = 0
    /\ UNCHANGED <<daily, todo, progressed>>

Bar == \E day \in Dates, aged \in BOOLEAN, close \in Closes, wick \in Wicks :
          NextBar(day, aged, close, wick)

Decide ==
    /\ pc = "decide"
    /\ todo' = decide(st, TakesProfit(qty, st.position_qty, price))
    /\ pc' = IF todo' = <<>> THEN "bar" ELSE "act"
    /\ steps' = steps + 1
    /\ progressed' = FALSE
    /\ UNCHANGED <<st, qty, ref_price, daily, barVars, venueVars>>

Acts(action) == pc = "act" /\ Head(todo) = action

Return(did) ==
    /\ todo' = Tail(todo)
    /\ progressed' = (progressed \/ did)
    /\ pc' = IF todo' # <<>> THEN "act"
             ELSE IF progressed' /\ steps < MaxSteps THEN "decide" ELSE "bar"
    /\ UNCHANGED <<daily, barVars, steps>>

CancelLimit ==
    /\ Acts("CancelLimit")
    /\ fetch_order(low, "canceled")
    /\ Fold(st, low, TRUE)
    /\ Return(TRUE)

\* market_buy_quote spends exactly what it is asked to.
MarketBuy ==
    /\ Acts("MarketBuy") /\ Remaining(st) >= MinNotional
    /\ free_usdt' = free_usdt - Remaining(st)
    /\ base_balance' = base_balance + MarketQty(Remaining(st), price)
    /\ st' = apply_buy_fill(st, Remaining(st))
    /\ qty' = qty + MarketQty(Remaining(st), price)
    /\ ref_price' = MarketPrice(price)
    /\ UNCHANGED order
    /\ Return(TRUE)

\* A cycle too poor for one minimum order decides to buy at every bar.
NothingToBuy ==
    /\ Acts("MarketBuy") /\ Remaining(st) < MinNotional
    /\ UNCHANGED <<st, qty, ref_price, venueVars>>
    /\ Return(FALSE)

\* Nothing caps the width of the chase: with the whole price or more the code
\* would divide by zero or place a negative limit, and here the run ends.
place_limit_buy ==
    LET limit == LimitPrice(ref_price, compute_x(atr14, price))
    IN  /\ Acts("PlaceLimitBuy") /\ limit \in Nat \ {0}
        /\ order' = [price |-> limit, amount |-> LimitQty(next_usdt(st), limit),
                     status |-> "open", placed |-> bars]
        /\ st' = on_limit_placed(st, [id |-> bars, usdt |-> next_usdt(st),
                                      filled_quote_seen |-> 0])
        /\ UNCHANGED <<qty, ref_price, free_usdt, base_balance>>
        /\ Return(TRUE)

\* A bug: the position is sold, not the balance.
AmountSold_Position == round_down_amount(qty)
AmountSold == round_down_amount(base_balance)

\* market_sell_all, then a new cycle with all the cash; the grains below a lot
\* stay in the account and out of the new State.
SellAll ==
    LET cash == free_usdt + SaleProceeds(AmountSold, price)
    IN  /\ Acts("SellAll")
        /\ free_usdt' = cash
        /\ base_balance' = base_balance - AmountSold
        /\ st' = start_cycle(cash, st.cycle_id + 1)
        /\ qty' = 0 /\ ref_price' = 0
        /\ UNCHANGED order
        /\ Return(TRUE)

Next == \/ Bar \/ Decide \/ CancelLimit \/ MarketBuy \/ NothingToBuy
        \/ place_limit_buy \/ SellAll

Spec == Init /\ [][Next]_vars

-----------------------------------------------------------------------------
(* What a backtest may claim                                               *)

\* Every variable has its type.
TypeOK ==
    /\ st \in State /\ qty \in Nat /\ ref_price \in Nat
    /\ daily \in DailySeries /\ date \in Dates /\ bars \in 0 .. MaxBars
    /\ free_usdt \in Nat /\ base_balance \in Nat
    /\ order \in [price : Nat, amount : Nat, placed : 0 .. MaxBars,
                  status : {"open", "closed", "canceled"}]
    /\ pc \in {"bar", "decide", "act"} /\ steps \in 0 .. MaxSteps
    /\ todo \in Seq({"CancelLimit", "MarketBuy", "PlaceLimitBuy", "SellAll"})

\* The candles of the days before: they are sorted.
Before(candles, day) ==
    SubSeq(candles, 1, Cardinality({i \in DOMAIN candles : candles[i].date < day}))

\* No look-ahead in the ATR: on any day it is the ATR that the candles of the
\* days before give by themselves, or 0 while they are too few, whatever gaps
\* the daily data has.
NoLookAhead ==
    \A day \in Dates :
        LET past == Before(daily, day)
        IN  AtrOf(daily, day) = IF Smoothable(past) THEN wilder_atr(past) ELSE NoAtr

\* No look-ahead in the fills: an order is never filled by the low of the bar
\* in which it was placed, a low that came before it.
FillsAreLater ==
    [][order'.status = "closed" /\ order.status # "closed" => order.placed < bars']_vars

\* The replayed account and the State agree: so check_and_apply_topup, which
\* compares them at every bar, never takes a trade of the bot for a transfer.
CashIsFree == free_usdt = st.cycle_cash_remaining

\* Every grain bought is in the position until it is sold, and what the sales
\* leave behind never adds up to a lot.
DustBelowLot == base_balance - qty \in 0 .. Grain - 1

\* A cycle ends with more money than it had, after both fees, the slippage and
\* the lots rounded down: a take-profit is never a loss.
CyclesGain ==
    [][st'.cycle_id # st.cycle_id
         => st'.cycle_cash_remaining > st.cycle_cash_remaining + st.position_qty]_vars

\* Where CyclesGain can be expected.  The margin of 1 / TpDen on a position of at
\* least, after the slippage, is worth the lot that a sale at p may round away and
\* a unit of money ...
Covers(least, p) ==
    least * FeeDen * (SlipDen - TpDen - 1)
      >= TpDen * (SlipDen * FeeDen + p * (SlipDen - 1) * (FeeDen - 1))

\* ... and a seed makes tranches of at least that much, or none that can be bought.
Reaches(seed, least) ==
    compute_tranche(seed) >= least \/ compute_tranche(seed) < MinNotional

\* The chase only goes down: a resting limit is at least the floor width below
\* the last fill, up to half a tick, and costs no more than its tranche.
ChasesDown ==
    order.status = "open" =>
        /\ 2 * XFloorDen * order.price <= 2 * (XFloorDen - 1) * ref_price + XFloorDen * Tick
        /\ FilledCost <= st.open_limit.usdt
=============================================================================
