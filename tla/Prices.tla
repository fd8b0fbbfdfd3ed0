------------------------------- MODULE Prices -------------------------------
(***************************************************************************)
(* The numbers behind the decisions: the average true range (src/atr.py)   *)
(* and the price and quantity functions of src/strategy.py.                *)
(*                                                                         *)
(* Prices and money are whole units; a price is that of one lot; base      *)
(* quantities are counted in grains, Grain to the lot.  A ratio is a       *)
(* record [num, den].  Where the code computes in floats the model rounds  *)
(* a quantity down to the grain, and a price or a proceed to the unit.     *)
(***************************************************************************)
EXTENDS Integers, Sequences, FiniteSetsExt, Functions

CONSTANTS Grain,        \* grains in a lot
          Tick,         \* price_tick
          FeeDen,       \* taker_fee is 1 / FeeDen
          SlipDen,      \* slippage is 1 / SlipDen
          TpDen,        \* params.tp is 1 / TpDen
          XMult,        \* params.x_mult
          XFloorDen,    \* params.x_floor is 1 / XFloorDen
          AtrPeriod     \* atr_period

ASSUME PricesAssumption ==
    /\ {Grain, Tick, XMult, AtrPeriod} \subseteq Nat \ {0}
    /\ {FeeDen, SlipDen, TpDen, XFloorDen} \subseteq Nat \ {0, 1}

Candle == [date : Nat, high : Nat, low : Nat, close : Nat]

-----------------------------------------------------------------------------
(* The average true range                                                  *)

\* The first candle has no close before it: one range less than candles.
true_ranges(candles) ==
    [i \in 1 .. Len(candles) - 1 |->
        LET prev_close == candles[i].close
            candle == candles[i + 1]
        IN  Max({candle.high - candle.low,
                 candle.high - prev_close, prev_close - candle.high,
                 candle.low - prev_close, prev_close - candle.low})]

NoAtr == [num |-> 0, den |-> 1]

\* One candle further: the sum of the first AtrPeriod ranges on its way to their
\* mean, then (atr * (AtrPeriod - 1) + range) / AtrPeriod.
Smooth(atr, range, k) ==
    IF k <= AtrPeriod
    THEN [num |-> atr.num + range, den |-> AtrPeriod]
    ELSE [num |-> atr.num * (AtrPeriod - 1) + range * atr.den,
          den |-> atr.den * AtrPeriod]

\* Wilder's smoothing, at every candle; an ATR from candle AtrPeriod on.
Smoothed(trs) ==
    LET atr[k \in 1 .. Len(trs)] ==
            Smooth(IF k = 1 THEN NoAtr ELSE atr[k - 1], trs[k], k)
    IN  atr

Smoothable(candles) == Len(candles) > AtrPeriod

wilder_atr(candles) ==
    LET trs == true_ranges(candles) IN Smoothed(trs)[Len(trs)]

\* A bug: a market that does not move puts the limit at the last fill.
compute_x_NoFloor(atr, price) == [num |-> XMult * atr.num, den |-> atr.den * price]

\* The width of the chase: a multiple of the ATR, never below the floor and
\* without a cap.
compute_x(atr, price) ==
    IF XMult * atr.num * XFloorDen >= atr.den * price
    THEN [num |-> XMult * atr.num, den |-> atr.den * price]
    ELSE [num |-> 1, den |-> XFloorDen]

-----------------------------------------------------------------------------
(* Prices and quantities                                                   *)

\* Down to whole lots.
round_down_amount(amount) == (amount \div Grain) * Grain

\* num / den to the nearest tick, a half up.
round_price(num, den) == Tick * ((2 * num + den * Tick) \div (2 * den * Tick))

\* ref * (1 - x), as the exchange rounds it.
LimitPrice(ref, x) == round_price(ref * (x.den - x.num), x.den)

NetOfFee(amount) == (amount * (FeeDen - 1)) \div FeeDen

\* A bug: the fee of the sale is forgotten.
TakesProfit_Gross(qty, invested, price) ==
    qty * price * TpDen >= invested * (TpDen + 1) * Grain

\* Does the position sell for its cost and 1 / TpDen more, after the fee?
TakesProfit(qty, invested, price) ==
    qty * price * (FeeDen - 1) * TpDen >= invested * (TpDen + 1) * Grain * FeeDen

\* Grains bought at market for usdt.
MarketPrice(price) == (price * (SlipDen + 1)) \div SlipDen
MarketQty(usdt, price) ==
    (usdt * Grain * SlipDen * (FeeDen - 1)) \div (price * (SlipDen + 1) * FeeDen)

\* Grains of a limit order of usdt, and what a number of grains costs there.
LimitQty(usdt, price) == round_down_amount((usdt * Grain) \div price)
LimitCost(amount, price) == (amount * price) \div Grain

SaleProceeds(amount, price) ==
    (amount * price * (SlipDen - 1) * (FeeDen - 1)) \div (Grain * SlipDen * FeeDen)
=============================================================================
