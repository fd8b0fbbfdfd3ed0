------------------------------ MODULE Strategy ------------------------------
(***************************************************************************)
(* The pure core of the bot (src/strategy.py): the persistent State        *)
(* record, the decision function and the reducers, one operator each.      *)
(*                                                                         *)
(* Money is a number of USDT units.  Bought BTC is counted by the USDT it  *)
(* cost, so position_qty also stands for invested_usdt; price, lot and     *)
(* tick arithmetic are not in this module.  None is a sentinel: NoLimit    *)
(* for open_limit, 0 for pending_topup_delta, FALSE for ref.               *)
(***************************************************************************)
EXTENDS Integers, Sequences

CONSTANTS N,                  \* params.n, the number of tranches
          MinNotional,        \* params.min_notional
          TopupThreshold      \* params.topup_threshold

ASSUME ParamsAssumption ==
    /\ N \in Nat \ {0}
    /\ MinNotional \in Nat \ {0}
    /\ TopupThreshold \in Nat

Status == {"RUNNING", "CASH_EXHAUSTED", "HALTED"}

\* The age of last_fill_time, all that decide asks of it: "elapsed" when
\* fallback_hours have gone by.
Timer == {"none", "recent", "elapsed"}

OpenLimit == [id : Nat, usdt : Nat, filled_quote_seen : Nat]
NoLimit == [id |-> 0, usdt |-> 0, filled_quote_seen |-> 0]

State == [status : Status, cycle_id : Nat, tranche_usdt : Int,
          tranches_used : Nat, cycle_cash_remaining : Int, ref : BOOLEAN,
          last_fill_time : Timer, position_qty : Nat, step_target_usdt : Nat,
          step_filled_usdt : Nat, open_limit : OpenLimit,
          pending_topup_delta : Int]

Smaller(a, b) == IF a <= b THEN a ELSE b
Larger(a, b) == IF a <= b THEN b ELSE a
Distance(a, b) == Larger(a - b, b - a)

Remaining(s) == s.step_target_usdt - s.step_filled_usdt

-----------------------------------------------------------------------------
(* Helpers and the decision                                                *)

\* cash / n, rounded down to whole units.
compute_tranche(cash) == cash \div N

next_usdt(s) == Smaller(s.tranche_usdt, s.cycle_cash_remaining)

\* tp: does the price read by the caller reach the take-profit level?
should_take_profit(s, tp) == s.position_qty > 0 /\ tp

can_buy(s) == s.tranches_used < N /\ next_usdt(s) >= MinNotional

Bootstrapping(s) == ~s.ref /\ Remaining(s) > 0

\* A bug: off by one at the minimum order.
FallbackDue_Strict(s) == /\ s.last_fill_time = "elapsed"
                         /\ s.step_target_usdt > 0
                         /\ Remaining(s) > MinNotional

FallbackDue(s) == /\ s.last_fill_time = "elapsed"
                  /\ s.step_target_usdt > 0
                  /\ Remaining(s) >= MinNotional

ChaseDue(s) == /\ s.status = "RUNNING"
               /\ s.open_limit = NoLimit
               /\ s.step_target_usdt = 0
               /\ s.ref
               /\ can_buy(s)

\* A bug: the resting limit is not canceled before the other side is traded.
decide_NoCancel(s, tp) ==
    IF s.status = "HALTED" THEN <<>>
    ELSE IF Bootstrapping(s) \/ FallbackDue(s) THEN <<"MarketBuy">>
    ELSE IF should_take_profit(s, tp) THEN <<"SellAll">>
    ELSE IF ChaseDue(s) THEN <<"PlaceLimitBuy">>
    ELSE <<>>

\* A bug: an idle decision yields an action that execute_action does not know.
decide_Wait(s, tp) ==
    IF ChaseDue(s) THEN <<"PlaceLimitBuy">> ELSE <<"Wait">>

\* The action list that Hold stands for is empty: executing Hold does nothing
\* and reports no progress.
decide(s, tp) ==
    LET after_cancel(action) == IF s.open_limit = NoLimit THEN <<action>>
                                ELSE <<"CancelLimit", action>>
    IN  IF s.status = "HALTED" THEN <<>>
        ELSE IF Bootstrapping(s) THEN <<"MarketBuy">>
        ELSE IF should_take_profit(s, tp) THEN after_cancel("SellAll")
        ELSE IF FallbackDue(s) THEN after_cancel("MarketBuy")
        ELSE IF ChaseDue(s) THEN <<"PlaceLimitBuy">>
        ELSE <<>>

-----------------------------------------------------------------------------
(* Reducers                                                                *)

\* A bug: a new cycle begins without the bootstrap step.
start_cycle_NoStep(cash, cycle_id) ==
    [status |-> "RUNNING", cycle_id |-> cycle_id,
     tranche_usdt |-> compute_tranche(cash), tranches_used |-> 0,
     cycle_cash_remaining |-> cash, ref |-> FALSE, last_fill_time |-> "none",
     position_qty |-> 0, step_target_usdt |-> 0,
     step_filled_usdt |-> 0, open_limit |-> NoLimit,
     pending_topup_delta |-> 0]

start_cycle(cash, cycle_id) ==
    [status |-> "RUNNING", cycle_id |-> cycle_id,
     tranche_usdt |-> compute_tranche(cash), tranches_used |-> 0,
     cycle_cash_remaining |-> cash, ref |-> FALSE, last_fill_time |-> "none",
     position_qty |-> 0, step_target_usdt |-> compute_tranche(cash),
     step_filled_usdt |-> 0, open_limit |-> NoLimit,
     pending_topup_delta |-> 0]

\* A bug: the step in progress is left as the old split made it.
apply_topup_KeepsStep(s, available) ==
    [s EXCEPT !.status = "RUNNING", !.tranche_usdt = compute_tranche(available),
              !.tranches_used = 0, !.cycle_cash_remaining = available,
              !.pending_topup_delta = 0]

apply_topup(s, available) ==
    [s EXCEPT !.status = IF available < MinNotional /\ s.position_qty > 0
                         THEN "CASH_EXHAUSTED" ELSE "RUNNING",
              !.tranche_usdt = compute_tranche(available),
              !.tranches_used = 0,
              !.cycle_cash_remaining = available,
              !.step_target_usdt = 0,
              !.step_filled_usdt = 0,
              !.pending_topup_delta = 0]

\* Every fill is booked at once ...
BookFill(s, cost) ==
    [s EXCEPT !.position_qty = @ + cost,
              !.cycle_cash_remaining = @ - cost,
              !.step_filled_usdt = @ + cost]

\* ... but ref, the 24 h timer and the tranche count move only when the step
\* completes, that is when what remains of it is too small to be bought.
CompleteStep(s) ==
    LET used == s.tranches_used + 1
    IN  [s EXCEPT !.ref = TRUE,
                  !.last_fill_time = "recent",
                  !.tranches_used = used,
                  !.step_target_usdt = 0,
                  !.step_filled_usdt = 0,
                  !.open_limit = NoLimit,
                  !.status = IF used >= N \/ s.cycle_cash_remaining < MinNotional
                             THEN "CASH_EXHAUSTED" ELSE "RUNNING"]

\* A bug: a step completes only when nothing at all remains.
apply_buy_fill_Strict(s, cost) ==
    LET booked == BookFill(s, cost)
    IN  IF Remaining(booked) <= 0 THEN CompleteStep(booked) ELSE booked

\* A bug: only the first fill of a cycle starts the 24 h timer.
apply_buy_fill_OneTimer(s, cost) ==
    LET booked == BookFill(s, cost)
        timer == IF s.ref THEN s.last_fill_time ELSE "recent"
    IN  IF Remaining(booked) < MinNotional
        THEN [CompleteStep(booked) EXCEPT !.last_fill_time = timer] ELSE booked

apply_buy_fill(s, cost) ==
    LET booked == BookFill(s, cost)
    IN  IF Remaining(booked) < MinNotional THEN CompleteStep(booked) ELSE booked

on_limit_placed(s, ol) ==
    [s EXCEPT !.open_limit = ol, !.step_target_usdt = ol.usdt,
              !.step_filled_usdt = 0]

on_limit_canceled(s) == [s EXCEPT !.open_limit = NoLimit]

\* A bug: the fills already booked are not remembered.
update_limit_seen_Lost(s, filled) == s

update_limit_seen(s, filled) ==
    IF s.open_limit = NoLimit THEN s
    ELSE [s EXCEPT !.open_limit.filled_quote_seen = filled]

\* executor._fold_order_progress: book what order id has filled beyond what
\* this state has already seen of it.
fold_order_progress(s, id, filled) ==
    LET d_quote == filled - s.open_limit.filled_quote_seen
    IN  IF s.open_limit = NoLimit \/ s.open_limit.id # id \/ d_quote <= 0 THEN s
        ELSE update_limit_seen(apply_buy_fill(s, d_quote), filled)

-----------------------------------------------------------------------------
(* What the reducers keep true of a State                                  *)

\* A step in progress never exceeds the N tranches of the split, and once the
\* cycle has its first fill what remains of the step can be bought by itself:
\* the 24 h fallback never finds an unfinished step it has to skip.
StepOK(s) == s.step_target_usdt > 0 =>
                /\ s.tranches_used < N
                /\ Remaining(s) > 0
                /\ s.ref => Remaining(s) >= MinNotional

\* What remains of a step is covered by the cash of the cycle.
FundedOK(s) == s.step_target_usdt > 0 => Remaining(s) <= s.cycle_cash_remaining

\* A remembered limit is the step in progress, seen exactly as far as the step
\* is filled, in a state that still buys.
LimitOK(s) == s.open_limit # NoLimit =>
                 /\ s.step_target_usdt = s.open_limit.usdt
                 /\ s.step_target_usdt > 0
                 /\ s.step_filled_usdt = s.open_limit.filled_quote_seen
                 /\ s.ref

\* A state that buys no more has no step in progress, hence no limit.
ExhaustedOK(s) == s.status = "CASH_EXHAUSTED" => s.step_target_usdt = 0

\* The 24 h timer runs exactly when there is a reference price.
TimerOK(s) == s.ref <=> s.last_fill_time # "none"

StateOK(s) == StepOK(s) /\ FundedOK(s) /\ TimerOK(s) /\ LimitOK(s) /\ ExhaustedOK(s)
=============================================================================
