------------------------------ MODULE Executor ------------------------------
(***************************************************************************)
(* One poll of src/executor.py as a sequential process over the venue: a   *)
(* program counter stands between any two calls, so that fills, transfers  *)
(* and crashes can fall there.  pc names the next thing to run:            *)
(*                                                                         *)
(*   idle          main's loop, between two polls                          *)
(*   topup         check_and_apply_topup, up to its early returns          *)
(*   topup_cancel  a confirmed balance change cancels the resting limit    *)
(*   resplit       ... fetches the total and splits it into N tranches     *)
(*   deposit_buy   ... and buys one tranche at once                        *)
(*   decide        run_poll_once: fetch_price and decide                   *)
(*   act           run_poll_once: the actions in todo, the head first      *)
(*   newcycle      SellAll after the sale, before fetch_free_usdt          *)
(*   save          store.save of the state the poll (or reconcile) returns *)
(*   down, boot_balance   see Bot                                          *)
(*                                                                         *)
(* A call that raises leaves the poll: CallRaises says when, Bot what      *)
(* becomes of the state.                                                   *)
(***************************************************************************)
EXTENDS Strategy, Exchange

CONSTANTS MaxSteps,     \* MAX_STEPS_PER_POLL
          MaxCycles     \* bound: no take-profit price in the last cycle

ASSUME ExecutorAssumption == MaxSteps \in Nat \ {0} /\ MaxCycles \in Nat \ {0}

VARIABLES st,          \* the working State of the running poll or boot
          pc,
          todo,        \* actions of the current decision still to be executed
          steps,       \* decisions taken in this poll
          progressed,  \* did an action of the current decision report progress?
          deposit,     \* sign of the balance change being applied
          unaware,     \* history: which stored copies do not know of an order sent
          dirty        \* history: an order was sent or is live that no copy knows

pollVars == <<pc, todo, steps, progressed, deposit>>

Actions == {"MarketBuy", "PlaceLimitBuy", "CancelLimit", "SellAll"}
Copies == {"mem", "disk"}

Pcs == {"idle", "topup", "topup_cancel", "resplit", "deposit_buy", "decide",
        "act", "newcycle", "save", "down", "boot_balance"}

Goto(label) ==
    /\ pc' = label
    /\ UNCHANGED <<todo, steps, progressed, deposit>>

\* Leave the poll with all its local variables reset.
Leave(label) ==
    /\ pc' = label
    /\ todo' = <<>> /\ steps' = 0 /\ progressed' = FALSE /\ deposit' = FALSE

SendsOrder == unaware' = Copies /\ UNCHANGED dirty

-----------------------------------------------------------------------------
(* refresh_open_limit, shared by run_poll_once and reconcile               *)

refresh_open_limit(s) ==
    IF s.open_limit = NoLimit THEN s
    ELSE LET order == orders[s.open_limit.id]
             folded == fold_order_progress(s, s.open_limit.id, order.filled)
         IN  IF order.status = "canceled" THEN on_limit_canceled(folded) ELSE folded

\* The fold completes the step of s while a rest of its order, too small to be
\* bought by itself, stays in the book: nothing remembers that rest.
RestForgotten(s) ==
    /\ s.open_limit # NoLimit
    /\ refresh_open_limit(s).open_limit = NoLimit
    /\ IsOpen(s.open_limit.id)
    /\ orders[s.open_limit.id].left < MinNotional + Overshoot

-----------------------------------------------------------------------------
(* check_and_apply_topup                                                   *)

Threshold == Larger(MinNotional, TopupThreshold)
Delta == usdt - st.cycle_cash_remaining

\* A bug: the sign test is inverted.
Confirmed_WrongSign == /\ st.pending_topup_delta # 0
                       /\ (st.pending_topup_delta > 0) # (Delta > 0)
                       /\ Distance(Delta, st.pending_topup_delta) <= Threshold

\* The same change was observed by the poll before.
Confirmed == /\ st.pending_topup_delta # 0
             /\ (st.pending_topup_delta > 0) = (Delta > 0)
             /\ Distance(Delta, st.pending_topup_delta) <= Threshold

\* What follows check_and_apply_topup: the decisions, or the end of reconcile.
AfterTopup(booting) == IF booting THEN "save" ELSE "decide"

\* A take-profit price is seen only while the model has cycles left.
PriceReads == IF st.cycle_id < MaxCycles THEN BOOLEAN ELSE {FALSE}

TopupDisabled(booting) ==
    /\ pc = "topup" /\ st.status = "HALTED"
    /\ Goto(AfterTopup(booting))
    /\ UNCHANGED <<exchangeVars, st, unaware, dirty>>

TopupNothing(booting) ==
    /\ pc = "topup" /\ st.status # "HALTED"
    /\ Distance(Delta, 0) <= Threshold
    /\ st' = [st EXCEPT !.pending_topup_delta = 0]
    /\ Goto(AfterTopup(booting))
    /\ UNCHANGED <<exchangeVars, unaware, dirty>>

TopupCandidate(booting) ==
    /\ pc = "topup" /\ st.status # "HALTED"
    /\ Distance(Delta, 0) > Threshold /\ ~Confirmed
    /\ st' = [st EXCEPT !.pending_topup_delta = Delta]
    /\ Goto(AfterTopup(booting))
    /\ UNCHANGED <<exchangeVars, unaware, dirty>>

\* Confirmed, but the price says take profit: left to the new cycle.
TopupYieldsToTakeProfit(booting) ==
    /\ pc = "topup" /\ st.status # "HALTED"
    /\ Distance(Delta, 0) > Threshold /\ Confirmed
    /\ \E tp \in PriceReads : should_take_profit(st, tp)
    /\ st' = [st EXCEPT !.pending_topup_delta = 0]
    /\ Goto(AfterTopup(booting))
    /\ UNCHANGED <<exchangeVars, unaware, dirty>>

\* A bug: the resting limit is left alone.
TopupConfirmed_NoCancel ==
    /\ pc = "topup" /\ st.status # "HALTED"
    /\ Distance(Delta, 0) > Threshold /\ Confirmed
    /\ st' = [st EXCEPT !.pending_topup_delta = 0]
    /\ pc' = "resplit"
    /\ deposit' = (Delta > 0)
    /\ UNCHANGED <<exchangeVars, todo, steps, progressed, unaware, dirty>>

\* A bug: a change pending from before the halt is applied to a halted state.
TopupConfirmed_Halted ==
    /\ pc = "topup"
    /\ Distance(Delta, 0) > Threshold /\ Confirmed
    /\ \E tp \in PriceReads : ~should_take_profit(st, tp)
    /\ st' = [st EXCEPT !.pending_topup_delta = 0]
    /\ pc' = IF st.open_limit = NoLimit THEN "resplit" ELSE "topup_cancel"
    /\ deposit' = (Delta > 0)
    /\ UNCHANGED <<exchangeVars, todo, steps, progressed, unaware, dirty>>

TopupConfirmed ==
    /\ pc = "topup" /\ st.status # "HALTED"
    /\ Distance(Delta, 0) > Threshold /\ Confirmed
    /\ \E tp \in PriceReads : ~should_take_profit(st, tp)
    /\ st' = [st EXCEPT !.pending_topup_delta = 0]
    /\ pc' = IF st.open_limit = NoLimit THEN "resplit" ELSE "topup_cancel"
    /\ deposit' = (Delta > 0)
    /\ UNCHANGED <<exchangeVars, todo, steps, progressed, unaware, dirty>>

Resplit(booting) ==
    LET split == apply_topup(st, usdt)
        buys == deposit /\ can_buy(split)
    IN  /\ pc = "resplit"
        /\ st' = IF buys THEN [split EXCEPT !.step_target_usdt = next_usdt(split)]
                 ELSE split
        /\ pc' = IF buys THEN "deposit_buy" ELSE AfterTopup(booting)
        /\ deposit' = FALSE
        /\ UNCHANGED <<exchangeVars, todo, steps, progressed, unaware, dirty>>

-----------------------------------------------------------------------------
(* run_poll_once: the decision loop                                        *)

Decide ==
    /\ pc = "decide"
    /\ \E tp \in PriceReads :
          LET actions == decide(st, tp)
          IN  /\ todo' = actions
              /\ pc' = IF actions = <<>> THEN "save" ELSE "act"
    /\ steps' = steps + 1
    /\ progressed' = FALSE
    /\ UNCHANGED <<exchangeVars, st, deposit, unaware, dirty>>

\* The call that comes next, wherever it is made from.
Call == CASE pc = "act" -> Head(todo)
          [] pc = "topup_cancel" -> "CancelLimit"
          [] pc = "deposit_buy" -> "MarketBuy"
          [] OTHER -> pc

\* Where execute_action returns to, having reported did.
Return(did, booting) ==
    /\ UNCHANGED deposit
    /\ CASE pc = "topup_cancel" -> pc' = "resplit" /\ UNCHANGED <<todo, steps, progressed>>
         [] pc = "deposit_buy" -> pc' = AfterTopup(booting) /\ UNCHANGED <<todo, steps, progressed>>
         [] OTHER ->
              /\ todo' = IF pc = "act" THEN Tail(todo) ELSE todo
              /\ progressed' = (progressed \/ did)
              /\ pc' = IF todo' # <<>> THEN "act"
                       ELSE IF progressed' /\ steps < MaxSteps THEN "decide" ELSE "save"
              /\ UNCHANGED steps

\* A bug: what the order filled before the cancel is not folded.
CancelLimit_NoFold(booting, swallowed) ==
    /\ Call = "CancelLimit" /\ ~swallowed
    /\ cancel_order(st.open_limit.id)
    /\ st' = on_limit_canceled(st)
    /\ Return(TRUE, booting)
    /\ UNCHANGED <<unaware, dirty>>

\* swallowed: the cancel request itself failed.
CancelLimit(booting, swallowed) ==
    /\ Call = "CancelLimit"
    /\ IF swallowed THEN "cancel_error" \in Events /\ cancel_order_swallowed
       ELSE cancel_order(st.open_limit.id)
    /\ st' = on_limit_canceled(
                fold_order_progress(st, st.open_limit.id,
                                    orders[st.open_limit.id].filled))
    /\ Return(TRUE, booting)
    /\ dirty' = (dirty \/ (swallowed /\ IsOpen(st.open_limit.id)))
    /\ UNCHANGED unaware

\* A bug: the amount of the decision, not what is left of it.
AmountToBuy_Stale == st.step_target_usdt

\* The amount is recomputed here: a limit canceled just before may have
\* filled since the decision.
AmountToBuy == Remaining(st)

MarketBuy(booting) ==
    /\ Call = "MarketBuy" /\ AmountToBuy >= MinNotional
    /\ \E cost \in MarketCosts(AmountToBuy) :
          /\ market_buy_quote(cost)
          /\ st' = apply_buy_fill(st, cost)
    /\ Return(TRUE, booting)
    /\ SendsOrder

NothingToBuy(booting) ==
    /\ Call = "MarketBuy" /\ AmountToBuy < MinNotional
    /\ Return(FALSE, booting)
    /\ UNCHANGED <<exchangeVars, st, unaware, dirty>>

PlaceLimitBuy(i) ==
    /\ Call = "PlaceLimitBuy"
    /\ \E fee \in LimitFees : place_limit_buy(i, next_usdt(st), fee)
    /\ st' = on_limit_placed(st, [id |-> i, usdt |-> next_usdt(st),
                                  filled_quote_seen |-> 0])
    /\ Return(TRUE, FALSE)
    /\ SendsOrder

SellAll ==
    /\ Call = "SellAll"
    /\ market_sell_all
    /\ todo' = Tail(todo)
    /\ pc' = "newcycle"
    /\ unaware' = Copies
    /\ UNCHANGED <<st, steps, progressed, deposit, dirty>>

StartNewCycle ==
    /\ pc = "newcycle"
    /\ st' = start_cycle(free, st.cycle_id + 1)
    /\ Return(TRUE, FALSE)
    /\ UNCHANGED exchangeVars
    /\ SendsOrder

-----------------------------------------------------------------------------
(* Calls that raise                                                        *)

\* Reads are retried and then raise: among them the fetch_order after a cancel,
\* the price of a market buy sized in base, and the balance before a sale.
ReadFails == /\ "read_error" \in Events
             /\ \/ pc = "topup" /\ st.status # "HALTED"
                \/ pc \in {"resplit", "decide", "newcycle", "boot_balance"}
                \/ Call \in {"CancelLimit", "SellAll"}
                \/ Call = "MarketBuy" /\ AmountToBuy >= MinNotional

\* An order is about to be sent.
OrderDue == \/ Call \in {"PlaceLimitBuy", "SellAll"}
            \/ Call = "MarketBuy" /\ AmountToBuy >= MinNotional

\* The venue refuses an order: an error, or a cost it cannot cover.
OrderRefused(freshIds) ==
    /\ OrderDue
    /\ \/ "order_error" \in Events
       \/ Call = "MarketBuy" /\ \E e \in CostErrors : AmountToBuy + e > free
       \/ /\ Call = "PlaceLimitBuy"
          /\ freshIds = {} \/ \E fee \in LimitFees : next_usdt(st) + fee > free

CallRaises(freshIds) == /\ ReadFails \/ OrderRefused(freshIds)
                        /\ UNCHANGED exchangeVars

\* The cancel went through, the fetch_order after it raised.
CancelThenRaises == /\ "read_error" \in Events
                    /\ Call = "CancelLimit"
                    /\ cancel_order(st.open_limit.id)

\* The order reached the venue, the answer did not reach the bot: a time-out,
\* or _drive_to_close giving up.
OrderLost(freshIds) ==
    /\ "order_lost" \in Events /\ OrderDue
    /\ \/ /\ Call = "MarketBuy"
          /\ \E cost \in MarketCosts(AmountToBuy) : market_buy_quote(cost)
       \/ /\ Call = "PlaceLimitBuy"
          /\ \E i \in freshIds, fee \in LimitFees : place_limit_buy(i, next_usdt(st), fee)
       \/ Call = "SellAll" /\ market_sell_all

ExecutorTypeOK ==
    /\ ExchangeTypeOK
    /\ pc \in Pcs
    /\ todo \in Seq(Actions)
    /\ steps \in 0 .. MaxSteps
    /\ progressed \in BOOLEAN /\ deposit \in BOOLEAN /\ dirty \in BOOLEAN
    /\ unaware \subseteq Copies
=============================================================================
