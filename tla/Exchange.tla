------------------------------ MODULE Exchange ------------------------------
(***************************************************************************)
(* The venue and the wrapper that talks to it (src/exchange.py): one spot  *)
(* account, its resting limit buys, and the calls the executor makes.      *)
(*                                                                         *)
(* What the venue does on its own (fills, expiries, transfers) interleaves *)
(* freely with the bot.  The venue itself is outside the repository; it is *)
(* modelled from what fetch_order, cancel_order, fetch_balance and the     *)
(* order calls rely on.                                                    *)
(***************************************************************************)
EXTENDS Integers, Sequences, FiniteSets

CONSTANTS OrderIds,      \* bound: ids of limit orders, reused once forgotten
          InitialUsdt,   \* the account before the first start
          FillSizes,     \* bound: sizes of a partial fill of a limit order
          FlowSizes,     \* bound: sizes of a deposit or a withdrawal
          MaxFlows,      \* bound: number of deposits and withdrawals
          CostErrors,    \* what a market buy may cost beyond the asked amount
          LimitFees,     \* the fee in quote on a limit buy that fills in full
          Profit,        \* what a take-profit sale earns over the cost
          Events         \* the failures and operator actions that may happen

ASSUME ExchangeAssumption ==
    /\ OrderIds \subseteq Nat \ {0}
    /\ InitialUsdt \in Nat
    /\ FillSizes \subseteq Nat \ {0}
    /\ FlowSizes \subseteq Nat \ {0}
    /\ MaxFlows \in Nat
    /\ CostErrors \subseteq Int /\ LimitFees \subseteq Nat
    /\ Profit \in Nat
    /\ Events \subseteq {"read_error", "order_error", "order_lost",
                         "cancel_error", "save_error", "crash", "expire",
                         "stop", "kill", "deposit", "withdraw"}

\* What an order may cost beyond the amount it was sent for.
Excesses == CostErrors \cup LimitFees \cup {0}

\* No order costs more beyond its amount than some worst one.
ASSUME ExcessAssumption == \E m \in Excesses : \A e \in Excesses : e <= m

Overshoot == CHOOSE m \in Excesses : \A e \in Excesses : e <= m

VARIABLES orders,   \* id -> what fetch_order answers, with the unfilled rest
          usdt,     \* fetch_total_usdt: free + reserved by open limit buys
          free,     \* fetch_free_usdt
          base,     \* fetch_base_balance, counted by the USDT it cost
          flows,    \* deposits and withdrawals so far
          moved     \* history: what they add up to

exchangeVars == <<orders, usdt, free, base, flows, moved>>

OrderResult == [status : {"open", "closed", "canceled"}, left : Nat, filled : Nat]

ExchangeTypeOK ==
    /\ orders \in [OrderIds -> OrderResult]
    /\ usdt \in Int /\ free \in Nat /\ base \in Nat
    /\ flows \in 0 .. MaxFlows /\ moved \in Int

ExchangeInit ==
    /\ orders = [i \in OrderIds |-> [status |-> "canceled", left |-> 0, filled |-> 0]]
    /\ usdt = InitialUsdt
    /\ free = InitialUsdt
    /\ base = 0
    /\ flows = 0 /\ moved = 0

IsOpen(i) == orders[i].status = "open"
OpenOrders == {i \in OrderIds : IsOpen(i)}

-----------------------------------------------------------------------------
(* What happens at the venue on its own                                    *)

\* filled is filled_quote_cost: what was paid so far, its share of the fee in
\* quote included (_normalize).
LimitFill(i, d) ==
    /\ IsOpen(i) /\ d <= orders[i].left
    /\ orders' = [orders EXCEPT
                    ![i] = [status |-> IF d = @.left THEN "closed" ELSE "open",
                            left |-> @.left - d,
                            filled |-> @.filled + d]]
    /\ usdt' = usdt - d
    /\ base' = base + d
    /\ UNCHANGED <<free, flows, moved>>

\* Take order i off the book and release what it had reserved.
Release(i) ==
    /\ orders' = [orders EXCEPT ![i].status = "canceled", ![i].left = 0]
    /\ free' = free + orders[i].left

\* An order ends unfilled (Kraken "expired", or canceled by hand).
ExpireOrder(i) ==
    /\ "expire" \in Events
    /\ IsOpen(i)
    /\ Release(i)
    /\ UNCHANGED <<usdt, base, flows, moved>>

Deposit(f) ==
    /\ "deposit" \in Events /\ flows < MaxFlows
    /\ flows' = flows + 1 /\ moved' = moved + f
    /\ usdt' = usdt + f
    /\ free' = free + f
    /\ UNCHANGED <<orders, base>>

Withdraw(f) ==
    /\ "withdraw" \in Events /\ flows < MaxFlows /\ f <= free
    /\ flows' = flows + 1 /\ moved' = moved - f
    /\ usdt' = usdt - f
    /\ free' = free - f
    /\ UNCHANGED <<orders, base>>

ExchangeStep ==
    \/ \E i \in OrderIds : \E d \in FillSizes \cup {orders[i].left} : LimitFill(i, d)
    \/ \E i \in OrderIds : ExpireOrder(i)
    \/ \E f \in FlowSizes : Deposit(f) \/ Withdraw(f)

-----------------------------------------------------------------------------
(* The bot's calls                                                         *)

\* create_limit_buy_order under a fresh id: the quote is reserved, and the fee
\* that Kraken charges in quote on top of it.
place_limit_buy(i, amount, fee) ==
    /\ amount + fee <= free
    /\ orders' = [orders EXCEPT
                    ![i] = [status |-> "open", left |-> amount + fee, filled |-> 0]]
    /\ free' = free - (amount + fee)
    /\ UNCHANGED <<usdt, base, flows, moved>>

\* cancel_order when the venue answers: an order that is already closed or
\* canceled stays what it is.
cancel_order(i) ==
    /\ IF IsOpen(i) THEN Release(i) ELSE UNCHANGED <<orders, free>>
    /\ UNCHANGED <<usdt, base, flows, moved>>

\* cancel_order whose cancel request failed: the failure is swallowed, and the
\* answer is that of fetch_order on an order that is still live.
cancel_order_swallowed == UNCHANGED exchangeVars

\* market_buy_quote driven to "closed"; lot rounding and a fee on top make the
\* cost differ from the amount asked for.
MarketCosts(amount) == {amount + e : e \in CostErrors} \cap (1 .. free)

market_buy_quote(cost) ==
    /\ usdt' = usdt - cost
    /\ free' = free - cost
    /\ base' = base + cost
    /\ UNCHANGED <<orders, flows, moved>>

\* market_sell_all(fetch_base_balance()); nothing is sent for an empty balance.
SaleProceeds == IF base = 0 THEN 0 ELSE base + Profit

market_sell_all ==
    /\ usdt' = usdt + SaleProceeds
    /\ free' = free + SaleProceeds
    /\ base' = 0
    /\ UNCHANGED <<orders, flows, moved>>
=============================================================================
