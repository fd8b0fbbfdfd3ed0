------------------------------- MODULE DryRun -------------------------------
(***************************************************************************)
(* The bot in dry-run mode: the executor and main of Bot over              *)
(* PaperExchange (src/exchange.py) in place of the venue.                  *)
(*                                                                         *)
(* The paper exchange lives in the bot's own process.  Its orders fill     *)
(* only when the bot asks for them, and then in full; it reserves nothing  *)
(* (usdt and free are the same) and checks no funds; it is gone when the   *)
(* process ends, and the next process rebuilds it from the stored state.   *)
(* A limit order that no copy knows is never asked for and never filled.   *)
(* dirty is true here only when a trade was forgotten: a market order, or  *)
(* a limit order that was placed, asked for and filled in one poll.        *)
(***************************************************************************)
EXTENDS Bot

VARIABLES book,      \* the ids in _orders
          seq        \* _seq, the last id given out

paperVars == <<book, seq>>
dryVars == <<vars, paperVars>>

NoOrders == [i \in OrderIds |-> [status |-> "canceled", left |-> 0, filled |-> 0]]

DryInit == Init /\ book = {} /\ seq = 0

-----------------------------------------------------------------------------
(* PaperExchange                                                           *)

\* A bug: an order that is already filled fills again.
Fills_Again(o, touched) == touched

\* The order fills when the price read by fetch_order is not above its limit.
Fills(o, touched) == o.status = "open" /\ touched

\* An order is stored with its whole amount; what fills is all of it.
Amount(o) == o.left + o.filled

Asked(o, touched) ==
    IF Fills(o, touched) THEN [status |-> "closed", left |-> 0, filled |-> Amount(o)]
    ELSE o

Paid(o, touched) == IF Fills(o, touched) THEN Amount(o) ELSE 0

Balances(cash, position) == usdt' = cash /\ free' = cash /\ base' = position

fetch_order(i, touched) ==
    /\ orders' = [orders EXCEPT ![i] = Asked(@, touched)]
    /\ LET paid == Paid(orders[i], touched) IN Balances(usdt - paid, base + paid)
    /\ UNCHANGED <<flows, moved>>

\* cancel_order asks first: an order that just filled stays filled.
paper_cancel_order(i, touched) ==
    /\ orders' = [orders EXCEPT ![i] =
                    LET o == Asked(@, touched)
                    IN  [o EXCEPT !.status = IF @ = "open" THEN "canceled" ELSE @]]
    /\ LET paid == Paid(orders[i], touched) IN Balances(usdt - paid, base + paid)
    /\ UNCHANGED <<flows, moved>>

\* A bug: only the balances are restored.
RestoredIds_None(ol) == {}
RestoredIds(ol) == IF ol = NoLimit THEN {} ELSE {ol.id}

\* A bug: the numbering of the orders starts again from 1.
RestoredSeq_Zero(ol) == 0
RestoredSeq(ol) == ol.id

\* A bug: the cash is that of the configuration.
RestoredCash_Seed(s) == InitialUsdt
RestoredCash(s) == s.cycle_cash_remaining

\* A new PaperExchange takes its balances and its one order from the stored
\* state, and reconcile asks for that order at once.
resume_from(s, touched) ==
    LET ol == s.open_limit
        o == [status |-> "open", left |-> ol.usdt - ol.filled_quote_seen,
              filled |-> ol.filled_quote_seen]
        paid == IF ol = NoLimit THEN 0 ELSE Paid(o, touched)
    IN  /\ Balances(RestoredCash(s) - paid, s.position_qty + paid)
        /\ orders' = [i \in OrderIds |-> IF i \in RestoredIds(ol) THEN Asked(o, touched)
                                        ELSE NoOrders[i]]
        /\ book' = RestoredIds(ol)
        /\ seq' = RestoredSeq(ol)
        /\ UNCHANGED <<flows, moved>>

-----------------------------------------------------------------------------
(* The executor's calls                                                    *)

Refreshed(s, o) ==
    LET folded == fold_order_progress(s, s.open_limit.id, o.filled)
    IN  IF o.status = "canceled" THEN on_limit_canceled(folded) ELSE folded

DryBeginPoll(touched) ==
    /\ pc = "idle" /\ ~kill
    /\ LET id == st.open_limit.id
       IN  IF st.open_limit = NoLimit THEN st' = st /\ UNCHANGED exchangeVars
           ELSE /\ fetch_order(id, touched)
                /\ st' = Refreshed(st, Asked(orders[id], touched))
    /\ Goto("topup")
    /\ UNCHANGED <<historyVars, mem, disk, kill, paperVars>>

DryCancelLimit(touched) ==
    /\ Call = "CancelLimit"
    /\ LET id == st.open_limit.id
       IN  /\ paper_cancel_order(id, touched)
           /\ st' = on_limit_canceled(
                       fold_order_progress(st, id, Asked(orders[id], touched).filled))
           /\ unaware' = IF Fills(orders[id], touched) /\ mem.open_limit.id # id
                         THEN Copies ELSE unaware
    /\ Return(TRUE, Booting)
    /\ UNCHANGED dirty

\* The price moves by the slippage and the fee is taken in BTC: the cost is what
\* was asked for.
DryMarketBuy ==
    /\ Call = "MarketBuy" /\ AmountToBuy >= MinNotional
    /\ Balances(usdt - AmountToBuy, base + AmountToBuy)
    /\ st' = apply_buy_fill(st, AmountToBuy)
    /\ Return(TRUE, Booting)
    /\ SendsOrder
    /\ UNCHANGED <<orders, flows, moved>>

\* The model numbers no more orders than it has ids.
DryPlaceLimitBuy ==
    /\ Call = "PlaceLimitBuy" /\ seq + 1 \in OrderIds
    /\ seq' = seq + 1 /\ book' = book \cup {seq + 1}
    /\ orders' = [orders EXCEPT ![seq + 1] =
                    [status |-> "open", left |-> next_usdt(st), filled |-> 0]]
    /\ st' = on_limit_placed(st, [id |-> seq + 1, usdt |-> next_usdt(st),
                                  filled_quote_seen |-> 0])
    /\ Return(TRUE, FALSE)
    /\ UNCHANGED <<usdt, free, base, flows, moved, unaware, dirty>>

\* Only what reads the price can raise: the balances are fields.
DryReadFails ==
    /\ "read_error" \in Events
    /\ \/ pc = "decide"
       \/ Call = "MarketBuy" /\ AmountToBuy >= MinNotional
       \/ Call = "SellAll" /\ base > 0
       \/ Call = "CancelLimit" /\ IsOpen(st.open_limit.id)
       \/ /\ pc = "topup" /\ st.status # "HALTED"
          /\ Distance(Delta, 0) > Threshold /\ Confirmed
          /\ st.position_qty > 0

-----------------------------------------------------------------------------
(* Boot                                                                    *)

DryBootFresh ==
    /\ pc = "down" /\ disk = NoState
    /\ Balances(InitialUsdt, 0) /\ orders' = NoOrders /\ UNCHANGED <<flows, moved>>
    /\ book' = {} /\ seq' = 0
    /\ st' = IF InitialUsdt < MinNotional THEN Halted(start_cycle(InitialUsdt, 1))
             ELSE start_cycle(InitialUsdt, 1)
    /\ Goto("save")
    /\ dirty' = FALSE
    /\ UNCHANGED <<unaware, absorbed, mem, disk, kill>>

\* The books of the new process are those of the stored state, whatever the old
\* one had forgotten.
DryBootResume(touched) ==
    /\ pc = "down" /\ disk # NoState
    /\ resume_from(disk, touched)
    /\ st' = IF disk.open_limit = NoLimit THEN disk
             ELSE Refreshed(disk, orders'[disk.open_limit.id])
    /\ Goto("boot_balance")
    /\ dirty' = FALSE
    /\ UNCHANGED <<unaware, absorbed, mem, disk, kill>>

DryBootFetchFails ==
    /\ "read_error" \in Events
    /\ pc = "down" /\ disk # NoState /\ disk.open_limit # NoLimit
    /\ resume_from(disk, FALSE)
    /\ st' = Halted(disk)
    /\ Goto("save")
    /\ dirty' = FALSE
    /\ UNCHANGED <<unaware, absorbed, mem, disk, kill>>

-----------------------------------------------------------------------------

\* Calls that do not touch the order book of the paper exchange.
DryPollStep ==
    /\ \/ TopupDisabled(Booting) \/ TopupNothing(Booting)
       \/ TopupCandidate(Booting) \/ TopupYieldsToTakeProfit(Booting)
       \/ TopupConfirmed \/ Resplit(Booting)
       \/ Decide \/ NothingToBuy(Booting)
       \/ \E touched \in BOOLEAN : DryCancelLimit(touched)
       \/ DryMarketBuy \/ SellAll \/ StartNewCycle
    /\ UNCHANGED <<absorbed, mem, disk, kill, paperVars>>

DryFailure == DryReadFails /\ Raises(FALSE) /\ UNCHANGED <<exchangeVars, paperVars>>

DryBoot == \/ DryBootFresh
           \/ \E touched \in BOOLEAN : DryBootResume(touched)
           \/ DryBootFetchFails

\* What Bot does without the venue.
DryMain == /\ \/ Save \/ SaveFails \/ Stop \/ Crash
              \/ BootCheckBalance \/ TimePasses \/ ToggleKill
           /\ UNCHANGED paperVars

DryNext == \/ \E touched \in BOOLEAN : DryBeginPoll(touched)
           \/ DryPollStep
           \/ DryPlaceLimitBuy /\ UNCHANGED <<absorbed, mem, disk, kill>>
           \/ DryFailure \/ DryBoot \/ DryMain

DrySpec == DryInit /\ [][DryNext]_dryVars

-----------------------------------------------------------------------------

Up == pc # "down"

\* A paper order that is forgotten costs nothing, and a restart brings the
\* virtual balances back to the stored state: unless a trade of this very process
\* was forgotten, position and cash are those of the paper exchange,
\* through discarded polls, failed saves, crashes and restarts.
PaperBooks ==
    Up /\ ~dirty /\ pc # "newcycle" =>
        /\ base = st.position_qty + Unfolded
        /\ usdt = st.cycle_cash_remaining - Unfolded

\* fetch_order indexes _orders without a check: an order that the running
\* process remembers is there, also when a discarded poll falls back to mem.
KnownOrdersExist ==
    Up => \A s \in {st, mem} : s.open_limit # NoLimit => s.open_limit.id \in book

\* Ids are not given out twice: an entry of _orders that some copy may still ask
\* for is not overwritten by a new order.
IdsAreFresh == Up => \A i \in book : i <= seq

\* The balance check of reconcile never halts a dry run, and what the bot does
\* itself is never taken for a deposit or a withdrawal, unless a trade
\* was forgotten.
NothingUnexplained ==
    /\ pc = "boot_balance" => base = st.position_qty
    /\ ~dirty => pc \notin {"topup_cancel", "resplit"}
=============================================================================
