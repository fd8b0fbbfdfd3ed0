--------------------------- MODULE BacktestProofs ---------------------------
(***************************************************************************)
(* The books of the backtest, for all constants: the replayed account, the *)
(* State and the coins agree after every step of every bar.                *)
(***************************************************************************)
EXTENDS Backtest, StrategyProofs, AtrProofs

-----------------------------------------------------------------------------
(* Quantities                                                              *)

\* A limit order of usdt is a number of grains that costs no more than usdt.
LEMMA LimitFits ==
    ASSUME NEW usdt \in Nat, NEW limit \in Nat \ {0}
    PROVE  /\ LimitQty(usdt, limit) \in Nat
           /\ LimitCost(LimitQty(usdt, limit), limit) \in Nat
           /\ LimitCost(LimitQty(usdt, limit), limit) <= usdt
  <1> DEFINE q == (usdt * Grain) \div limit
             r == (q \div Grain) * Grain
             c == (r * limit) \div Grain
  <1>0. Grain \in Nat \ {0}
    BY PricesAssumption
  <1>1. usdt * Grain \in Nat
    BY <1>0, TimesNat
  <1>2. q \in Nat /\ q * limit \in Nat /\ q * limit <= usdt * Grain
    BY <1>1, DivBounds
  <1> HIDE DEF q
  <1>3. r \in Nat /\ r <= q
    BY <1>0, <1>2, DivBounds
  <1> HIDE DEF r
  <1>4. r * limit \in Nat /\ r * limit <= q * limit
    BY <1>2, <1>3, TimesNat, TimesMonotone
  <1>5. c \in Nat /\ c * Grain \in Nat /\ c * Grain <= r * limit
    BY <1>0, <1>4, DivBounds
  <1> HIDE DEF c
  <1>6. c * Grain <= usdt * Grain
    BY <1>1, <1>2, <1>4, <1>5
  <1>7. c <= usdt
    BY <1>0, <1>5, <1>6, TimesCancel
  <1> QED
    BY <1>3, <1>5, <1>7 DEF LimitQty, LimitCost, round_down_amount, q, r, c

\* What a purchase or a sale brings is a natural number.
LEMMA NetNat ==
    ASSUME NEW amount \in Nat
    PROVE  NetOfFee(amount) \in Nat
  <1>1. FeeDen \in Nat \ {0} /\ FeeDen - 1 \in Nat
    BY PricesAssumption
  <1>2. amount * (FeeDen - 1) \in Nat
    BY <1>1, TimesNat
  <1> QED
    BY <1>1, <1>2, DivBounds DEF NetOfFee

LEMMA BoughtNat ==
    ASSUME NEW usdt \in Nat, NEW p \in Nat \ {0}
    PROVE  MarketQty(usdt, p) \in Nat /\ MarketPrice(p) \in Nat
  <1>1. /\ Grain \in Nat /\ SlipDen \in Nat \ {0} /\ SlipDen + 1 \in Nat \ {0}
        /\ FeeDen \in Nat \ {0} /\ FeeDen - 1 \in Nat
    BY PricesAssumption
  <1>2. usdt * Grain * SlipDen * (FeeDen - 1) \in Nat
    BY <1>1, TimesNat
  <1>3. p * (SlipDen + 1) \in Nat \ {0}
    BY <1>1, TimesPos
  <1>4. p * (SlipDen + 1) * FeeDen \in Nat \ {0}
    BY <1>1, <1>3, TimesPos
  <1>5. MarketQty(usdt, p) \in Nat
    BY <1>2, <1>4, DivBounds DEF MarketQty
  <1>6. MarketPrice(p) \in Nat
    BY <1>1, <1>3, DivBounds DEF MarketPrice
  <1> QED
    BY <1>5, <1>6

LEMMA SoldNat ==
    ASSUME NEW amount \in Nat, NEW p \in Nat
    PROVE  SaleProceeds(amount, p) \in Nat
  <1>1. /\ Grain \in Nat \ {0} /\ SlipDen \in Nat \ {0} /\ SlipDen - 1 \in Nat
        /\ FeeDen \in Nat \ {0} /\ FeeDen - 1 \in Nat
    BY PricesAssumption
  <1>2. amount * p * (SlipDen - 1) * (FeeDen - 1) \in Nat
    BY <1>1, TimesNat
  <1>3. Grain * SlipDen \in Nat \ {0}
    BY <1>1, TimesPos
  <1>4. Grain * SlipDen * FeeDen \in Nat \ {0}
    BY <1>1, <1>3, TimesPos
  <1> QED
    BY <1>2, <1>4, DivBounds DEF SaleProceeds

-----------------------------------------------------------------------------
(* The cash of a State                                                     *)

\* Folding the first fill of the remembered order, which costs no more than
\* the step, takes that cost out of the cash of the cycle and no more.
LEMMA FoldPays ==
    ASSUME NEW s, Sound(s), NEW cost \in Nat,
           s.open_limit # NoLimit, s.open_limit.filled_quote_seen = 0,
           cost <= s.open_limit.usdt
    PROVE  LET f == fold_order_progress(s, s.open_limit.id, cost)
           IN  /\ f.cycle_cash_remaining = s.cycle_cash_remaining - cost
               /\ f.cycle_cash_remaining >= 0
  <1> DEFINE k == BookFill(s, cost)
             b == apply_buy_fill(s, cost)
             f == fold_order_progress(s, s.open_limit.id, cost)
  <1>1. s \in State /\ StateOK(s)
    BY DEF Sound
  <1>2. /\ s.step_target_usdt > 0
        /\ s.step_target_usdt = s.open_limit.usdt /\ s.step_filled_usdt = 0
        /\ s.open_limit.usdt <= s.cycle_cash_remaining
    BY <1>1 DEF StateOK, LimitOK, FundedOK, Remaining, State, OpenLimit
  <1>3. s.cycle_cash_remaining - cost >= 0
    BY <1>1, <1>2 DEF State, OpenLimit
  <1>4. CASE cost = 0
    BY <1>1, <1>3, <1>4 DEF fold_order_progress, State
  <1>5. CASE cost # 0
    <2>1. cost - s.open_limit.filled_quote_seen = cost /\ ~(cost <= 0)
      BY <1>5
    <2>2. f = update_limit_seen(b, cost)
      BY <2>1 DEF fold_order_progress
    <2>3. /\ s.position_qty + cost \in Nat
          /\ s.cycle_cash_remaining - cost \in Int
          /\ s.step_filled_usdt + cost \in Nat
      BY <1>1 DEF State
    <2>4. k \in State /\ k.cycle_cash_remaining = s.cycle_cash_remaining - cost
      BY <1>1, <2>3 DEF BookFill, State
    <2> HIDE DEF k
    <2>5. CompleteStep(k).cycle_cash_remaining = k.cycle_cash_remaining
      BY <2>4 DEF CompleteStep, State
    <2>6. b = k \/ b = CompleteStep(k)
      BY DEF apply_buy_fill, k
    <2>7. b \in State /\ b.cycle_cash_remaining = s.cycle_cash_remaining - cost
      BY <2>4, <2>5, <2>6, CompleteStepType
    <2> HIDE DEF b, f
    <2>8. f.cycle_cash_remaining = b.cycle_cash_remaining
      BY <2>2, <2>7 DEF update_limit_seen, State
    <2> QED
      BY <1>3, <2>7, <2>8 DEF f
  <1> QED
    BY <1>4, <1>5

\* Buying all that remains of a step completes it within the cash.
LEMMA BuyPays ==
    ASSUME NEW s, Sound(s), Remaining(s) >= MinNotional
    PROVE  LET b == apply_buy_fill(s, Remaining(s))
           IN  /\ Sound(b) /\ b.open_limit = NoLimit
               /\ Remaining(s) \in Nat \ {0}
               /\ b.cycle_cash_remaining = s.cycle_cash_remaining - Remaining(s)
               /\ b.cycle_cash_remaining >= 0
  <1> DEFINE cost == Remaining(s)
             k == BookFill(s, cost)
             b == apply_buy_fill(s, cost)
  <1>1. s \in State /\ StateOK(s) /\ MinNotional \in Nat \ {0}
    BY ParamsAssumption DEF Sound
  <1>2. cost \in Nat \ {0} /\ s.step_target_usdt > 0 /\ cost <= s.cycle_cash_remaining
    BY <1>1 DEF Remaining, State, StateOK, FundedOK
  <1>3. /\ b \in State
        /\ StepOK(b) /\ FundedOK(b) /\ TimerOK(b) /\ ExhaustedOK(b)
    BY <1>1, <1>2, BuyFillSound DEF StateOK
  <1>4. /\ s.position_qty + cost \in Nat
        /\ s.cycle_cash_remaining - cost \in Int
        /\ s.step_filled_usdt + cost \in Nat
    BY <1>1, <1>2 DEF State
  <1>5. /\ k \in State
        /\ k.cycle_cash_remaining = s.cycle_cash_remaining - cost
        /\ k.step_target_usdt = s.step_target_usdt
        /\ k.step_filled_usdt = s.step_filled_usdt + cost
    BY <1>1, <1>4 DEF BookFill, State
  <1>6. Remaining(k) < MinNotional
    BY <1>1, <1>5 DEF Remaining, State
  <1>7. b = CompleteStep(k)
    BY <1>6 DEF apply_buy_fill
  <1> HIDE DEF k
  <1>8. b.open_limit = NoLimit /\ b.cycle_cash_remaining = k.cycle_cash_remaining
    BY <1>5, <1>7 DEF CompleteStep, State
  <1>9. LimitOK(b)
    BY <1>8 DEF LimitOK
  <1>10. s.cycle_cash_remaining - cost >= 0
    BY <1>1, <1>2 DEF State
  <1> QED
    BY <1>2, <1>3, <1>5, <1>8, <1>9, <1>10 DEF Sound, StateOK, k

\* A later day changes the timer and nothing else.
LEMMA AgedSound ==
    ASSUME NEW s, Sound(s)
    PROVE  /\ Sound(Aged(s)) /\ Aged(s).open_limit = s.open_limit
           /\ Aged(s).cycle_cash_remaining = s.cycle_cash_remaining
  <1> DEFINE a == Aged(s)
  <1>1. s \in State /\ StateOK(s)
    BY DEF Sound
  <1>2. a \in State
    BY <1>1 DEF Aged, State, Timer
  <1>3. /\ a.open_limit = s.open_limit
        /\ a.step_target_usdt = s.step_target_usdt
        /\ a.step_filled_usdt = s.step_filled_usdt
        /\ a.cycle_cash_remaining = s.cycle_cash_remaining
        /\ a.tranches_used = s.tranches_used
        /\ a.ref = s.ref /\ a.status = s.status
        /\ a.last_fill_time = "none" <=> s.last_fill_time = "none"
    BY <1>1 DEF Aged, State
  <1> HIDE DEF a
  <1>4. StateOK(a)
    BY <1>1, <1>3
    DEF StateOK, StepOK, FundedOK, TimerOK, LimitOK, ExhaustedOK, Remaining
  <1> QED
    BY <1>2, <1>3, <1>4 DEF Sound, a
-----------------------------------------------------------------------------
(* The inductive invariant                                                 *)

\* The lists decide returns.
Todos == {<<>>, <<"MarketBuy">>, <<"SellAll">>, <<"PlaceLimitBuy">>,
          <<"CancelLimit", "SellAll">>, <<"CancelLimit", "MarketBuy">>}

\* A resting order is the one the State remembers, unseen so far, and it can
\* be paid from the step it stands for.
RestingOK ==
    order.status = "open" =>
        /\ st.open_limit # NoLimit /\ st.open_limit.filled_quote_seen = 0
        /\ FilledCost <= st.open_limit.usdt

\* The decision that is being executed still holds.
TurnOK ==
    /\ todo \in Todos /\ (pc = "act" <=> todo # <<>>)
    /\ pc # "bar" => price \in Closes
    /\ pc = "decide" => steps < MaxSteps
    /\ todo = <<"PlaceLimitBuy">> => ChaseDue(st)
    /\ todo \in {<<"MarketBuy">>, <<"SellAll">>} => order.status # "open"

\* Cash that is never negative, in two places at once.
AccountOK == Sound(st) /\ CashIsFree /\ DustBelowLot /\ RestingOK

BacktestInv == TypeOK /\ AccountOK /\ TurnOK

\* Each of them has its type ...
LEMMA TodoTypes ==
    ASSUME NEW t \in Todos
    PROVE  t \in Seq({"CancelLimit", "MarketBuy", "PlaceLimitBuy", "SellAll"})
  <1> DEFINE A == {"CancelLimit", "MarketBuy", "PlaceLimitBuy", "SellAll"}
  <1>1. <<>> \in Seq(A)
    OBVIOUS
  <1>2. \A a \in A : <<a>> \in Seq(A)
    OBVIOUS
  <1>3. \A a, b \in A : <<a, b>> \in Seq(A)
    OBVIOUS
  <1> QED
    BY <1>1, <1>2, <1>3 DEF Todos

\* ... and is one action, or a cancel before one of two.
LEMMA TodoHeads ==
    ASSUME NEW t \in Todos, t # <<>>
    PROVE  /\ Head(t) = "CancelLimit" => Tail(t) \in {<<"SellAll">>, <<"MarketBuy">>}
           /\ Head(t) # "CancelLimit" => t = <<Head(t)>> /\ Tail(t) = <<>>
  <1>1. CASE t = <<"MarketBuy">>
    BY <1>1
  <1>2. CASE t = <<"SellAll">>
    BY <1>2
  <1>3. CASE t = <<"PlaceLimitBuy">>
    BY <1>3
  <1>4. CASE t = <<"CancelLimit", "SellAll">>
    BY <1>4
  <1>5. CASE t = <<"CancelLimit", "MarketBuy">>
    BY <1>5
  <1> QED
    BY <1>1, <1>2, <1>3, <1>4, <1>5 DEF Todos

\* What decide returns, and what it has looked at to return it.
LEMMA DecideLists ==
    ASSUME NEW s, Sound(s), NEW tp
    PROVE  LET t == decide(s, tp)
           IN  /\ t \in Todos
               /\ t = <<"PlaceLimitBuy">> => ChaseDue(s)
               /\ t \in {<<"MarketBuy">>, <<"SellAll">>} => s.open_limit = NoLimit
  <1>1. Bootstrapping(s) => s.open_limit = NoLimit
    BY DEF Sound, StateOK, LimitOK, Bootstrapping
  <1> QED
    BY <1>1 DEF decide, Todos

\* The venue never bills what the State does not book: after a fetch and its
\* fold the account is in order, whatever the bar's low.
LEMMA FetchKeepsAccount ==
    ASSUME BacktestInv, NEW s, Sound(s), s.open_limit = st.open_limit,
           s.cycle_cash_remaining = st.cycle_cash_remaining,
           NEW lo, NEW final \in {"open", "canceled"}, NEW forgets \in BOOLEAN,
           fetch_order(lo, final), Fold(s, lo, forgets),
           forgets => final = "canceled" \/ order.status # "open"
    PROVE  /\ AccountOK'
           /\ st' \in State /\ qty' \in Nat /\ ref_price' \in Nat
           /\ free_usdt' \in Nat /\ base_balance' \in Nat
           /\ order' \in [price : Nat, amount : Nat, placed : 0 .. MaxBars,
                          status : {"open", "closed", "canceled"}]
           /\ final = "canceled" => order'.status # "open"
  <1> DEFINE cost == FilledCost
             folded == IF Touched(lo)
                       THEN fold_order_progress(s, s.open_limit.id, cost) ELSE s
             t == IF forgets THEN on_limit_canceled(folded) ELSE folded
  <1>1. /\ order.price \in Nat /\ order.amount \in Nat /\ order.placed \in 0 .. MaxBars
        /\ order.status \in {"open", "closed", "canceled"}
        /\ order = [order EXCEPT !.status = order.status]
        /\ order \in [price : Nat, amount : Nat, placed : 0 .. MaxBars,
                      status : {"open", "closed", "canceled"}]
        /\ qty \in Nat /\ ref_price \in Nat /\ free_usdt \in Nat /\ base_balance \in Nat
    BY DEF BacktestInv, TypeOK
  <1>2. cost \in Nat
    BY <1>1, TimesNat, DivBounds, PricesAssumption DEF FilledCost, LimitCost
  <1>3. NetOfFee(order.amount) \in Nat
    BY <1>1, NetNat
  <1>4. /\ order'.price = order.price /\ order'.amount = order.amount
        /\ order'.placed = order.placed
        /\ order'.status \in {"open", "closed", "canceled"}
        /\ order' \in [price : Nat, amount : Nat, placed : 0 .. MaxBars,
                       status : {"open", "closed", "canceled"}]
        /\ order'.status = "open" => ~Touched(lo) /\ order.status = "open" /\ final = "open"
    BY <1>1 DEF fetch_order
  <1>5. /\ Sound(folded)
        /\ folded.cycle_cash_remaining = s.cycle_cash_remaining - IF Touched(lo) THEN cost ELSE 0
        /\ folded.cycle_cash_remaining >= 0
    <2>1. CASE Touched(lo)
      <3>1. s.open_limit # NoLimit /\ s.open_limit.filled_quote_seen = 0
            /\ cost <= s.open_limit.usdt
        BY <2>1 DEF Touched, BacktestInv, AccountOK, RestingOK
      <3> HIDE DEF cost
      <3> QED
        BY <1>2, <2>1, <3>1, FoldSound, FoldPays
    <2>2. CASE ~Touched(lo)
      BY <1>1, <2>2 DEF BacktestInv, AccountOK, CashIsFree, Sound, State
    <2> QED
      BY <2>1, <2>2
  <1>6. st' = t
    BY DEF Fold
  <1> HIDE DEF folded
  <1>7. /\ Sound(t) /\ t.cycle_cash_remaining = folded.cycle_cash_remaining
    BY <1>5, CanceledSound DEF on_limit_canceled, Sound, State
  <1>8. free_usdt' = free_usdt - IF Touched(lo) THEN cost ELSE 0
    BY <1>1 DEF fetch_order
  <1>9. /\ CashIsFree' /\ free_usdt' \in Nat
    <2>1. s.cycle_cash_remaining = free_usdt
      BY DEF BacktestInv, AccountOK, CashIsFree
    <2>2. free_usdt' = st'.cycle_cash_remaining /\ free_usdt' >= 0
      BY <1>5, <1>6, <1>7, <1>8, <2>1
    <2> HIDE DEF cost
    <2>3. free_usdt' \in Int
      BY <1>1, <1>2, <1>8
    <2> QED
      BY <2>2, <2>3 DEF CashIsFree
  <1>10. /\ DustBelowLot' /\ qty' \in Nat /\ base_balance' \in Nat
    <2>1. \/ /\ qty' = qty + NetOfFee(order.amount)
             /\ base_balance' = base_balance + NetOfFee(order.amount)
          \/ qty' = qty /\ base_balance' = base_balance
      BY DEF fetch_order, Fold
    <2>2. base_balance - qty \in 0 .. Grain - 1
      BY DEF BacktestInv, AccountOK, DustBelowLot
    <2>3. base_balance' - qty' = base_balance - qty
          /\ qty' \in Nat /\ base_balance' \in Nat
      BY <1>1, <1>3, <2>1
    <2> QED
      BY <2>2, <2>3 DEF DustBelowLot
  <1>11. RestingOK'
    <2> SUFFICES ASSUME order'.status = "open" PROVE RestingOK'
      BY DEF RestingOK
    <2>1. ~Touched(lo) /\ order.status = "open" /\ ~forgets
      BY <1>4
    <2>2. st'.open_limit = st.open_limit
      BY <1>6, <2>1 DEF folded
    <2> QED
      BY <1>4, <2>1, <2>2 DEF RestingOK, BacktestInv, AccountOK, FilledCost
  <1>12. ref_price' \in Nat
    BY <1>1 DEF Fold
  <1> QED
    BY <1>4, <1>6, <1>7, <1>9, <1>10, <1>11, <1>12 DEF AccountOK, Sound

\* After the last action of a list the poll decides again or ends.
LEMMA ReturnKeepsTurn ==
    ASSUME BacktestInv, NEW did \in BOOLEAN, Return(did), pc = "act",
           Head(todo) # "CancelLimit"
    PROVE  /\ TurnOK'
           /\ pc' \in {"bar", "decide", "act"} /\ steps' \in 0 .. MaxSteps
           /\ todo' \in Seq({"CancelLimit", "MarketBuy", "PlaceLimitBuy", "SellAll"})
           /\ daily' \in DailySeries /\ date' \in Dates /\ bars' \in 0 .. MaxBars
  <1>1. todo \in Todos /\ todo # <<>> /\ price \in Closes
    BY DEF BacktestInv, TurnOK
  <1>2. todo' = <<>> /\ pc' \in {"bar", "decide"}
    BY <1>1, TodoHeads DEF Return
  <1>3. pc' = "decide" => steps' < MaxSteps
    BY <1>2 DEF Return
  <1>4. price' = price /\ steps' = steps /\ daily' = daily /\ date' = date /\ bars' = bars
    BY DEF Return, barVars
  <1> QED
    BY <1>1, <1>2, <1>3, <1>4 DEF TurnOK, Todos, BacktestInv, TypeOK
-----------------------------------------------------------------------------
(* Invariance                                                              *)

\* The first bar finds the seed in the account and in the State.
LEMMA InitEstablishes == Init => BacktestInv
  <1> SUFFICES ASSUME Init PROVE BacktestInv
    OBVIOUS
  <1>1. free_usdt \in Nat /\ Grain \in Nat \ {0} /\ MaxSteps \in Nat \ {0}
        /\ MaxBars \in Nat /\ 0 \in 0 .. MaxBars
    BY BacktestAssumption, PricesAssumption DEF Init
  <1>2. Sound(st) /\ st.cycle_cash_remaining = free_usdt
    BY <1>1, StartCycleSound DEF Init, start_cycle
  <1>3. AccountOK
    BY <1>1, <1>2
    DEF AccountOK, CashIsFree, DustBelowLot, RestingOK, Init, NoOrder
  <1>4. TurnOK
    BY DEF TurnOK, Init, Todos
  <1>5. TypeOK
    BY <1>1, <1>2 DEF TypeOK, Init, NoOrder, Sound
  <1> QED
    BY <1>3, <1>4, <1>5 DEF BacktestInv

\* Every step of the replay keeps the invariant.
LEMMA StepKeeps ==
    ASSUME BacktestInv, [Next]_vars
    PROVE  BacktestInv'
  <1> USE DEF BacktestInv
  <1>1. /\ st \in State /\ qty \in Nat /\ ref_price \in Nat
        /\ daily \in DailySeries /\ date \in Dates /\ bars \in 0 .. MaxBars
        /\ free_usdt \in Nat /\ base_balance \in Nat
        /\ order \in [price : Nat, amount : Nat, placed : 0 .. MaxBars,
                      status : {"open", "closed", "canceled"}]
        /\ pc \in {"bar", "decide", "act"} /\ steps \in 0 .. MaxSteps
        /\ todo \in Seq({"CancelLimit", "MarketBuy", "PlaceLimitBuy", "SellAll"})
    BY DEF TypeOK
  <1>2. /\ Sound(st) /\ st.cycle_cash_remaining = free_usdt
        /\ base_balance - qty \in 0 .. Grain - 1
    BY DEF AccountOK, CashIsFree, DustBelowLot
  <1>3. /\ Grain \in Nat \ {0} /\ MinNotional \in Nat \ {0}
        /\ MaxSteps \in Nat \ {0} /\ MaxBars \in Nat /\ Closes \subseteq Nat \ {0}
    BY BacktestAssumption, PricesAssumption, ParamsAssumption
  <1>4. pc = "act" => price \in Nat \ {0}
    BY <1>3 DEF TurnOK
  <1>5. CASE Bar
    <2> PICK day \in Dates, aged \in BOOLEAN, close \in Closes, wick \in Wicks :
                NextBar(day, aged, close, wick)
      BY <1>5 DEF Bar
    <2> DEFINE s == IF aged THEN Aged(st) ELSE st
    <2>1. /\ Sound(s) /\ s.open_limit = st.open_limit
          /\ s.cycle_cash_remaining = st.cycle_cash_remaining
      BY <1>2, AgedSound
    <2> HIDE DEF s
    <2>2. /\ fetch_order(close - wick, "open")
          /\ Fold(s, close - wick, order.status = "canceled")
      BY DEF NextBar, s
    <2>3. /\ AccountOK'
          /\ st' \in State /\ qty' \in Nat /\ ref_price' \in Nat
          /\ free_usdt' \in Nat /\ base_balance' \in Nat
          /\ order' \in [price : Nat, amount : Nat, placed : 0 .. MaxBars,
                         status : {"open", "closed", "canceled"}]
      BY <2>1, <2>2, FetchKeepsAccount
    <2>4. /\ pc' = "decide" /\ steps' = 0 /\ todo' = <<>> /\ price' \in Closes
          /\ daily' = daily /\ date' \in Dates /\ bars' \in 0 .. MaxBars
      BY <1>1, <1>3 DEF NextBar, TurnOK
    <2>5. TurnOK'
      BY <1>3, <2>4 DEF TurnOK, Todos
    <2>6. TypeOK'
      BY <1>1, <1>3, <2>3, <2>4 DEF TypeOK
    <2> QED
      BY <2>3, <2>5, <2>6
  <1>6. CASE Decide
    <2> DEFINE tp == TakesProfit(qty, st.position_qty, price)
               t == decide(st, tp)
    <2>1. /\ todo' = t /\ pc' = IF todo' = <<>> THEN "bar" ELSE "act"
          /\ pc = "decide" /\ steps' = steps + 1
          /\ UNCHANGED <<st, qty, ref_price, daily, bars, date, price,
                         free_usdt, base_balance, order>>
      BY <1>6 DEF Decide, barVars, venueVars
    <2> HIDE DEF tp
    <2>2. /\ t \in Todos
          /\ t = <<"PlaceLimitBuy">> => ChaseDue(st)
          /\ t \in {<<"MarketBuy">>, <<"SellAll">>} => st.open_limit = NoLimit
      BY <1>2, DecideLists
    <2> HIDE DEF t
    <2>3. steps' \in 0 .. MaxSteps
      BY <1>1, <1>3, <2>1 DEF TurnOK
    <2>4. TurnOK'
      BY <2>1, <2>2 DEF TurnOK, AccountOK, RestingOK, ChaseDue, can_buy, next_usdt
    <2>5. t \in Seq({"CancelLimit", "MarketBuy", "PlaceLimitBuy", "SellAll"})
      BY <2>2, TodoTypes
    <2>6. TypeOK'
      BY <1>1, <2>1, <2>3, <2>5 DEF TypeOK
    <2>7. AccountOK'
      BY <2>1 DEF AccountOK, CashIsFree, DustBelowLot, RestingOK, FilledCost
    <2> QED
      BY <2>4, <2>6, <2>7
  <1>7. CASE CancelLimit
    <2>1. /\ fetch_order(low, "canceled") /\ Fold(st, low, TRUE)
          /\ pc = "act" /\ Head(todo) = "CancelLimit" /\ todo' = Tail(todo)
          /\ pc' = IF todo' # <<>> THEN "act"
                   ELSE IF progressed' /\ steps < MaxSteps THEN "decide" ELSE "bar"
          /\ UNCHANGED <<daily, bars, date, price, steps>>
      BY <1>7 DEF CancelLimit, Acts, Return, barVars
    <2>2. /\ AccountOK'
          /\ st' \in State /\ qty' \in Nat /\ ref_price' \in Nat
          /\ free_usdt' \in Nat /\ base_balance' \in Nat
          /\ order' \in [price : Nat, amount : Nat, placed : 0 .. MaxBars,
                         status : {"open", "closed", "canceled"}]
          /\ order'.status # "open"
      BY <1>2, <2>1, FetchKeepsAccount
    <2>3. todo' \in {<<"SellAll">>, <<"MarketBuy">>}
      BY <2>1, TodoHeads DEF TurnOK
    <2>4. todo' # <<>> /\ todo' # <<"PlaceLimitBuy">> /\ pc' = "act"
      BY <2>1, <2>3
    <2>5. TurnOK'
      BY <2>1, <2>2, <2>3, <2>4 DEF TurnOK, Todos
    <2>6. todo' \in Seq({"CancelLimit", "MarketBuy", "PlaceLimitBuy", "SellAll"})
      BY <2>3, TodoTypes DEF Todos
    <2>7. TypeOK'
      BY <1>1, <2>1, <2>2, <2>4, <2>6 DEF TypeOK
    <2> QED
      BY <2>2, <2>5, <2>7
  <1>8. CASE MarketBuy
    <2> DEFINE usdt == Remaining(st)
               b == apply_buy_fill(st, usdt)
    <2>1. /\ Acts("MarketBuy") /\ usdt >= MinNotional
          /\ free_usdt' = free_usdt - usdt
          /\ base_balance' = base_balance + MarketQty(usdt, price)
          /\ st' = b /\ qty' = qty + MarketQty(usdt, price)
          /\ ref_price' = MarketPrice(price) /\ order' = order /\ Return(TRUE)
      BY <1>8 DEF MarketBuy
    <2>2. /\ Sound(b) /\ b.open_limit = NoLimit /\ usdt \in Nat \ {0}
          /\ b.cycle_cash_remaining = st.cycle_cash_remaining - usdt
          /\ b.cycle_cash_remaining >= 0
      BY <1>2, <2>1, BuyPays
    <2> HIDE DEF b, usdt
    <2>3. /\ pc = "act" /\ Head(todo) = "MarketBuy" /\ todo # <<>>
      BY <2>1 DEF Acts, TurnOK
    <2>4. MarketQty(usdt, price) \in Nat /\ MarketPrice(price) \in Nat
      BY <1>4, <2>2, <2>3, BoughtNat
    <2>5. order.status # "open"
      BY <2>3, TodoHeads DEF TurnOK
    <2>6. free_usdt' \in Nat /\ free_usdt' = st'.cycle_cash_remaining
      BY <1>1, <1>2, <2>1, <2>2
    <2>7. qty' \in Nat /\ base_balance' \in Nat /\ base_balance' - qty' = base_balance - qty
      <3> DEFINE grains == MarketQty(usdt, price)
      <3>1. /\ qty' = qty + grains /\ base_balance' = base_balance + grains
            /\ grains \in Nat
        BY <2>1, <2>4
      <3> HIDE DEF grains
      <3> QED
        BY <1>1, <3>1
    <2>8. AccountOK'
      BY <1>2, <2>1, <2>2, <2>5, <2>6, <2>7
      DEF AccountOK, CashIsFree, DustBelowLot, RestingOK
    <2>9. /\ TurnOK'
          /\ pc' \in {"bar", "decide", "act"} /\ steps' \in 0 .. MaxSteps
          /\ todo' \in Seq({"CancelLimit", "MarketBuy", "PlaceLimitBuy", "SellAll"})
          /\ daily' \in DailySeries /\ date' \in Dates /\ bars' \in 0 .. MaxBars
      BY <2>1, <2>3, ReturnKeepsTurn
    <2>10. TypeOK'
      BY <1>1, <2>1, <2>2, <2>4, <2>6, <2>7, <2>9 DEF TypeOK, Sound
    <2> QED
      BY <2>8, <2>9, <2>10
  <1>9. CASE NothingToBuy
    <2>1. /\ pc = "act" /\ Head(todo) = "MarketBuy" /\ Return(FALSE)
          /\ UNCHANGED <<st, qty, ref_price, free_usdt, base_balance, order>>
      BY <1>9 DEF NothingToBuy, Acts, venueVars
    <2>2. /\ TurnOK'
          /\ pc' \in {"bar", "decide", "act"} /\ steps' \in 0 .. MaxSteps
          /\ todo' \in Seq({"CancelLimit", "MarketBuy", "PlaceLimitBuy", "SellAll"})
          /\ daily' \in DailySeries /\ date' \in Dates /\ bars' \in 0 .. MaxBars
      BY <2>1, ReturnKeepsTurn
    <2>3. AccountOK'
      BY <2>1 DEF AccountOK, CashIsFree, DustBelowLot, RestingOK, FilledCost
    <2>4. TypeOK'
      BY <1>1, <2>1, <2>2 DEF TypeOK
    <2> QED
      BY <2>2, <2>3, <2>4
  <1>10. CASE place_limit_buy
    <2> DEFINE limit == LimitPrice(ref_price, compute_x(atr14, price))
               usdt == next_usdt(st)
               ol == [id |-> bars, usdt |-> usdt, filled_quote_seen |-> 0]
    <2>1. /\ Acts("PlaceLimitBuy") /\ limit \in Nat \ {0}
          /\ order' = [price |-> limit, amount |-> LimitQty(usdt, limit),
                       status |-> "open", placed |-> bars]
          /\ st' = on_limit_placed(st, ol) /\ Return(TRUE)
          /\ UNCHANGED <<qty, ref_price, free_usdt, base_balance>>
      BY <1>10 DEF place_limit_buy
    <2> HIDE DEF limit
    <2>2. pc = "act" /\ Head(todo) = "PlaceLimitBuy" /\ todo # <<>>
      BY <2>1 DEF Acts, TurnOK
    <2>3. ChaseDue(st)
      BY <2>2, TodoHeads DEF TurnOK
    <2>4. usdt \in Nat /\ usdt >= MinNotional /\ Sound(st')
      <3>1. bars \in Nat
        BY <1>1, <1>3
      <3>2. usdt \in Nat /\ Sound(on_limit_placed(st, ol))
        BY <1>2, <2>3, <3>1, PlacedSound
      <3> QED
        BY <2>1, <2>3, <3>2 DEF ChaseDue, can_buy
    <2> HIDE DEF usdt
    <2>5. /\ LimitQty(usdt, limit) \in Nat
          /\ LimitCost(LimitQty(usdt, limit), limit) <= usdt
      BY <2>1, <2>4, LimitFits
    <2>6. st'.open_limit = ol /\ st'.cycle_cash_remaining = st.cycle_cash_remaining
      BY <1>1, <2>1 DEF on_limit_placed, State
    <2>7. ol # NoLimit
      BY <1>3, <2>4 DEF NoLimit
    <2>8. RestingOK'
      BY <2>1, <2>5, <2>6, <2>7 DEF RestingOK, FilledCost
    <2>9. AccountOK'
      BY <1>2, <2>1, <2>4, <2>6, <2>8 DEF AccountOK, CashIsFree, DustBelowLot
    <2>10. /\ TurnOK'
           /\ pc' \in {"bar", "decide", "act"} /\ steps' \in 0 .. MaxSteps
           /\ todo' \in Seq({"CancelLimit", "MarketBuy", "PlaceLimitBuy", "SellAll"})
           /\ daily' \in DailySeries /\ date' \in Dates /\ bars' \in 0 .. MaxBars
      BY <2>1, <2>2, ReturnKeepsTurn
    <2>11. order' \in [price : Nat, amount : Nat, placed : 0 .. MaxBars,
                       status : {"open", "closed", "canceled"}]
      BY <1>1, <2>1, <2>5
    <2>12. TypeOK'
      BY <1>1, <2>1, <2>4, <2>10, <2>11 DEF TypeOK, Sound
    <2> QED
      BY <2>9, <2>10, <2>12
  <1>11. CASE SellAll
    <2> DEFINE amount == round_down_amount(base_balance)
               cash == free_usdt + SaleProceeds(amount, price)
    <2>1. /\ Acts("SellAll") /\ free_usdt' = cash /\ base_balance' = base_balance - amount
          /\ st' = start_cycle(cash, st.cycle_id + 1)
          /\ qty' = 0 /\ ref_price' = 0 /\ order' = order /\ Return(TRUE)
      BY <1>11 DEF SellAll, AmountSold
    <2>2. amount \in Nat /\ base_balance - amount \in 0 .. Grain - 1
      BY <1>1, <1>3, DivBounds DEF round_down_amount
    <2> HIDE DEF amount
    <2>3. pc = "act" /\ Head(todo) = "SellAll" /\ todo # <<>>
      BY <2>1 DEF Acts, TurnOK
    <2>4. cash \in Nat
      <3>1. price \in Nat
        BY <1>4, <2>3
      <3>2. SaleProceeds(amount, price) \in Nat
        BY <2>2, <3>1, SoldNat
      <3> QED
        BY <1>1, <3>2
    <2> HIDE DEF cash
    <2>5. Sound(st') /\ st'.cycle_cash_remaining = cash
      <3>1. st.cycle_id + 1 \in Nat
        BY <1>1 DEF State
      <3>2. start_cycle(cash, st.cycle_id + 1).cycle_cash_remaining = cash
        BY DEF start_cycle
      <3> QED
        BY <2>1, <2>4, <3>1, <3>2, StartCycleSound
    <2>6. order.status # "open"
      BY <2>3, TodoHeads DEF TurnOK
    <2>7. AccountOK'
      BY <1>1, <2>1, <2>2, <2>5, <2>6 DEF AccountOK, CashIsFree, DustBelowLot, RestingOK
    <2>8. /\ TurnOK'
          /\ pc' \in {"bar", "decide", "act"} /\ steps' \in 0 .. MaxSteps
          /\ todo' \in Seq({"CancelLimit", "MarketBuy", "PlaceLimitBuy", "SellAll"})
          /\ daily' \in DailySeries /\ date' \in Dates /\ bars' \in 0 .. MaxBars
      BY <2>1, <2>3, ReturnKeepsTurn
    <2>9. base_balance' \in Nat
      BY <1>1, <1>3, <2>1, <2>2
    <2>10. TypeOK'
      BY <1>1, <2>1, <2>4, <2>5, <2>8, <2>9 DEF TypeOK, Sound
    <2> QED
      BY <2>7, <2>8, <2>10
  <1>12. CASE UNCHANGED vars
    BY <1>12
    DEF vars, barVars, venueVars, TypeOK, AccountOK, TurnOK, CashIsFree,
        DustBelowLot, RestingOK, FilledCost, ChaseDue, can_buy, next_usdt
  <1> QED
    BY <1>5, <1>6, <1>7, <1>8, <1>9, <1>10, <1>11, <1>12 DEF Next

\* What every state of a backtest satisfies, whatever candles it replays: the
\* types, the account, and the decision under execution.
THEOREM Invariance == Spec => []BacktestInv
  <1>1. Init => BacktestInv
    BY InitEstablishes
  <1>2. BacktestInv /\ [Next]_vars => BacktestInv'
    BY StepKeeps
  <1> QED
    BY <1>1, <1>2, PTL DEF Spec

\* Every variable of a backtest keeps its type, its money and its coins
\* natural numbers: no purchase costs more than the account holds.
THEOREM TypeCorrectness == Spec => []TypeOK
  <1>1. BacktestInv => TypeOK
    BY DEF BacktestInv
  <1> QED
    BY <1>1, Invariance, PTL

\* The cash of the State is the cash of the simulated account.
THEOREM ReplayedCash == Spec => []CashIsFree
  <1>1. BacktestInv => CashIsFree
    BY DEF BacktestInv, AccountOK
  <1> QED
    BY <1>1, Invariance, PTL

\* The position of the State is that of the simulated account, but for less
\* than a lot that the sales of all cycles together left behind.
THEOREM ReplayedPosition == Spec => []DustBelowLot
  <1>1. BacktestInv => DustBelowLot
    BY DEF BacktestInv, AccountOK
  <1> QED
    BY <1>1, Invariance, PTL

-----------------------------------------------------------------------------
(* The ATR of the day                                                      *)

\* Candles in the order of their days.
Dated(candles) ==
    /\ candles \in Seq(Candle)
    /\ \A i \in 2 .. Len(candles) : candles[i - 1].date < candles[i].date

LEMMA DatesAscend ==
    ASSUME NEW candles, Dated(candles)
    PROVE  \A i, j \in 1 .. Len(candles) : i < j => candles[i].date < candles[j].date
  <1> DEFINE date0 == [i \in 1 .. Len(candles) |-> candles[i].date]
             S == {n \in Nat : \A i, j \in 1 .. Len(candles) :
                                  i < j /\ j <= n => date0[i] < date0[j]}
  <1>1. /\ Len(candles) \in Nat
        /\ \A i \in 1 .. Len(candles) : date0[i] \in Nat
        /\ \A i \in 2 .. Len(candles) : date0[i - 1] < date0[i]
    <2>1. Len(candles) \in Nat /\ \A i \in 1 .. Len(candles) : candles[i] \in Candle
      BY DEF Dated
    <2>2. \A i \in 1 .. Len(candles) : date0[i] \in Nat
      BY <2>1 DEF Candle
    <2>3. \A i \in 2 .. Len(candles) : i - 1 \in 1 .. Len(candles) /\ i \in 1 .. Len(candles)
      BY <2>1
    <2> QED
      BY <2>1, <2>2, <2>3 DEF Dated
  <1>2. \A i \in 1 .. Len(candles) : date0[i] = candles[i].date
    OBVIOUS
  <1> HIDE DEF date0
  <1>3. 0 \in S
    OBVIOUS
  <1>4. ASSUME NEW n \in S PROVE n + 1 \in S
    <2> SUFFICES ASSUME NEW i \in 1 .. Len(candles), NEW j \in 1 .. Len(candles),
                        i < j, j = n + 1
                 PROVE  date0[i] < date0[j]
      OBVIOUS
    <2>1. j - 1 \in 1 .. Len(candles) /\ j - 1 <= n /\ j \in 2 .. Len(candles)
      BY <1>1
    <2>2. date0[j - 1] < date0[j]
      BY <1>1, <2>1
    <2>3. i < j - 1 => date0[i] < date0[j - 1]
      BY <2>1
    <2>4. i < j - 1 \/ i = j - 1
      BY <1>1
    <2> QED
      BY <1>1, <2>1, <2>2, <2>3, <2>4
  <1> HIDE DEF S
  <1>5. S = Nat
    BY <1>3, <1>4, Induct DEF S
  <1> SUFFICES ASSUME NEW i \in 1 .. Len(candles), NEW j \in 1 .. Len(candles), i < j
               PROVE  date0[i] < date0[j]
    BY <1>2
  <1>6. j \in S /\ j <= j
    BY <1>1, <1>5
  <1> QED
    BY <1>6 DEF S

\* The candles of the days before a day are the first m.
LEMMA DaysBefore ==
    ASSUME NEW candles, Dated(candles), NEW day \in Nat
    PROVE  \E m \in 0 .. Len(candles) :
              \A i \in 1 .. Len(candles) : candles[i].date < day <=> i <= m
  <1> DEFINE n == Len(candles)
             S == {m \in Nat : \A i \in 1 .. n : i > m => ~(candles[i].date < day)}
  <1>1. n \in Nat /\ \A i \in 1 .. n : candles[i].date \in Nat
    <2>1. n \in Nat /\ \A i \in 1 .. n : candles[i] \in Candle
      BY DEF Dated
    <2> QED
      BY <2>1 DEF Candle
  <1>2. n \in S
    BY <1>1
  <1>3. PICK m \in S : \A k \in S : ~(k < m)
    <2> HIDE DEF S
    <2> QED
      BY <1>2, LeastNatural DEF S
  <1>4. m \in Nat /\ m <= n
    BY <1>1, <1>2, <1>3
  <1>5. m > 0 => candles[m].date < day
    <2> SUFFICES ASSUME m > 0, ~(candles[m].date < day) PROVE FALSE
      OBVIOUS
    <2>1. m - 1 \in S
      BY <1>1, <1>3, <1>4
    <2>2. m - 1 < m
      BY <1>4
    <2> HIDE DEF S
    <2> QED
      BY <1>3, <2>1, <2>2
  <1>6. \A i \in 1 .. n : i <= m => candles[i].date < day
    <2> SUFFICES ASSUME NEW i \in 1 .. n, i <= m PROVE candles[i].date < day
      OBVIOUS
    <2>1. m \in 1 .. n /\ (i < m => candles[i].date < candles[m].date)
      BY <1>1, <1>4, DatesAscend
    <2> QED
      BY <1>1, <1>4, <1>5, <2>1
  <1>7. \A i \in 1 .. n : candles[i].date < day => i <= m
    BY <1>1, <1>3, <1>4
  <1>8. /\ m \in 0 .. n
        /\ \A i \in 1 .. n : candles[i].date < day <=> i <= m
    BY <1>1, <1>4, <1>6, <1>7
  <1> QED
    BY <1>8

\* What the day may use: the ATR at the last of these candles.
LEMMA AtrOfTheDay ==
    ASSUME NEW candles, Dated(candles), NEW day \in Nat, NEW m \in 0 .. Len(candles),
           \A i \in 1 .. Len(candles) : candles[i].date < day <=> i <= m
    PROVE  /\ Before(candles, day) = SubSeq(candles, 1, m)
           /\ AtrOf(candles, day) = IF m > AtrPeriod
                                    THEN Smoothed(true_ranges(candles))[m - 1] ELSE NoAtr
  <1> DEFINE n == Len(candles)
             P == AtrPeriod
             schedule == _atr_schedule(candles)
             idx == Settled(schedule, day)
  <1>1. n \in Nat /\ m \in Nat /\ m <= n /\ DOMAIN candles = 1 .. n /\ P \in Nat \ {0}
    BY PricesAssumption DEF Dated
  <1>2. Before(candles, day) = SubSeq(candles, 1, m)
    <2>1. {i \in DOMAIN candles : candles[i].date < day} = 1 .. m
      BY <1>1
    <2>2. Cardinality(1 .. m) = m
      <3>1. Cardinality(1 .. m) = IF 1 > m THEN 0 ELSE m - 1 + 1
        BY <1>1, FS_Interval
      <3> QED
        BY <1>1, <3>1
    <2> QED
      BY <2>1, <2>2 DEF Before
  <1>3. /\ DOMAIN schedule = 1 .. n - P
        /\ \A k \in 1 .. n - P : /\ schedule[k].date = candles[k + P].date
                                 /\ schedule[k].atr = Smoothed(true_ranges(candles))[k + P - 1]
    BY DEF _atr_schedule
  <1> HIDE DEF schedule, P
  <1>4. idx = IF m > P THEN m - P ELSE 0
    <2>1. {k \in DOMAIN schedule : schedule[k].date < day} = 1 .. m - P
      <3>1. \A k \in 1 .. n - P : schedule[k].date < day <=> k + P <= m
        <4> SUFFICES ASSUME NEW k \in 1 .. n - P
                     PROVE  schedule[k].date < day <=> k + P <= m
          OBVIOUS
        <4>1. k + P \in 1 .. n
          BY <1>1
        <4>2. schedule[k].date = candles[k + P].date
          BY <1>3
        <4> QED
          BY <4>1, <4>2
      <3>2. \A k \in 1 .. n - P : k + P <= m <=> k <= m - P
        BY <1>1
      <3> QED
        BY <1>1, <1>3, <3>1, <3>2
    <2>2. idx = Cardinality(1 .. m - P)
      BY <2>1 DEF Settled
    <2>3. Cardinality(1 .. m - P) = IF 1 > m - P THEN 0 ELSE m - P - 1 + 1
      BY <1>1, FS_Interval
    <2> HIDE DEF idx
    <2> QED
      BY <1>1, <2>2, <2>3
  <1>5. AtrOf(candles, day) = IF idx > 0 THEN schedule[idx].atr ELSE NoAtr
    BY DEF AtrOf, schedule
  <1> HIDE DEF idx
  <1>6. AtrOf(candles, day) = IF m > P THEN Smoothed(true_ranges(candles))[m - 1] ELSE NoAtr
    <2>1. CASE m > P
      <3>1. idx = m - P /\ idx > 0 /\ idx \in 1 .. n - P /\ idx + P - 1 = m - 1
        BY <1>1, <1>4, <2>1
      <3> QED
        BY <1>3, <1>5, <2>1, <3>1
    <2>2. CASE ~(m > P)
      BY <1>4, <1>5, <2>2
    <2> QED
      BY <2>1, <2>2
  <1> QED
    BY <1>2, <1>6 DEF P

\* Their own ATR is the same one.
LEMMA WilderOfTheDay ==
    ASSUME NEW candles, Dated(candles), NEW m \in 0 .. Len(candles)
    PROVE  LET past == SubSeq(candles, 1, m)
           IN  /\ Smoothable(past) <=> m > AtrPeriod
               /\ m > AtrPeriod => wilder_atr(past) = Smoothed(true_ranges(candles))[m - 1]
  <1> DEFINE past == SubSeq(candles, 1, m)
             trs == true_ranges(candles)
             then == true_ranges(past)
  <1>1. /\ candles \in Seq(Candle) /\ Len(candles) \in Nat /\ m \in Nat /\ m <= Len(candles)
        /\ AtrPeriod \in Nat \ {0}
    BY PricesAssumption DEF Dated
  <1>2. past \in Seq(Candle) /\ Len(past) = m /\ \A i \in 1 .. m : past[i] = candles[i]
    <2>1. \A i \in 1 .. m : candles[i] \in Candle
      BY <1>1
    <2>2. /\ past \in Seq(Candle)
          /\ Len(past) = IF 1 <= m THEN m - 1 + 1 ELSE 0
          /\ \A i \in 1 .. m - 1 + 1 : past[i] = candles[1 + i - 1]
      BY <1>1, <2>1, SubSeqProperties
    <2> HIDE DEF past
    <2> QED
      BY <1>1, <2>2
  <1> HIDE DEF past
  <1>3. Smoothable(past) <=> m > AtrPeriod
    BY <1>2 DEF Smoothable
  <1>4. ASSUME m > AtrPeriod PROVE wilder_atr(past) = Smoothed(trs)[m - 1]
    <2>1. Len(then) = m - 1 /\ Len(trs) \in Nat /\ m - 1 <= Len(trs) /\ m - 1 \in Nat \ {0}
      BY <1>1, <1>2, <1>4, TrueRanges
    <2>2. \A k \in 1 .. m - 1 : then[k] = trs[k]
      <3> SUFFICES ASSUME NEW k \in 1 .. m - 1 PROVE then[k] = trs[k]
        OBVIOUS
      <3>1. past[k] = candles[k] /\ past[k + 1] = candles[k + 1]
        BY <1>1, <1>2
      <3>2. k \in 1 .. Len(past) - 1 /\ k \in 1 .. Len(candles) - 1
        BY <1>1, <1>2
      <3> QED
        BY <3>1, <3>2 DEF true_ranges
    <2> HIDE DEF then, trs
    <2>3. \A k \in 1 .. Len(then) : Smoothed(then)[k] = Smoothed(trs)[k]
      BY <2>1, <2>2, SmoothedPrefix
    <2>4. wilder_atr(past) = Smoothed(then)[Len(then)]
      BY DEF wilder_atr, then
    <2> QED
      BY <2>1, <2>3, <2>4
  <1> QED
    BY <1>3, <1>4 DEF past, trs

\* The candles of a run are such a series.
LEMMA DailyDated == TypeOK => Dated(daily) /\ Dates \subseteq Nat
  BY BacktestAssumption DEF TypeOK, Dated

\* No ATR of a backtest knows a candle that is not over, for candles of any number
\* and with any gaps: _atr_schedule and the bisect of run_backtest choose the ATR
\* that wilder_atr gives for the candles of the days before.
THEOREM SettledDays == Spec => []NoLookAhead
  <1>1. TypeOK => NoLookAhead
    <2> SUFFICES ASSUME TypeOK, NEW day \in Dates
                 PROVE  AtrOf(daily, day) = IF Smoothable(Before(daily, day))
                                            THEN wilder_atr(Before(daily, day)) ELSE NoAtr
      BY DEF NoLookAhead
    <2>1. Dated(daily) /\ day \in Nat
      BY DailyDated
    <2>2. PICK m \in 0 .. Len(daily) :
                 \A i \in 1 .. Len(daily) : daily[i].date < day <=> i <= m
      BY <2>1, DaysBefore
    <2>3. /\ Before(daily, day) = SubSeq(daily, 1, m)
          /\ AtrOf(daily, day) = IF m > AtrPeriod
                                 THEN Smoothed(true_ranges(daily))[m - 1] ELSE NoAtr
      BY <2>1, <2>2, AtrOfTheDay
    <2> QED
      BY <2>1, <2>3, WilderOfTheDay
  <1> QED
    BY <1>1, TypeCorrectness, PTL

\* Its fraction has a denominator.
LEMMA AtrIsRatio ==
    ASSUME TypeOK, NEW day \in Dates
    PROVE  AtrOf(daily, day) \in Ratio
  <1>1. Dated(daily) /\ day \in Nat /\ daily \in Seq(Candle) /\ AtrPeriod \in Nat \ {0}
    BY DailyDated, PricesAssumption DEF Dated
  <1>2. PICK m \in 0 .. Len(daily) :
               \A i \in 1 .. Len(daily) : daily[i].date < day <=> i <= m
    BY <1>1, DaysBefore
  <1> DEFINE trs == true_ranges(daily)
  <1>3. AtrOf(daily, day) = IF m > AtrPeriod THEN Smoothed(trs)[m - 1] ELSE NoAtr
    BY <1>1, <1>2, AtrOfTheDay
  <1>4. /\ trs \in Seq(Nat) /\ Len(daily) \in Nat
        /\ Len(trs) = IF Len(daily) = 0 THEN 0 ELSE Len(daily) - 1
    BY <1>1, TrueRanges
  <1> HIDE DEF trs
  <1>5. \A k \in 1 .. Len(trs) : Smoothed(trs)[k] \in Ratio
    BY <1>4, SmoothedTypes
  <1>6. m > AtrPeriod => m - 1 \in 1 .. Len(trs)
    BY <1>1, <1>4
  <1>7. NoAtr \in Ratio
    BY DEF NoAtr, Ratio
  <1> QED
    BY <1>3, <1>5, <1>6, <1>7

\* The first half of ChasesDown, with the type of the ATR it rests on.
ChaseInv ==
    /\ atr14 \in Ratio
    /\ order.status = "open" =>
          2 * XFloorDen * order.price <= 2 * (XFloorDen - 1) * ref_price + XFloorDen * Tick

LEMMA StepChases ==
    ASSUME BacktestInv, ChaseInv, [Next]_vars
    PROVE  ChaseInv'
  <1>1. /\ TypeOK /\ TurnOK
    BY DEF BacktestInv
  <1>2. CASE Bar
    <2>1. PICK day \in Dates, aged \in BOOLEAN, close \in Closes, wick \in Wicks :
              NextBar(day, aged, close, wick)
      BY <1>2 DEF Bar
    <2>2. atr14' \in Ratio
      BY <1>1, <2>1, AtrIsRatio DEF NextBar
    <2> DEFINE lo == close - wick
               s == IF aged THEN Aged(st) ELSE st
    <2>3. fetch_order(lo, "open") /\ Fold(s, lo, order.status = "canceled")
      BY <2>1 DEF NextBar
    <2> HIDE DEF lo, s
    <2>4. CASE Touched(lo)
      <3>1. order' = [order EXCEPT !.status = "closed"]
        BY <2>3, <2>4 DEF fetch_order
      <3>2. order'.status = "closed"
        BY <1>1, <3>1 DEF TypeOK
      <3> QED
        BY <2>2, <3>2 DEF ChaseInv
    <2>5. CASE ~Touched(lo)
      <3>1. ref_price' = ref_price /\ order'.price = order.price
            /\ (order'.status = "open" => order.status = "open")
        BY <1>1, <2>3, <2>5 DEF fetch_order, Fold, TypeOK
      <3> QED
        BY <2>2, <3>1 DEF ChaseInv
    <2> QED
      BY <2>4, <2>5
  <1>3. CASE CancelLimit
    <2>1. order'.status # "open" /\ atr14' = atr14
      BY <1>1, <1>3 DEF CancelLimit, Return, fetch_order, Touched, TypeOK, barVars
    <2> QED
      BY <2>1 DEF ChaseInv
  <1>4. CASE MarketBuy
    <2>1. order.status # "open" /\ order' = order /\ atr14' = atr14
      <3>1. pc = "act" /\ Head(todo) = "MarketBuy" /\ todo \in Todos /\ todo # <<>>
        BY <1>1, <1>4 DEF MarketBuy, Acts, TurnOK
      <3>2. todo = <<"MarketBuy">>
        BY <3>1, TodoHeads
      <3> QED
        BY <1>1, <1>4, <3>2 DEF MarketBuy, Return, barVars, TurnOK
    <2> QED
      BY <2>1 DEF ChaseInv
  <1>5. CASE SellAll
    <2>1. order.status # "open" /\ order' = order /\ atr14' = atr14
      <3>1. pc = "act" /\ Head(todo) = "SellAll" /\ todo \in Todos /\ todo # <<>>
        BY <1>1, <1>5 DEF SellAll, Acts, TurnOK
      <3>2. todo = <<"SellAll">>
        BY <3>1, TodoHeads
      <3> QED
        BY <1>1, <1>5, <3>2 DEF SellAll, Return, barVars, TurnOK
    <2> QED
      BY <2>1 DEF ChaseInv
  <1>6. CASE place_limit_buy
    <2> DEFINE limit == LimitPrice(ref_price, compute_x(atr14, price))
    <2>1. /\ order'.price = limit /\ ref_price' = ref_price /\ atr14' = atr14
          /\ pc = "act"
      BY <1>6 DEF place_limit_buy, Acts, Return, barVars
    <2>2. price \in Nat \ {0} /\ ref_price \in Nat /\ atr14 \in Ratio
      BY <1>1, <2>1, BacktestAssumption DEF TurnOK, TypeOK, ChaseInv
    <2>3. 2 * XFloorDen * limit <= 2 * (XFloorDen - 1) * ref_price + XFloorDen * Tick
      BY <2>2, LimitBelowFloor
    <2> HIDE DEF limit
    <2> QED
      BY <2>1, <2>2, <2>3 DEF ChaseInv
  <1>7. CASE Decide \/ NothingToBuy \/ UNCHANGED vars
    <2>1. UNCHANGED <<order, ref_price, atr14>>
      BY <1>7 DEF Decide, NothingToBuy, Return, vars, barVars, venueVars
    <2> QED
      BY <2>1 DEF ChaseInv
  <1> QED
    BY <1>2, <1>3, <1>4, <1>5, <1>6, <1>7 DEF Next

\* The chase of a backtest only goes down and within its tranche, for any candles,
\* ticks and multiples of the ATR: compute_x never lets a limit come closer to the
\* last fill than the floor, and _round_price moves it by half a tick at most.
THEOREM ChaseGoesDown == Spec => []ChasesDown
  <1>1. Init => ChaseInv
    BY DEF Init, NoOrder, ChaseInv, NoAtr, Ratio
  <1>2. BacktestInv /\ ChaseInv /\ [Next]_vars => ChaseInv'
    BY StepChases
  <1>3. BacktestInv /\ ChaseInv => ChasesDown
    BY DEF BacktestInv, AccountOK, RestingOK, ChaseInv, ChasesDown
  <1> QED
    BY <1>1, <1>2, <1>3, Invariance, PTL DEF Spec

-----------------------------------------------------------------------------
(* Fills and bars                                                          *)

\* The order was placed in this bar: its low came before it.
Young == order.status = "open" /\ order.placed = bars

Profitable == should_take_profit(st, TakesProfit(qty, st.position_qty, price))

\* The position is worth no more than it must be to take profit.
Even == qty * price * (FeeDen - 1) * TpDen
          <= st.position_qty * (TpDen + 1) * Grain * FeeDen

\* A first price and a position come and go together.
HoldingOK == IF st.ref THEN st.position_qty > 0 ELSE st.position_qty = 0 /\ qty = 0

\* A chase is due only in the bar of the fill before it, which restarted the
\* timer; so a new order is not canceled by the fallback of its own bar.
ChaseOK == ChaseDue(st) => st.last_fill_time = "recent" /\ pc # "bar"

\* An order of an earlier bar has stood the low of this one; one of this bar
\* is left alone until the next.
RestOK ==
    /\ order.placed <= bars
    /\ order.status = "open" => Young \/ ~Touched(low)
    /\ Young => /\ pc # "act" /\ st.last_fill_time = "recent"
                /\ pc = "decide" => steps >= 1

MarketTodos == {<<"MarketBuy">>, <<"CancelLimit", "MarketBuy">>}
SaleTodos == {<<"SellAll">>, <<"CancelLimit", "SellAll">>}

\* A poll sells at its first decision only and buys at market at its first two.
OrderOfTrades ==
    /\ pc = "act" => steps >= 1
    /\ todo \in SaleTodos => steps = 1
    /\ todo \in MarketTodos => /\ st.step_target_usdt > 0 /\ steps <= 2
                               /\ Even /\ (progressed => st.ref)
    /\ todo = <<"CancelLimit", "MarketBuy">> => st.ref
    /\ todo = <<"PlaceLimitBuy">> => ~Profitable
    /\ pc = "decide" => /\ steps >= 1 => ~Profitable
                        /\ steps >= 2 => ~Bootstrapping(st) /\ ~FallbackDue(st)

BarInv == HoldingOK /\ ChaseOK /\ RestOK /\ OrderOfTrades

\* What is bought at market is worth less than it cost: far from a profit.
LEMMA BuyingLoses ==
    ASSUME NEW u \in Nat \ {0}, NEW p \in Nat \ {0}
    PROVE  MarketQty(u, p) * p * (FeeDen - 1) * TpDen < u * (TpDen + 1) * Grain * FeeDen
  <1> DEFINE d == p * (SlipDen + 1) * FeeDen
             n == u * Grain * SlipDen * (FeeDen - 1)
             q == n \div d
             c == (SlipDen + 1) * FeeDen
             a == u * Grain
  <1>1. /\ Grain \in Nat \ {0} /\ SlipDen \in Nat \ {0} /\ SlipDen + 1 \in Nat \ {0}
        /\ FeeDen \in Nat \ {0} /\ FeeDen - 1 \in Nat /\ TpDen \in Nat \ {0}
    BY PricesAssumption
  <1>2. a \in Nat \ {0} /\ c \in Nat \ {0}
    BY <1>1, TimesPos
  <1>3. d \in Nat \ {0} /\ d = p * c
    <2>1. p * (SlipDen + 1) \in Nat \ {0}
      BY <1>1, TimesPos
    <2>2. d \in Nat \ {0}
      BY <1>1, <2>1, TimesPos
    <2> QED
      BY <1>1, <2>2, SMTT(30)
  <1>4. SlipDen * (FeeDen - 1) \in Nat /\ SlipDen * (FeeDen - 1) <= c
    <2>1. SlipDen * (FeeDen - 1) \in Nat
      BY <1>1, TimesNat
    <2>2. c = SlipDen * (FeeDen - 1) + SlipDen + FeeDen
      BY <1>1, SMTT(30)
    <2> HIDE DEF c
    <2> QED
      BY <1>1, <2>1, <2>2
  <1>5. n \in Nat /\ n = SlipDen * (FeeDen - 1) * a
    <2>1. SlipDen * (FeeDen - 1) * a \in Nat
      BY <1>2, <1>4, TimesNat
    <2>2. n = SlipDen * (FeeDen - 1) * a
      BY <1>1, SMTT(30)
    <2> QED
      BY <2>1, <2>2
  <1>6. q \in Nat /\ q * d <= n
    BY <1>3, <1>5, DivBounds
  <1>7. n <= c * a
    BY <1>2, <1>4, <1>5, TimesMonotone
  <1>8. MarketQty(u, p) = q
    BY DEF MarketQty
  <1> HIDE DEF q, n, d, a, c
  <1>9. q * p \in Nat /\ q * p <= a
    <2>1. q * p \in Nat
      BY <1>6, TimesNat
    <2>2. (q * p) * c <= a * c
      <3>1. (q * p) * c = q * d
        BY <1>2, <1>3, <1>6, SMTT(30)
      <3>2. c * a = a * c /\ q * d \in Int /\ a * c \in Int
        BY <1>2, <1>3, <1>6, SMTT(30)
      <3> QED
        BY <1>5, <1>6, <1>7, <3>1, <3>2
    <2> QED
      BY <1>2, <2>1, <2>2, TimesCancel
  <1> DEFINE k == (FeeDen - 1) * TpDen
             m == (TpDen + 1) * FeeDen
  <1>10. k \in Nat /\ m \in Nat /\ k < m
    <2>1. k \in Nat /\ m \in Nat
      BY <1>1, TimesNat
    <2>2. m = k + TpDen + FeeDen
      BY <1>1, SMTT(30)
    <2> HIDE DEF k, m
    <2> QED
      BY <1>1, <2>1, <2>2
  <1> HIDE DEF k, m
  <1>11. (q * p) * k <= a * k /\ (q * p) * k \in Nat /\ a * k \in Nat
    BY <1>2, <1>9, <1>10, TimesMonotone, TimesNat
  <1>12. a * k < a * m /\ a * m \in Nat
    BY <1>2, <1>10, SMTT(30)
  <1>13. /\ q * p * (FeeDen - 1) * TpDen = (q * p) * k
         /\ u * (TpDen + 1) * Grain * FeeDen = a * m
    BY <1>1, <1>6, SMTT(30) DEF k, m, a
  <1> QED
    BY <1>8, <1>11, <1>12, <1>13

\* So no market buy makes the bar one to take profit in.
LEMMA BuyingStaysBelow ==
    ASSUME Even, qty \in Nat, st.position_qty \in Nat, price \in Nat \ {0},
           NEW u \in Nat \ {0}
    PROVE  ~TakesProfit(qty + MarketQty(u, price), st.position_qty + u, price)
  <1> DEFINE g == MarketQty(u, price)
             f == price * (FeeDen - 1) * TpDen
             h == (TpDen + 1) * Grain * FeeDen
  <1>1. /\ Grain \in Nat \ {0} /\ FeeDen \in Nat \ {0} /\ FeeDen - 1 \in Nat
        /\ TpDen \in Nat \ {0} /\ TpDen + 1 \in Nat
    BY PricesAssumption
  <1>2. g \in Nat /\ g * price * (FeeDen - 1) * TpDen < u * (TpDen + 1) * Grain * FeeDen
    BY BoughtNat, BuyingLoses
  <1> HIDE DEF g
  <1>3. f \in Nat /\ h \in Nat
    BY <1>1, TimesNat
  <1>4. \A x \in Nat : /\ x * price * (FeeDen - 1) * TpDen = x * f
                       /\ x * (TpDen + 1) * Grain * FeeDen = x * h
    BY <1>1, SMTT(30)
  <1> HIDE DEF f, h
  <1>5. qty * f <= st.position_qty * h /\ g * f < u * h
    BY <1>2, <1>4 DEF Even
  <1>6. (qty + g) * f = qty * f + g * f
    BY <1>2, <1>3, SMTT(30)
  <1>7. (st.position_qty + u) * h = st.position_qty * h + u * h
    BY <1>3, SMTT(30)
  <1>8. /\ qty * f \in Nat /\ g * f \in Nat
        /\ st.position_qty * h \in Nat /\ u * h \in Nat
    BY <1>2, <1>3, TimesNat
  <1>9. (qty + g) * f < (st.position_qty + u) * h
    BY <1>5, <1>6, <1>7, <1>8
  <1>10. /\ (qty + g) * price * (FeeDen - 1) * TpDen = (qty + g) * f
         /\ (st.position_qty + u) * (TpDen + 1) * Grain * FeeDen = (st.position_qty + u) * h
    BY <1>2, <1>4
  <1> QED
    BY <1>6, <1>7, <1>8, <1>9, <1>10 DEF TakesProfit, g

\* A market buy completes its step.
LEMMA BuyCompletes ==
    ASSUME NEW s, Sound(s), Remaining(s) >= MinNotional
    PROVE  LET b == apply_buy_fill(s, Remaining(s))
           IN  /\ b.ref /\ b.last_fill_time = "recent" /\ b.step_target_usdt = 0
               /\ b.position_qty = s.position_qty + Remaining(s)
               /\ Remaining(s) \in Nat \ {0} /\ b.position_qty > 0
  <1> DEFINE cost == Remaining(s)
             k == BookFill(s, cost)
             b == apply_buy_fill(s, cost)
  <1>1. s \in State /\ MinNotional \in Nat \ {0} /\ cost \in Nat \ {0}
    BY BuyPays, ParamsAssumption DEF Sound
  <1>2. /\ s.position_qty \in Nat /\ s.position_qty + cost \in Nat
        /\ s.cycle_cash_remaining - cost \in Int /\ s.step_filled_usdt + cost \in Nat
    BY <1>1 DEF State
  <1> HIDE DEF cost
  <1>3. /\ k.position_qty = s.position_qty + cost
        /\ k.step_target_usdt = s.step_target_usdt
        /\ k.step_filled_usdt = s.step_filled_usdt + cost
    BY <1>1, <1>2 DEF BookFill, State
  <1>4. Remaining(k) < MinNotional
    BY <1>1, <1>3 DEF Remaining, State, cost
  <1>5. b = CompleteStep(k)
    BY <1>4 DEF apply_buy_fill
  <1>6. /\ b.ref /\ b.last_fill_time = "recent" /\ b.step_target_usdt = 0
        /\ b.position_qty = k.position_qty
    BY <1>1, <1>3, <1>5 DEF CompleteStep, BookFill, State
  <1> HIDE DEF b
  <1> QED
    BY <1>1, <1>2, <1>3, <1>6 DEF b, cost

\* The fold of a fill leaves a chase due only when it completes the step.
LEMMA FoldThenChase ==
    ASSUME NEW s, Sound(s), s.open_limit # NoLimit, NEW cost \in Nat
    PROVE  LET f == fold_order_progress(s, s.open_limit.id, cost)
           IN  /\ ChaseDue(f) => f.last_fill_time = "recent"
               /\ f.ref /\ f.position_qty \in Nat /\ f.position_qty >= s.position_qty
  <1> DEFINE d == cost - s.open_limit.filled_quote_seen
             k == BookFill(s, d)
             b == apply_buy_fill(s, d)
             f == fold_order_progress(s, s.open_limit.id, cost)
  <1>1. /\ s \in State /\ s.ref /\ s.step_target_usdt > 0
        /\ s.position_qty \in Nat /\ s.open_limit.filled_quote_seen \in Nat
    BY DEF Sound, StateOK, LimitOK, State, OpenLimit
  <1>2. CASE d <= 0
    <2>1. f = s
      BY <1>2 DEF fold_order_progress
    <2> QED
      BY <1>1, <2>1 DEF ChaseDue
  <1>3. CASE d > 0
    <2>1. d \in Nat \ {0}
      BY <1>1, <1>3
    <2>2. f = update_limit_seen(b, cost)
      <3>1. ~(d <= 0)
        BY <1>1, <1>3
      <3> QED
        BY <3>1 DEF fold_order_progress
    <2> HIDE DEF d
    <2>3. /\ s.position_qty + d \in Nat /\ s.cycle_cash_remaining - d \in Int
          /\ s.step_filled_usdt + d \in Nat
      BY <1>1, <2>1 DEF State
    <2>4. /\ k.position_qty = s.position_qty + d /\ k.ref = s.ref
          /\ k.step_target_usdt = s.step_target_usdt /\ DOMAIN k = DOMAIN s
      BY <1>1, <2>3 DEF BookFill, State
    <2>5. /\ b.ref /\ b.position_qty = s.position_qty + d
          /\ b.last_fill_time = "recent" \/ b.step_target_usdt > 0
          /\ DOMAIN b = DOMAIN s
      <3>1. CASE Remaining(k) < MinNotional
        <4>1. b = CompleteStep(k)
          BY <3>1 DEF apply_buy_fill
        <4> QED
          BY <1>1, <2>4, <4>1 DEF CompleteStep, BookFill, State
      <3>2. CASE ~(Remaining(k) < MinNotional)
        <4>1. b = k
          BY <3>2 DEF apply_buy_fill
        <4> QED
          BY <1>1, <2>4, <4>1
      <3> QED
        BY <3>1, <3>2
    <2> HIDE DEF b
    <2>6. /\ f.ref = b.ref /\ f.position_qty = b.position_qty
          /\ f.last_fill_time = b.last_fill_time
          /\ f.step_target_usdt = b.step_target_usdt
      BY <1>1, <2>2, <2>5 DEF update_limit_seen, State
    <2> HIDE DEF f
    <2> QED
      BY <1>1, <2>1, <2>5, <2>6 DEF ChaseDue, f
  <1> QED
    BY <1>1, <1>2, <1>3

\* What decide has looked at to return what it returns.
LEMMA DecideReasons ==
    ASSUME NEW s, Sound(s), NEW tp
    PROVE  LET t == decide(s, tp)
           IN  /\ t \in MarketTodos =>
                    /\ s.step_target_usdt > 0
                    /\ \/ Bootstrapping(s)
                       \/ FallbackDue(s) /\ s.ref /\ ~should_take_profit(s, tp)
               /\ t = <<"CancelLimit", "MarketBuy">> => s.ref
               /\ t \in SaleTodos => should_take_profit(s, tp)
               /\ t = <<"PlaceLimitBuy">> => ChaseDue(s) /\ ~should_take_profit(s, tp)
               /\ t = <<>> => ~ChaseDue(s)
               /\ t # <<>> => \/ Bootstrapping(s) \/ should_take_profit(s, tp)
                              \/ FallbackDue(s) \/ ChaseDue(s)
  <1>1. /\ s \in State /\ s.step_target_usdt \in Nat /\ s.step_filled_usdt \in Nat
        /\ s.open_limit # NoLimit => s.ref
        /\ s.last_fill_time = "elapsed" => s.ref
    BY DEF Sound, StateOK, LimitOK, TimerOK, State
  <1>2. Bootstrapping(s) => s.step_target_usdt > 0 /\ s.open_limit = NoLimit
    BY <1>1 DEF Bootstrapping, Remaining
  <1>3. FallbackDue(s) => s.step_target_usdt > 0 /\ s.ref
    BY <1>1 DEF FallbackDue
  <1>4. ChaseDue(s) => s.status # "HALTED"
    BY DEF ChaseDue
  <1> QED
    BY <1>1, <1>2, <1>3, <1>4 DEF decide, MarketTodos, SaleTodos

\* What the steps may rely on.
LEMMA BarFacts ==
    ASSUME BacktestInv
    PROVE  /\ Sound(st) /\ st \in State /\ st.position_qty \in Nat
           /\ st.step_target_usdt \in Nat /\ qty \in Nat
           /\ bars \in Nat /\ steps \in Nat /\ order.placed \in Nat
           /\ order \in [price : Nat, amount : Nat, placed : 0 .. MaxBars,
                         status : {"open", "closed", "canceled"}]
           /\ FilledCost \in Nat /\ NetOfFee(order.amount) \in Nat
           /\ pc # "act" => todo = <<>>
           /\ pc # "bar" => price \in Nat \ {0}
           /\ st.open_limit # NoLimit => st.ref /\ st.step_target_usdt > 0
           /\ order.status = "open" => st.open_limit # NoLimit
  <1>1. TypeOK /\ Sound(st) /\ RestingOK /\ TurnOK
    BY DEF BacktestInv, AccountOK
  <1>2. order.price \in Nat /\ order.amount \in Nat /\ Grain \in Nat \ {0}
    BY <1>1, PricesAssumption DEF TypeOK
  <1>3. FilledCost \in Nat
    BY <1>2, TimesNat, DivBounds DEF FilledCost, LimitCost
  <1>4. NetOfFee(order.amount) \in Nat
    BY <1>2, NetNat
  <1>5. MaxBars \in Nat /\ MaxSteps \in Nat
    BY BacktestAssumption
  <1>6. pc # "bar" => price \in Nat \ {0}
    BY <1>1, BacktestAssumption DEF TurnOK
  <1> QED
    BY <1>1, <1>3, <1>4, <1>5, <1>6 DEF TypeOK, RestingOK, TurnOK, Sound, StateOK, LimitOK, State

\* A new bar fills the resting order or shows that its low does not reach it.
LEMMA BarLater ==
    ASSUME BacktestInv, BarInv, NEW day, NEW aged \in BOOLEAN,
           NEW close, NEW wick, NextBar(day, aged, close, wick)
    PROVE  BarInv' /\ order.placed < bars'
  <1> DEFINE s == IF aged THEN Aged(st) ELSE st
             lo == close - wick
             folded == IF Touched(lo)
                       THEN fold_order_progress(s, s.open_limit.id, FilledCost) ELSE s
  <1>1. /\ pc = "bar" /\ pc' = "decide" /\ steps' = 0 /\ todo' = todo /\ todo = <<>>
        /\ bars' = bars + 1 /\ low' = lo
        /\ fetch_order(lo, "open") /\ Fold(s, lo, order.status = "canceled")
    BY BarFacts DEF NextBar
  <1>2. /\ Sound(s) /\ s.open_limit = st.open_limit /\ s.ref = st.ref
        /\ s.position_qty = st.position_qty /\ ~ChaseDue(s)
    <2>1. Sound(s)
      BY BarFacts, AgedSound
    <2>2. /\ s.open_limit = st.open_limit /\ s.ref = st.ref
          /\ s.position_qty = st.position_qty /\ s.status = st.status
          /\ s.step_target_usdt = st.step_target_usdt
          /\ s.tranches_used = st.tranches_used /\ s.tranche_usdt = st.tranche_usdt
          /\ s.cycle_cash_remaining = st.cycle_cash_remaining
      BY BarFacts DEF Aged, State
    <2> HIDE DEF s
    <2>3. ~ChaseDue(st)
      BY <1>1 DEF BarInv, ChaseOK
    <2> QED
      BY <2>1, <2>2, <2>3 DEF ChaseDue, can_buy, next_usdt
  <1> HIDE DEF s, lo
  <1>3. /\ order'.placed = order.placed /\ order'.price = order.price
        /\ order'.status = "open" => ~Touched(lo) /\ order.status = "open"
    <2>1. order' = [order EXCEPT !.status = order'.status]
      BY <1>1, BarFacts DEF fetch_order
    <2>2. order'.status = "open" => ~Touched(lo) /\ order.status = "open"
      BY <1>1, BarFacts DEF fetch_order
    <2> QED
      BY <2>1, <2>2, BarFacts
  <1>4. order.placed <= bars /\ order.placed < bars' /\ bars' \in Nat
    BY <1>1, BarFacts DEF BarInv, RestOK
  <1>5. /\ ChaseDue(folded) => folded.last_fill_time = "recent"
        /\ folded.ref = st.ref /\ folded.position_qty \in Nat
        /\ folded.position_qty >= st.position_qty
        /\ ~st.ref => folded.position_qty = st.position_qty
        /\ Touched(lo) => st.ref
    <2>1. CASE Touched(lo)
      <3>1. s.open_limit # NoLimit /\ s.ref
        BY <1>2, <2>1, BarFacts DEF Touched
      <3> QED
        BY <1>2, <2>1, <3>1, BarFacts, FoldThenChase
    <2>2. CASE ~Touched(lo)
      BY <1>2, <2>2, BarFacts
    <2> QED
      BY <2>1, <2>2
  <1>6. /\ st' = folded \/ st' = on_limit_canceled(folded)
        /\ order.status # "canceled" => st' = folded
        /\ qty' = IF Touched(lo) THEN qty + NetOfFee(order.amount) ELSE qty
    BY <1>1 DEF Fold
  <1>7. order.status = "canceled" => folded = s
    BY DEF Touched
  <1>8. ~Touched(lo) => folded = s
    OBVIOUS
  <1>9. /\ ChaseDue(st') => st'.last_fill_time = "recent"
        /\ st'.ref = st.ref /\ st'.position_qty = folded.position_qty
    <2>1. CASE st' = folded
      BY <1>5, <2>1
    <2>2. CASE st' # folded
      <3>1. st' = on_limit_canceled(s)
        BY <1>6, <1>7, <2>2
      <3>2. /\ st'.ref = s.ref /\ st'.position_qty = s.position_qty
            /\ st'.step_target_usdt = s.step_target_usdt
        BY <1>2, <3>1 DEF on_limit_canceled, Sound, State
      <3>3. s.open_limit # NoLimit
        BY <1>2, <1>6, <1>7, <2>2, <3>1 DEF on_limit_canceled, Sound, State
      <3>4. s.step_target_usdt > 0
        BY <1>2, <3>3 DEF Sound, StateOK, LimitOK
      <3>5. ~ChaseDue(st')
        BY <1>2, <3>2, <3>4 DEF ChaseDue, Sound, State
      <3> QED
        BY <1>2, <1>6, <1>7, <2>2, <3>2, <3>5
    <2> QED
      BY <2>1, <2>2
  <1> HIDE DEF folded
  <1>10. HoldingOK'
    BY <1>5, <1>6, <1>9, BarFacts DEF BarInv, HoldingOK
  <1>11. ChaseOK'
    BY <1>1, <1>9 DEF ChaseOK
  <1>12. RestOK'
    BY <1>1, <1>3, <1>4, BarFacts DEF RestOK, Young, Touched
  <1>13. OrderOfTrades'
    BY <1>1 DEF OrderOfTrades, MarketTodos, SaleTodos
  <1> QED
    BY <1>4, <1>10, <1>11, <1>12, <1>13 DEF BarInv

\* A new order, and one that waits, is left alone by the decisions of its bar.
LEMMA DecideLater ==
    ASSUME BacktestInv, BarInv, Decide
    PROVE  BarInv'
  <1> DEFINE t == decide(st, TakesProfit(qty, st.position_qty, price))
  <1>1. /\ pc = "decide" /\ todo' = t /\ pc' = IF t = <<>> THEN "bar" ELSE "act"
        /\ steps' = steps + 1 /\ progressed' = FALSE
        /\ UNCHANGED <<st, qty, bars, price, low, order>>
    BY DEF Decide, barVars, venueVars
  <1>2. /\ t \in MarketTodos => /\ st.step_target_usdt > 0
                                /\ \/ Bootstrapping(st)
                                   \/ FallbackDue(st) /\ st.ref /\ ~Profitable
        /\ t = <<"CancelLimit", "MarketBuy">> => st.ref
        /\ t \in SaleTodos => Profitable
        /\ t = <<"PlaceLimitBuy">> => ChaseDue(st) /\ ~Profitable
        /\ t = <<>> => ~ChaseDue(st)
        /\ t # <<>> => Bootstrapping(st) \/ Profitable \/ FallbackDue(st) \/ ChaseDue(st)
    BY BarFacts, DecideReasons DEF Profitable
  <1> HIDE DEF t
  <1>3. /\ HoldingOK /\ ChaseOK /\ RestOK
        /\ steps >= 1 => ~Profitable
        /\ steps >= 2 => ~Bootstrapping(st) /\ ~FallbackDue(st)
    BY <1>1 DEF BarInv, OrderOfTrades
  <1>4. steps \in Nat /\ steps' \in Nat /\ steps' >= 1
    BY <1>1, BarFacts
  <1>5. Young => t = <<>>
    <2> SUFFICES ASSUME Young PROVE t = <<>>
      OBVIOUS
    <2>1. ~Profitable /\ st.last_fill_time = "recent"
      BY <1>1, <1>3 DEF RestOK
    <2>2. st.open_limit # NoLimit /\ st.ref
      BY BarFacts DEF Young
    <2> QED
      BY <1>2, <2>1, <2>2 DEF Bootstrapping, FallbackDue, ChaseDue
  <1>6. HoldingOK' /\ ChaseOK'
    BY <1>1, <1>2, <1>3 DEF HoldingOK, ChaseOK, ChaseDue, can_buy, next_usdt
  <1>7. RestOK'
    BY <1>1, <1>3, <1>5 DEF RestOK, Young, Touched
  <1>8. st.ref /\ ~Profitable => Even
    <2> SUFFICES ASSUME st.ref, ~Profitable PROVE Even
      OBVIOUS
    <2>1. st.position_qty > 0
      BY <1>3 DEF HoldingOK
    <2>2. ~TakesProfit(qty, st.position_qty, price)
      BY <2>1 DEF Profitable, should_take_profit
    <2>3. ~(qty * price * (FeeDen - 1) * TpDen
              >= st.position_qty * (TpDen + 1) * Grain * FeeDen)
      BY <2>2 DEF TakesProfit
    <2>4. /\ qty * price * (FeeDen - 1) * TpDen \in Int
          /\ st.position_qty * (TpDen + 1) * Grain * FeeDen \in Int
      <3>1. Grain \in Int /\ FeeDen \in Int /\ TpDen \in Int /\ price \in Int
        BY <1>1, PricesAssumption, BarFacts
      <3>2. FeeDen - 1 \in Int /\ TpDen + 1 \in Int
        BY <3>1
      <3> QED
        BY <3>1, <3>2, BarFacts, SMTT(30)
    <2> QED
      BY <2>3, <2>4 DEF Even
  <1>9. ~st.ref => Even
    <2> SUFFICES ASSUME ~st.ref PROVE Even
      OBVIOUS
    <2>1. st.position_qty = 0 /\ qty = 0
      BY <1>3 DEF HoldingOK
    <2>2. /\ Grain \in Int /\ FeeDen \in Int /\ TpDen \in Int /\ price \in Int
      BY <1>1, PricesAssumption, BarFacts
    <2> QED
      BY <2>1, <2>2, SMTT(30) DEF Even
  <1>10. OrderOfTrades'
    <2>1. t \in SaleTodos => steps' = 1
      BY <1>1, <1>2, <1>3, <1>4
    <2>2. t \in MarketTodos => st.step_target_usdt > 0 /\ steps' <= 2 /\ Even
      <3>1. t \in MarketTodos => steps < 2
        BY <1>2, <1>3, <1>4
      <3> QED
        BY <1>1, <1>2, <1>4, <1>8, <1>9, <3>1 DEF Bootstrapping
    <2>3. pc' # "decide"
      BY <1>1
    <2>4. Even' = Even /\ Profitable' = Profitable
      BY <1>1 DEF Even, Profitable
    <2> QED
      BY <1>1, <1>2, <1>4, <2>1, <2>2, <2>3, <2>4 DEF OrderOfTrades
  <1> QED
    BY <1>6, <1>7, <1>10 DEF BarInv

\* A cancel never finds its order filled: the low of this bar was asked before.
LEMMA CancelLater ==
    ASSUME BacktestInv, BarInv, CancelLimit
    PROVE  BarInv' /\ (order'.status = "closed" => order.status = "closed")
  <1>1. /\ pc = "act" /\ Head(todo) = "CancelLimit" /\ todo' = Tail(todo)
        /\ fetch_order(low, "canceled") /\ Fold(st, low, TRUE)
        /\ progressed' = (progressed \/ TRUE)
        /\ pc' = IF todo' # <<>> THEN "act"
                 ELSE IF progressed' /\ steps < MaxSteps THEN "decide" ELSE "bar"
        /\ UNCHANGED <<bars, price, low, steps>>
    BY DEF CancelLimit, Acts, Return, barVars
  <1>2. todo \in Todos /\ todo # <<>>
    BY <1>1 DEF BacktestInv, TurnOK
  <1>3. /\ todo \in {<<"CancelLimit", "MarketBuy">>, <<"CancelLimit", "SellAll">>}
        /\ todo = <<"CancelLimit", "MarketBuy">> => todo' = <<"MarketBuy">>
        /\ todo = <<"CancelLimit", "SellAll">> => todo' = <<"SellAll">>
        /\ pc' = "act"
    <2>1. CASE todo = <<"CancelLimit", "MarketBuy">>
      BY <1>1, <2>1
    <2>2. CASE todo = <<"CancelLimit", "SellAll">>
      BY <1>1, <2>2
    <2>3. CASE todo \in {<<"MarketBuy">>, <<"SellAll">>, <<"PlaceLimitBuy">>}
      BY <1>1, <2>3
    <2> QED
      BY <1>2, <2>1, <2>2, <2>3 DEF Todos
  <1>4. ~Young /\ ~Touched(low)
    BY <1>1 DEF BarInv, RestOK, Touched
  <1>5. /\ order' = [order EXCEPT !.status = IF @ = "open" THEN "canceled" ELSE @]
        /\ st' = on_limit_canceled(st) /\ qty' = qty
    BY <1>1, <1>4 DEF fetch_order, Fold
  <1>6. /\ order'.placed = order.placed /\ order'.status # "open"
        /\ order'.status = "closed" => order.status = "closed"
    BY <1>5, BarFacts
  <1>7. /\ st'.ref = st.ref /\ st'.position_qty = st.position_qty
        /\ st'.step_target_usdt = st.step_target_usdt
        /\ st'.last_fill_time = st.last_fill_time
        /\ st'.status = st.status /\ st'.tranches_used = st.tranches_used
        /\ st'.tranche_usdt = st.tranche_usdt
        /\ st'.cycle_cash_remaining = st.cycle_cash_remaining
    BY <1>5, BarFacts DEF on_limit_canceled, State
  <1>8. HoldingOK'
    BY <1>5, <1>7 DEF BarInv, HoldingOK
  <1>9. ChaseOK'
    <2>1. CASE st.open_limit = NoLimit
      <3>1. ChaseDue(st') => ChaseDue(st)
        BY <1>7, <2>1 DEF ChaseDue, can_buy, next_usdt
      <3> QED
        BY <1>3, <1>7, <3>1 DEF BarInv, ChaseOK
    <2>2. CASE st.open_limit # NoLimit
      BY <1>7, <2>2, BarFacts DEF ChaseOK, ChaseDue
    <2> QED
      BY <2>1, <2>2
  <1>10. RestOK'
    BY <1>1, <1>6 DEF BarInv, RestOK, Young
  <1>11. Even' = Even
    BY <1>1, <1>5, <1>7 DEF Even
  <1>12. OrderOfTrades'
    BY <1>1, <1>3, <1>7, <1>11 DEF BarInv, OrderOfTrades, MarketTodos, SaleTodos
  <1> QED
    BY <1>6, <1>8, <1>9, <1>10, <1>12 DEF BarInv

\* A market buy completes its step, and the poll goes on to chase from there.
LEMMA MarketLater ==
    ASSUME BacktestInv, BarInv, MaxSteps >= 3, MarketBuy
    PROVE  BarInv'
  <1> DEFINE usdt == Remaining(st)
             b == apply_buy_fill(st, usdt)
  <1>1. /\ pc = "act" /\ Head(todo) = "MarketBuy" /\ usdt >= MinNotional
        /\ st' = b /\ qty' = qty + MarketQty(usdt, price) /\ order' = order
        /\ todo' = Tail(todo) /\ progressed' = TRUE
        /\ pc' = IF todo' # <<>> THEN "act"
                 ELSE IF progressed' /\ steps < MaxSteps THEN "decide" ELSE "bar"
        /\ UNCHANGED <<bars, price, low, steps>>
    BY DEF MarketBuy, Acts, Return, barVars
  <1>2. /\ b.ref /\ b.last_fill_time = "recent" /\ b.step_target_usdt = 0
        /\ b.position_qty = st.position_qty + usdt
        /\ usdt \in Nat \ {0} /\ b.position_qty > 0
    BY <1>1, BarFacts, BuyCompletes
  <1> HIDE DEF b, usdt
  <1>3. todo \in Todos /\ todo # <<>> /\ price \in Nat \ {0}
    BY <1>1, BacktestAssumption DEF BacktestInv, TurnOK
  <1>4. todo = <<"MarketBuy">> /\ todo' = <<>>
    BY <1>1, <1>3, TodoHeads
  <1>5. steps <= 2 /\ Even /\ order.status # "open" /\ steps \in Nat
    BY <1>1, <1>4, BarFacts DEF BarInv, OrderOfTrades, MarketTodos, BacktestInv, TurnOK
  <1>6. pc' = "decide"
    <2>1. MaxSteps \in Nat
      BY BacktestAssumption
    <2> QED
      BY <1>1, <1>4, <1>5, <2>1
  <1>7. ~Profitable'
    <2>1. ~TakesProfit(qty + MarketQty(usdt, price), st.position_qty + usdt, price)
      BY <1>2, <1>3, <1>5, BarFacts, BuyingStaysBelow
    <2> QED
      BY <1>1, <1>2, <2>1 DEF Profitable, should_take_profit
  <1>8. ~Bootstrapping(st') /\ ~FallbackDue(st')
    BY <1>1, <1>2 DEF Bootstrapping, FallbackDue
  <1>9. HoldingOK' /\ ChaseOK'
    BY <1>1, <1>2, <1>6 DEF HoldingOK, ChaseOK
  <1>10. RestOK'
    BY <1>1, <1>5 DEF BarInv, RestOK, Young
  <1>11. OrderOfTrades'
    BY <1>4, <1>6, <1>7, <1>8 DEF OrderOfTrades, MarketTodos, SaleTodos
  <1> QED
    BY <1>9, <1>10, <1>11 DEF BarInv

\* Only a bootstrap too small to be bought is skipped, and the poll ends there.
LEMMA NothingLater ==
    ASSUME BacktestInv, BarInv, NothingToBuy
    PROVE  BarInv'
  <1>1. /\ pc = "act" /\ Head(todo) = "MarketBuy" /\ Remaining(st) < MinNotional
        /\ todo' = Tail(todo) /\ progressed' = (progressed \/ FALSE)
        /\ pc' = IF todo' # <<>> THEN "act"
                 ELSE IF progressed' /\ steps < MaxSteps THEN "decide" ELSE "bar"
        /\ UNCHANGED <<st, qty, order, bars, price, low, steps>>
    BY DEF NothingToBuy, Acts, Return, barVars, venueVars
  <1>2. todo \in Todos /\ todo # <<>>
    BY <1>1 DEF BacktestInv, TurnOK
  <1>3. todo = <<"MarketBuy">> /\ todo' = <<>>
    BY <1>1, <1>2, TodoHeads
  <1>4. st.step_target_usdt > 0 /\ (progressed => st.ref) /\ order.status # "open"
    BY <1>1, <1>3 DEF BarInv, OrderOfTrades, MarketTodos, BacktestInv, TurnOK
  <1>5. ~st.ref
    <2>1. Remaining(st) \in Int /\ MinNotional \in Int
      BY BarFacts, ParamsAssumption DEF Remaining, State
    <2>2. st.ref => Remaining(st) >= MinNotional
      BY <1>4, BarFacts DEF Sound, StateOK, StepOK
    <2> QED
      BY <1>1, <2>1, <2>2
  <1>6. pc' = "bar"
    BY <1>1, <1>3, <1>4, <1>5
  <1>7. HoldingOK' /\ ChaseOK'
    BY <1>1, <1>5 DEF BarInv, HoldingOK, ChaseOK, ChaseDue
  <1>8. RestOK'
    BY <1>1, <1>4 DEF BarInv, RestOK, Young
  <1>9. OrderOfTrades'
    BY <1>3, <1>6 DEF OrderOfTrades, MarketTodos, SaleTodos
  <1> QED
    BY <1>7, <1>8, <1>9 DEF BarInv

LEMMA PlaceLater ==
    ASSUME BacktestInv, BarInv, place_limit_buy
    PROVE  BarInv' /\ order'.status = "open"
  <1> DEFINE ol == [id |-> bars, usdt |-> next_usdt(st), filled_quote_seen |-> 0]
  <1>1. /\ pc = "act" /\ Head(todo) = "PlaceLimitBuy"
        /\ order'.status = "open" /\ order'.placed = bars
        /\ st' = on_limit_placed(st, ol) /\ qty' = qty
        /\ todo' = Tail(todo) /\ progressed' = (progressed \/ TRUE)
        /\ pc' = IF todo' # <<>> THEN "act"
                 ELSE IF progressed' /\ steps < MaxSteps THEN "decide" ELSE "bar"
        /\ UNCHANGED <<bars, price, low, steps>>
    BY DEF place_limit_buy, Acts, Return, barVars
  <1>2. todo \in Todos /\ todo # <<>>
    BY <1>1 DEF BacktestInv, TurnOK
  <1>3. todo = <<"PlaceLimitBuy">> /\ todo' = <<>>
    BY <1>1, <1>2, TodoHeads
  <1>4. ChaseDue(st) /\ ~Profitable /\ steps >= 1 /\ st.last_fill_time = "recent"
    BY <1>1, <1>3 DEF BarInv, OrderOfTrades, ChaseOK, BacktestInv, TurnOK
  <1>5. ol # NoLimit
    <2>1. ol.usdt >= MinNotional /\ MinNotional \in Nat \ {0}
      BY <1>4, ParamsAssumption DEF ChaseDue, can_buy
    <2>2. ol.usdt # 0
      BY <2>1
    <2> HIDE DEF ol
    <2> QED
      BY <2>2 DEF NoLimit
  <1> HIDE DEF ol
  <1>6. /\ st'.open_limit = ol /\ st'.ref = st.ref
        /\ st'.position_qty = st.position_qty /\ st'.last_fill_time = st.last_fill_time
    BY <1>1, BarFacts DEF on_limit_placed, State
  <1>7. pc' \in {"decide", "bar"}
    BY <1>1, <1>3
  <1>8. HoldingOK' /\ ChaseOK'
    BY <1>1, <1>5, <1>6 DEF BarInv, HoldingOK, ChaseOK, ChaseDue
  <1>9. RestOK'
    BY <1>1, <1>4, <1>6, <1>7, BarFacts DEF RestOK, Young
  <1>10. ~Profitable' /\ ~Bootstrapping(st') /\ ~FallbackDue(st')
    <2>1. st.ref
      BY <1>4 DEF ChaseDue
    <2>2. ~Bootstrapping(st') /\ ~FallbackDue(st')
      BY <1>4, <1>6, <2>1 DEF Bootstrapping, FallbackDue
    <2>3. ~Profitable'
      BY <1>1, <1>4, <1>6 DEF Profitable, should_take_profit
    <2> QED
      BY <2>2, <2>3
  <1>11. OrderOfTrades'
    BY <1>3, <1>7, <1>10 DEF OrderOfTrades, MarketTodos, SaleTodos
  <1> QED
    BY <1>1, <1>8, <1>9, <1>11 DEF BarInv

\* A sale is the first trade of its poll: two decisions are left for the new cycle.
LEMMA SellLater ==
    ASSUME BacktestInv, BarInv, MaxSteps >= 3, SellAll
    PROVE  BarInv'
  <1>1. /\ pc = "act" /\ Head(todo) = "SellAll" /\ qty' = 0 /\ order' = order
        /\ \E cash : st' = start_cycle(cash, st.cycle_id + 1)
        /\ todo' = Tail(todo) /\ progressed' = TRUE
        /\ pc' = IF todo' # <<>> THEN "act"
                 ELSE IF progressed' /\ steps < MaxSteps THEN "decide" ELSE "bar"
        /\ UNCHANGED <<bars, price, low, steps>>
    BY DEF SellAll, Acts, Return, barVars
  <1>2. todo \in Todos /\ todo # <<>>
    BY <1>1 DEF BacktestInv, TurnOK
  <1>3. todo = <<"SellAll">> /\ todo' = <<>>
    BY <1>1, <1>2, TodoHeads
  <1>4. steps = 1 /\ order.status # "open"
    BY <1>1, <1>3 DEF BarInv, OrderOfTrades, SaleTodos, BacktestInv, TurnOK
  <1>5. pc' = "decide" /\ steps' = 1
    <2>1. MaxSteps \in Nat
      BY BacktestAssumption
    <2> QED
      BY <1>1, <1>3, <1>4, <2>1
  <1>6. ~st'.ref /\ st'.position_qty = 0
    BY <1>1 DEF start_cycle
  <1>7. HoldingOK' /\ ChaseOK'
    BY <1>1, <1>6 DEF HoldingOK, ChaseOK, ChaseDue
  <1>8. RestOK'
    BY <1>1, <1>4 DEF BarInv, RestOK, Young
  <1>9. ~Profitable'
    BY <1>6 DEF Profitable, should_take_profit
  <1>10. OrderOfTrades'
    BY <1>3, <1>5, <1>9 DEF OrderOfTrades, MarketTodos, SaleTodos
  <1> QED
    BY <1>7, <1>8, <1>10 DEF BarInv

\* The order of the trades of a poll, in every state of a backtest.
LEMMA NextLater ==
    ASSUME BacktestInv, BarInv, MaxSteps >= 3, [Next]_vars
    PROVE  /\ BarInv'
           /\ order'.status = "closed" /\ order.status # "closed" => order.placed < bars'
  <1>1. CASE Bar
    BY <1>1, BarLater DEF Bar
  <1>2. CASE Decide
    BY <1>2, DecideLater DEF Decide, venueVars
  <1>3. CASE CancelLimit
    BY <1>3, CancelLater
  <1>4. CASE MarketBuy
    BY <1>4, MarketLater DEF MarketBuy
  <1>5. CASE NothingToBuy
    BY <1>5, NothingLater DEF NothingToBuy, venueVars
  <1>6. CASE place_limit_buy
    BY <1>6, PlaceLater
  <1>7. CASE SellAll
    BY <1>7, SellLater DEF SellAll
  <1>8. CASE UNCHANGED vars
    <2>1. UNCHANGED <<st, qty, bars, price, low, order, pc, todo, steps, progressed>>
      BY <1>8 DEF vars, barVars, venueVars
    <2> QED
      BY <2>1 DEF BarInv, HoldingOK, ChaseOK, ChaseDue, can_buy, next_usdt, RestOK, Young,
         Touched, OrderOfTrades, Even, Profitable
  <1> QED
    BY <1>1, <1>2, <1>3, <1>4, <1>5, <1>6, <1>7, <1>8 DEF Next

LEMMA InitLater == Init => BarInv
  <1> SUFFICES ASSUME Init PROVE BarInv
    OBVIOUS
  <1>1. /\ ~st.ref /\ st.position_qty = 0 /\ qty = 0 /\ order = NoOrder
        /\ pc = "bar" /\ todo = <<>> /\ bars = 0
    BY DEF Init, start_cycle
  <1>2. order.status # "open" /\ order.placed <= bars
    BY <1>1 DEF NoOrder
  <1> QED
    BY <1>1, <1>2 DEF BarInv, HoldingOK, ChaseOK, ChaseDue, RestOK, Young, OrderOfTrades,
       MarketTodos, SaleTodos

\* No look-ahead in the fills of a backtest, for any candles, prices and fees:
\* set_bar of BacktestExchange and the refresh that follows it fill an order of an
\* earlier bar, and a cancel later in the poll finds no order filled.  It takes
\* three decisions to a poll (MAX_STEPS_PER_POLL of executor.py is 6): a sale and
\* the first buy of the new cycle must leave one for the first chase, or else the
\* chase is placed in a later bar, perhaps with the fallback due in that same bar.
THEOREM LaterFills == MaxSteps >= 3 /\ Spec => FillsAreLater
  <1> SUFFICES ASSUME MaxSteps >= 3 PROVE Spec => FillsAreLater
    OBVIOUS
  <1>1. Init => BacktestInv /\ BarInv
    BY InitEstablishes, InitLater
  <1>2. BacktestInv /\ BarInv /\ [Next]_vars => BacktestInv' /\ BarInv'
    BY StepKeeps, NextLater
  <1>3. BacktestInv /\ BarInv /\ [Next]_vars =>
          [order'.status = "closed" /\ order.status # "closed" => order.placed < bars']_vars
    BY NextLater
  <1> QED
    BY <1>1, <1>2, <1>3, PTL DEF Spec, FillsAreLater

-----------------------------------------------------------------------------
(* Gains                                                                   *)

\* The cash and the cost of the position never fall below what the cycles began
\* with; a cycle that cannot buy never has a position.
WealthOK(least) ==
    /\ \/ st.cycle_cash_remaining + st.position_qty >= least * N
       \/ ~st.ref /\ compute_tranche(st.cycle_cash_remaining) < MinNotional
    /\ IF st.ref THEN st.position_qty >= least
       ELSE /\ st.step_filled_usdt = 0
            /\ st.step_target_usdt = compute_tranche(st.cycle_cash_remaining)

SalesOK == todo \in SaleTodos => Profitable

\* The cash of a State grows out of its position only.
SameWealth(s, t) ==
    /\ t.cycle_id = s.cycle_id
    /\ t.cycle_cash_remaining + t.position_qty = s.cycle_cash_remaining + s.position_qty

\* A division that reaches a multiple.
LEMMA DivReaches ==
    ASSUME NEW a \in Nat, NEW b \in Nat \ {0}, NEW k \in Nat, k * b <= a
    PROVE  k <= a \div b
  <1> DEFINE q == a \div b
  <1>1. q \in Nat /\ q * b \in Nat /\ a - q * b \in 0 .. b - 1
    BY DivBounds
  <1> HIDE DEF q
  <1>2. a < (q + 1) * b
    <2>1. (q + 1) * b = q * b + b
      BY <1>1, SMTT(30)
    <2> QED
      BY <1>1, <2>1
  <1>3. k * b < (q + 1) * b /\ k * b \in Nat /\ (q + 1) * b \in Nat
    BY <1>1, <1>2, TimesNat
  <1>4. ~(q + 1 <= k)
    <2> SUFFICES ASSUME q + 1 <= k PROVE FALSE
      OBVIOUS
    <2>1. (q + 1) * b <= k * b
      BY <1>1, TimesMonotone
    <2> QED
      BY <1>3, <2>1
  <1> QED
    BY <1>1, <1>4 DEF q

\* A sale at a take-profit price brings more than the position cost, after the
\* slippage, both fees and the lots.
LEMMA SaleGains ==
    ASSUME NEW q \in Nat, NEW v \in Nat, NEW b \in Nat, NEW p \in Nat \ {0},
           NEW least \in Nat, v >= least, q <= b,
           TakesProfit(q, v, p), Covers(least, p)
    PROVE  SaleProceeds(round_down_amount(b), p) > v
  <1> DEFINE sold == (b \div Grain) * Grain
             A == FeeDen - 1
             B == SlipDen - 1
             R == SlipDen - TpDen - 1
             h == Grain * FeeDen
             x == p * B * A
             n == sold * p * B * A
             d == Grain * SlipDen * FeeDen
  <1>1. /\ Grain \in Nat \ {0} /\ SlipDen \in Nat \ {0} /\ FeeDen \in Nat \ {0}
        /\ TpDen \in Nat \ {0} /\ A \in Nat /\ B \in Nat /\ R \in Int
    BY PricesAssumption
  <1>2. sold \in Nat /\ sold > b - Grain
    <2>1. sold \in Nat /\ b - sold \in 0 .. Grain - 1
      BY <1>1, DivBounds
    <2> HIDE DEF sold
    <2> QED
      BY <1>1, <2>1
  <1>3. SaleProceeds(round_down_amount(b), p) = n \div d
    BY DEF SaleProceeds, round_down_amount
  <1>4. n \in Nat /\ x \in Nat /\ h \in Nat /\ d \in Nat \ {0}
    <2>1. Grain * SlipDen \in Nat \ {0}
      BY <1>1, TimesPos
    <2> QED
      BY <1>1, <1>2, <2>1, TimesNat, TimesPos
  <1>5. n = sold * x
    BY <1>1, <1>2, SMTT(30)
  <1>6. d = SlipDen * h
    BY <1>1, SMTT(30)
  \* What the decision and the margin promise.
  <1>7. q * p * A * TpDen >= v * (TpDen + 1) * h
    <2>1. q * p * A * TpDen >= v * (TpDen + 1) * Grain * FeeDen
      BY DEF TakesProfit
    <2>2. v * (TpDen + 1) * Grain * FeeDen = v * (TpDen + 1) * h
      BY <1>1, SMTT(30)
    <2> QED
      BY <2>1, <2>2
  <1>8. least * FeeDen * R >= TpDen * (SlipDen * FeeDen + x)
    BY DEF Covers
  <1> HIDE DEF sold, A, B, R, x, h, n, d
  <1>9. R > 0
    <2>1. SlipDen * FeeDen \in Nat \ {0} /\ least * FeeDen \in Nat
      BY <1>1, TimesPos, TimesNat
    <2>2. TpDen * (SlipDen * FeeDen + x) > 0
      <3>1. SlipDen * FeeDen + x \in Nat \ {0}
        BY <1>4, <2>1
      <3> HIDE DEF x
      <3>2. TpDen * (SlipDen * FeeDen + x) \in Nat \ {0}
        BY <1>1, <3>1, TimesPos
      <3> QED
        BY <3>2
    <2>3. least * FeeDen * R > 0
      <3>1. least * FeeDen * R \in Int /\ TpDen * (SlipDen * FeeDen + x) \in Int
        BY <1>1, <1>4, SMTT(30)
      <3> QED
        BY <1>8, <2>2, <3>1
    <2> DEFINE m == least * FeeDen
    <2>4. m \in Nat /\ m * R > 0
      BY <2>1, <2>3
    <2> HIDE DEF m
    <2> QED
      BY <1>1, <2>4, SMTT(30)
  <1>10. v * h * R >= TpDen * (d + Grain * x)
    <2>1. v * (FeeDen * R) >= least * (FeeDen * R) /\ FeeDen * R \in Nat
      <3>1. FeeDen * R \in Nat
        BY <1>1, <1>9, TimesNat
      <3> QED
        BY <3>1, TimesMonotone
    <2>2. least * FeeDen * R = least * (FeeDen * R)
      BY <1>1, SMTT(30)
    <2>3. TpDen * (SlipDen * FeeDen + x) \in Nat
      BY <1>1, <1>4, TimesNat
    <2>4. v * (FeeDen * R) >= TpDen * (SlipDen * FeeDen + x)
      <3>1. v * (FeeDen * R) \in Nat /\ least * (FeeDen * R) \in Nat
        BY <2>1, TimesNat
      <3> QED
        BY <1>8, <2>1, <2>2, <2>3, <3>1
    <2>5. v * (FeeDen * R) * Grain >= TpDen * (SlipDen * FeeDen + x) * Grain
      <3>1. v * (FeeDen * R) \in Nat
        BY <2>1, TimesNat
      <3> QED
        BY <1>1, <2>3, <2>4, <3>1, TimesMonotone
    <2>6. v * (FeeDen * R) * Grain = v * h * R
      BY <1>1, SMTT(30) DEF h
    <2>7. TpDen * (SlipDen * FeeDen + x) * Grain = TpDen * (d + Grain * x)
      BY <1>1, <1>4, SMTT(30) DEF d
    <2> QED
      BY <2>5, <2>6, <2>7
  \* The sale, multiplied by TpDen.
  <1>11. n * TpDen >= (q * p * A * TpDen) * B - TpDen * Grain * x
    <2>1. sold >= q - Grain
      BY <1>1, <1>2
    <2>2. sold * x >= (q - Grain) * x
      <3>1. sold * x - (q - Grain) * x = (sold - (q - Grain)) * x
        BY <1>1, <1>2, <1>4, SMTT(30)
      <3>2. (sold - (q - Grain)) \in Nat
        BY <1>1, <1>2, <2>1
      <3>3. (sold - (q - Grain)) * x \in Nat
        BY <1>4, <3>2, TimesNat
      <3>4. sold * x \in Int /\ (q - Grain) * x \in Int
        BY <1>1, <1>2, <1>4, SMTT(30)
      <3> QED
        BY <3>1, <3>3, <3>4
    <2>3. (sold * x) * TpDen >= ((q - Grain) * x) * TpDen
      <3> DEFINE y == sold * x
                 z == (q - Grain) * x
      <3>1. y \in Int /\ z \in Int /\ y >= z
        BY <1>1, <1>2, <1>4, <2>2, SMTT(30)
      <3> HIDE DEF y, z
      <3>2. y * TpDen >= z * TpDen
        BY <1>1, <3>1, SMTT(30)
      <3> QED
        BY <3>2 DEF y, z
    <2>4. ((q - Grain) * x) * TpDen = (q * p * A * TpDen) * B - TpDen * Grain * x
      BY <1>1, SMTT(30) DEF x
    <2> QED
      BY <1>5, <2>3, <2>4
  <1>12. (q * p * A * TpDen) * B >= (v * (TpDen + 1) * h) * B
    <2> DEFINE y == q * p * A * TpDen
               z == v * (TpDen + 1) * h
    <2>1. y \in Nat /\ z \in Nat /\ z <= y
      BY <1>1, <1>4, <1>7, TimesNat
    <2> HIDE DEF y, z
    <2>2. z * B <= y * B /\ z * B \in Nat /\ y * B \in Nat
      BY <1>1, <2>1, TimesMonotone, TimesNat
    <2> QED
      BY <2>2 DEF y, z
  <1>13. (v * (TpDen + 1) * h) * B = v * h * R + v * TpDen * d
    <2>1. (TpDen + 1) * B = R + TpDen * SlipDen
      BY <1>1, SMTT(30) DEF B, R
    <2>2. (v * (TpDen + 1) * h) * B = v * h * ((TpDen + 1) * B)
      BY <1>1, <1>4, SMTT(30)
    <2>3. v * h * (R + TpDen * SlipDen) = v * h * R + v * TpDen * (SlipDen * h)
      BY <1>1, <1>4, SMTT(30)
    <2> QED
      BY <1>6, <2>1, <2>2, <2>3
  <1>14. n * TpDen >= ((v + 1) * d) * TpDen
    <2> DEFINE e == TpDen * Grain * x
               y == v * TpDen * d
               z == TpDen * d
               w == v * h * R
    <2>1. TpDen * (d + Grain * x) = z + e
      BY <1>1, <1>4, SMTT(30)
    <2>2. ((v + 1) * d) * TpDen = y + z
      BY <1>1, <1>4, SMTT(30)
    <2>3. e \in Int /\ y \in Int /\ z \in Int /\ w \in Int
      BY <1>1, <1>4, SMTT(30)
    <2>4. /\ n * TpDen \in Int /\ (q * p * A * TpDen) * B \in Int
      BY <1>1, <1>4, SMTT(30)
    <2>5. (q * p * A * TpDen) * B >= w + y
      BY <1>12, <1>13
    <2>6. w >= z + e
      BY <1>10, <2>1
    <2> HIDE DEF e, y, z, w
    <2>7. n * TpDen >= (q * p * A * TpDen) * B - e
      BY <1>11 DEF e
    <2> QED
      BY <2>2, <2>3, <2>4, <2>5, <2>6, <2>7
  <1>15. (v + 1) * d <= n /\ v + 1 \in Nat
    <2>1. (v + 1) * d \in Nat
      BY <1>4, TimesNat
    <2> QED
      BY <1>1, <1>4, <1>14, <2>1, TimesCancel
  <1>16. v + 1 <= n \div d /\ n \div d \in Nat
    BY <1>4, <1>15, DivReaches, DivBounds
  <1> QED
    BY <1>3, <1>16

\* A step within a cycle moves cash into the position and back out of nothing; and
\* before the first fill it moves nothing and keeps the step.
Keeps(s, t) ==
    /\ SameWealth(s, t) /\ t.ref = s.ref
    /\ t.position_qty \in Nat /\ t.cycle_cash_remaining \in Int
    /\ t.position_qty >= s.position_qty
    /\ ~s.ref => /\ t.step_filled_usdt = s.step_filled_usdt
                 /\ t.step_target_usdt = s.step_target_usdt
                 /\ t.cycle_cash_remaining = s.cycle_cash_remaining

LEMMA KeepsWealth ==
    ASSUME NEW least \in Nat, st \in State, WealthOK(least), Keeps(st, st')
    PROVE  WealthOK(least)'
  <1>1. /\ st.position_qty \in Nat /\ st.cycle_cash_remaining \in Int
        /\ least * N \in Int /\ st.ref \in BOOLEAN
    BY ParamsAssumption DEF State
  <1> QED
    BY <1>1 DEF WealthOK, Keeps, SameWealth

LEMMA KeepsTrans ==
    ASSUME NEW s \in State, NEW t, NEW u, Keeps(s, t), Keeps(t, u)
    PROVE  Keeps(s, u)
  <1>1. s.position_qty \in Nat /\ s.cycle_cash_remaining \in Int
    BY DEF State
  <1> QED
    BY <1>1 DEF Keeps, SameWealth

\* The later day, the refresh and the cancel of a limit are such steps ...
LEMMA AgedKeeps ==
    ASSUME NEW s \in State
    PROVE  Keeps(s, Aged(s)) /\ Keeps(s, s)
  BY DEF Aged, State, Keeps, SameWealth

LEMMA CanceledKeeps ==
    ASSUME NEW s, NEW t, Keeps(s, t), DOMAIN t = DOMAIN s, s \in State
    PROVE  Keeps(s, on_limit_canceled(t))
  BY DEF on_limit_canceled, State, Keeps, SameWealth

\* ... and so is a purchase, once the first price is there.
LEMMA BuyKeeps ==
    ASSUME NEW s \in State, NEW cost \in Nat
    PROVE  LET b == apply_buy_fill(s, cost)
           IN  /\ SameWealth(s, b) /\ DOMAIN b = DOMAIN s
               /\ b.position_qty = s.position_qty + cost
               /\ b.position_qty \in Nat /\ b.cycle_cash_remaining \in Int
               /\ s.ref => b.ref
  <1> DEFINE k == BookFill(s, cost)
             b == apply_buy_fill(s, cost)
  <1>1. /\ s.position_qty \in Nat /\ s.cycle_cash_remaining \in Int
        /\ s.position_qty + cost \in Nat /\ s.cycle_cash_remaining - cost \in Int
    BY DEF State
  <1>2. /\ k.position_qty = s.position_qty + cost
        /\ k.cycle_cash_remaining = s.cycle_cash_remaining - cost
        /\ k.cycle_id = s.cycle_id /\ k.ref = s.ref /\ DOMAIN k = DOMAIN s
    BY <1>1 DEF BookFill, State
  <1>3. /\ b.position_qty = k.position_qty /\ b.cycle_id = k.cycle_id
        /\ b.cycle_cash_remaining = k.cycle_cash_remaining
        /\ DOMAIN b = DOMAIN s /\ (s.ref => b.ref)
    <2>1. CASE b = k
      BY <1>2, <2>1
    <2>2. CASE b = CompleteStep(k)
      BY <1>2, <2>2 DEF CompleteStep, State
    <2>3. b = k \/ b = CompleteStep(k)
      BY DEF apply_buy_fill
    <2> QED
      BY <2>1, <2>2, <2>3
  <1> HIDE DEF k, b
  <1> QED
    BY <1>1, <1>2, <1>3 DEF SameWealth, b

LEMMA FoldKeeps ==
    ASSUME NEW s, Sound(s), NEW cost \in Nat
    PROVE  LET f == fold_order_progress(s, s.open_limit.id, cost)
           IN  Keeps(s, f) /\ DOMAIN f = DOMAIN s
  <1> DEFINE d == cost - s.open_limit.filled_quote_seen
             b == apply_buy_fill(s, d)
             f == fold_order_progress(s, s.open_limit.id, cost)
  <1>1. s \in State /\ s.ref \in BOOLEAN /\ s.open_limit.filled_quote_seen \in Nat
    BY DEF Sound, State, OpenLimit
  <1>2. CASE f = s
    BY <1>1, <1>2, AgedKeeps
  <1>3. CASE f # s
    <2>1. s.open_limit # NoLimit /\ ~(d <= 0) /\ f = update_limit_seen(b, cost)
      BY <1>3 DEF fold_order_progress
    <2>2. d \in Nat /\ s.ref
      BY <1>1, <2>1 DEF Sound, StateOK, LimitOK
    <2> HIDE DEF d
    <2>3. /\ SameWealth(s, b) /\ DOMAIN b = DOMAIN s
          /\ b.position_qty = s.position_qty + d
          /\ b.position_qty \in Nat /\ b.cycle_cash_remaining \in Int /\ b.ref
      BY <1>1, <2>2, BuyKeeps
    <2> HIDE DEF b
    <2>4. \/ f = b
          \/ f = [b EXCEPT !.open_limit.filled_quote_seen = cost]
      BY <2>1 DEF update_limit_seen
    <2>5. /\ f.cycle_id = b.cycle_id /\ f.position_qty = b.position_qty
          /\ f.cycle_cash_remaining = b.cycle_cash_remaining
          /\ f.ref = b.ref /\ DOMAIN f = DOMAIN s
      BY <1>1, <2>3, <2>4 DEF State
    <2> HIDE DEF f
    <2>6. f.ref = s.ref
      <3>1. b.ref \in BOOLEAN
        BY <1>1, <2>2 DEF b, apply_buy_fill, CompleteStep, BookFill, State
      <3> QED
        BY <1>1, <2>2, <2>3, <2>5, <3>1
    <2>7. f.position_qty >= s.position_qty
      BY <1>1, <2>2, <2>3, <2>5 DEF State
    <2> QED
      BY <2>2, <2>3, <2>5, <2>6, <2>7 DEF Keeps, SameWealth, f
  <1> QED
    BY <1>2, <1>3

GainInv(least) == WealthOK(least) /\ SalesOK

\* The steps, one lemma each, for instances whose prices Covers holds at.
LEMMA BarGains ==
    ASSUME BacktestInv, BarInv, NEW least \in Nat, GainInv(least), Bar
    PROVE  GainInv(least)' /\ st'.cycle_id = st.cycle_id
  <1>1. PICK day \in Dates, aged \in BOOLEAN, close \in Closes, wick \in Wicks :
            NextBar(day, aged, close, wick)
    BY DEF Bar
  <1> DEFINE s == IF aged THEN Aged(st) ELSE st
             lo == close - wick
             folded == IF Touched(lo)
                       THEN fold_order_progress(s, s.open_limit.id, FilledCost) ELSE s
  <1>2. /\ pc = "bar" /\ todo' = todo /\ todo = <<>>
        /\ Fold(s, lo, order.status = "canceled")
    BY <1>1, BarFacts DEF NextBar
  <1>3. Sound(s) /\ Keeps(st, s) /\ DOMAIN s = DOMAIN st
    BY BarFacts, AgedSound, AgedKeeps DEF Sound, State
  <1> HIDE DEF s, lo
  <1>4. Keeps(s, folded) /\ DOMAIN folded = DOMAIN s
    BY <1>3, BarFacts, FoldKeeps, AgedKeeps DEF Sound
  <1>5. st' = folded \/ st' = on_limit_canceled(folded)
    BY <1>2 DEF Fold
  <1> HIDE DEF folded
  <1>6. Keeps(s, st')
    BY <1>3, <1>4, <1>5, CanceledKeeps DEF Sound
  <1>7. Keeps(st, st')
    BY <1>3, <1>6, BarFacts, KeepsTrans
  <1>8. WealthOK(least)'
    BY <1>7, BarFacts, KeepsWealth DEF GainInv
  <1>9. SalesOK'
    BY <1>2 DEF SalesOK, SaleTodos
  <1> QED
    BY <1>7, <1>8, <1>9 DEF GainInv, Keeps, SameWealth

LEMMA DecideGains ==
    ASSUME BacktestInv, BarInv, NEW least \in Nat, GainInv(least), Decide
    PROVE  GainInv(least)' /\ st'.cycle_id = st.cycle_id
  <1>1. /\ todo' = decide(st, TakesProfit(qty, st.position_qty, price))
        /\ UNCHANGED <<st, qty, price>>
    BY DEF Decide, barVars
  <1>2. todo' \in SaleTodos => Profitable
    BY <1>1, BarFacts, DecideReasons DEF Profitable
  <1> QED
    BY <1>1, <1>2 DEF GainInv, WealthOK, SalesOK, Profitable

LEMMA CancelGains ==
    ASSUME BacktestInv, BarInv, NEW least \in Nat, GainInv(least), CancelLimit
    PROVE  GainInv(least)' /\ st'.cycle_id = st.cycle_id
  <1>1. /\ pc = "act" /\ Head(todo) = "CancelLimit" /\ todo' = Tail(todo)
        /\ Fold(st, low, TRUE) /\ price' = price
    BY DEF CancelLimit, Acts, Return, barVars
  <1>2. ~Touched(low)
    BY <1>1 DEF BarInv, RestOK, Touched, Young
  <1>3. st' = on_limit_canceled(st) /\ qty' = qty
    BY <1>1, <1>2 DEF Fold
  <1>4. Keeps(st, st') /\ st'.position_qty = st.position_qty
    BY <1>3, BarFacts, AgedKeeps, CanceledKeeps DEF on_limit_canceled, State
  <1>5. WealthOK(least)'
    BY <1>4, BarFacts, KeepsWealth DEF GainInv
  <1>6. todo \in Todos /\ todo # <<>>
    BY <1>1 DEF BacktestInv, TurnOK
  <1>7. todo' \in SaleTodos => todo \in SaleTodos
    <2>1. CASE todo = <<"CancelLimit", "MarketBuy">>
      BY <1>1, <2>1 DEF SaleTodos
    <2>2. CASE todo = <<"CancelLimit", "SellAll">>
      BY <1>1, <2>2 DEF SaleTodos
    <2>3. CASE todo \in {<<"MarketBuy">>, <<"SellAll">>, <<"PlaceLimitBuy">>}
      BY <1>1, <2>3
    <2> QED
      BY <1>6, <2>1, <2>2, <2>3 DEF Todos
  <1>8. SalesOK'
    BY <1>1, <1>3, <1>4, <1>7 DEF GainInv, SalesOK, Profitable, should_take_profit
  <1> QED
    BY <1>4, <1>5, <1>8 DEF GainInv, Keeps, SameWealth

\* The first buy of a cycle that can buy is a tranche of at least that much.
LEMMA MarketGains ==
    ASSUME BacktestInv, BarInv, NEW least \in Nat, GainInv(least), MarketBuy
    PROVE  GainInv(least)' /\ st'.cycle_id = st.cycle_id
  <1> DEFINE usdt == Remaining(st)
             b == apply_buy_fill(st, usdt)
  <1>1. /\ pc = "act" /\ Head(todo) = "MarketBuy" /\ usdt >= MinNotional
        /\ st' = b /\ todo' = Tail(todo)
    BY DEF MarketBuy, Acts, Return
  <1>2. b.ref /\ usdt \in Nat \ {0}
    BY <1>1, BarFacts, BuyCompletes
  <1>3. /\ SameWealth(st, b) /\ b.position_qty = st.position_qty + usdt
        /\ b.position_qty \in Nat /\ b.cycle_cash_remaining \in Int
    BY <1>2, BarFacts, BuyKeeps
  <1>4. /\ N \in Nat \ {0} /\ least * N \in Int /\ MinNotional \in Nat
        /\ st.position_qty \in Nat /\ st.cycle_cash_remaining \in Nat
        /\ st.step_target_usdt \in Nat
    BY ParamsAssumption, BarFacts DEF BacktestInv, TypeOK, AccountOK, CashIsFree
  <1> HIDE DEF b
  <1>5. /\ st.cycle_cash_remaining + st.position_qty >= least * N
        /\ b.position_qty >= least
    <2>1. CASE st.ref
      <3>1. /\ st.position_qty >= least
            /\ st.cycle_cash_remaining + st.position_qty >= least * N
        BY <2>1 DEF GainInv, WealthOK
      <3> HIDE DEF usdt
      <3> QED
        BY <1>2, <1>3, <1>4, <3>1
    <2>2. CASE ~st.ref
      <3>1. /\ st.step_filled_usdt = 0 /\ st.position_qty = 0
            /\ st.step_target_usdt = compute_tranche(st.cycle_cash_remaining)
        BY <2>2 DEF GainInv, WealthOK, BarInv, HoldingOK
      <3>2. usdt = compute_tranche(st.cycle_cash_remaining)
        BY <1>4, <3>1 DEF Remaining
      <3> HIDE DEF usdt
      <3>3. ~(compute_tranche(st.cycle_cash_remaining) < MinNotional)
        BY <1>1, <1>2, <1>4, <3>2
      <3>4. st.cycle_cash_remaining + st.position_qty >= least * N
        BY <3>3 DEF GainInv, WealthOK
      <3>5. least * N <= st.cycle_cash_remaining
        BY <1>4, <3>1, <3>4
      <3>6. usdt >= least
        BY <1>4, <3>2, <3>5, DivReaches DEF compute_tranche
      <3> QED
        BY <1>2, <1>3, <1>4, <3>1, <3>4, <3>6
    <2> QED
      BY <2>1, <2>2
  <1>6. WealthOK(least)'
    <2>1. st'.cycle_cash_remaining + st'.position_qty >= least * N
      BY <1>1, <1>3, <1>5 DEF SameWealth
    <2> QED
      BY <1>1, <1>2, <1>5, <2>1 DEF WealthOK
  <1>7. todo \in Todos /\ todo # <<>>
    BY <1>1 DEF BacktestInv, TurnOK
  <1>8. SalesOK'
    BY <1>1, <1>7, TodoHeads DEF SalesOK, SaleTodos
  <1> QED
    BY <1>1, <1>3, <1>6, <1>8 DEF GainInv, SameWealth

LEMMA NothingGains ==
    ASSUME BacktestInv, NEW least \in Nat, GainInv(least), NothingToBuy
    PROVE  GainInv(least)' /\ st'.cycle_id = st.cycle_id
  <1>1. /\ pc = "act" /\ Head(todo) = "MarketBuy" /\ todo' = Tail(todo) /\ st' = st
    BY DEF NothingToBuy, Acts, Return
  <1>2. todo \in Todos /\ todo # <<>>
    BY <1>1 DEF BacktestInv, TurnOK
  <1>3. todo' = <<>>
    BY <1>1, <1>2, TodoHeads
  <1> QED
    BY <1>1, <1>3 DEF GainInv, WealthOK, SalesOK, SaleTodos

LEMMA PlaceGains ==
    ASSUME BacktestInv, NEW least \in Nat, GainInv(least), place_limit_buy
    PROVE  GainInv(least)' /\ st'.cycle_id = st.cycle_id
  <1> DEFINE ol == [id |-> bars, usdt |-> next_usdt(st), filled_quote_seen |-> 0]
  <1>1. /\ pc = "act" /\ Head(todo) = "PlaceLimitBuy" /\ todo' = Tail(todo)
        /\ st' = on_limit_placed(st, ol)
    BY DEF place_limit_buy, Acts, Return
  <1>2. todo \in Todos /\ todo # <<>>
    BY <1>1 DEF BacktestInv, TurnOK
  <1>3. todo = <<"PlaceLimitBuy">> /\ todo' = <<>>
    BY <1>1, <1>2, TodoHeads
  <1>4. st.ref
    BY <1>3 DEF BacktestInv, TurnOK, ChaseDue
  <1> HIDE DEF ol
  <1>5. Keeps(st, st')
    <2>1. /\ st'.cycle_id = st.cycle_id /\ st'.ref = st.ref
          /\ st'.position_qty = st.position_qty
          /\ st'.cycle_cash_remaining = st.cycle_cash_remaining
      BY <1>1, BarFacts DEF on_limit_placed, State
    <2>2. st.position_qty \in Nat /\ st.cycle_cash_remaining \in Int
      BY BarFacts DEF State
    <2> QED
      BY <1>4, <2>1, <2>2 DEF Keeps, SameWealth
  <1>6. WealthOK(least)'
    BY <1>5, BarFacts, KeepsWealth DEF GainInv
  <1> QED
    BY <1>3, <1>5, <1>6 DEF GainInv, Keeps, SameWealth, SalesOK, SaleTodos

\* A sale takes a profit on a position that is worth it.
LEMMA SellGains ==
    ASSUME BacktestInv, BarInv, NEW least \in Nat, GainInv(least),
           \A p \in Closes : Covers(least, p), SellAll
    PROVE  /\ GainInv(least)'
           /\ st'.cycle_cash_remaining > st.cycle_cash_remaining + st.position_qty
  <1> DEFINE gain == SaleProceeds(round_down_amount(base_balance), price)
             cash == free_usdt + gain
  <1>1. /\ pc = "act" /\ Head(todo) = "SellAll" /\ todo' = Tail(todo)
        /\ st' = start_cycle(cash, st.cycle_id + 1)
    BY DEF SellAll, Acts, Return, AmountSold
  <1>2. /\ todo \in Todos /\ todo # <<>> /\ price \in Closes /\ price \in Nat \ {0}
        /\ base_balance \in Nat /\ qty \in Nat /\ qty <= base_balance
        /\ free_usdt \in Nat /\ free_usdt = st.cycle_cash_remaining
        /\ st.position_qty \in Nat
    BY <1>1, BarFacts, PricesAssumption
    DEF BacktestInv, TurnOK, TypeOK, AccountOK, DustBelowLot, CashIsFree
  <1>3. todo = <<"SellAll">> /\ todo' = <<>>
    BY <1>1, <1>2, TodoHeads
  <1>4. st.position_qty > 0 /\ TakesProfit(qty, st.position_qty, price)
    BY <1>3 DEF GainInv, SalesOK, SaleTodos, Profitable, should_take_profit
  <1>5. st.ref
    BY <1>2, <1>4 DEF BarInv, HoldingOK
  <1>6. /\ st.cycle_cash_remaining + st.position_qty >= least * N
        /\ st.position_qty >= least
    BY <1>5 DEF GainInv, WealthOK
  <1>7. gain > st.position_qty
    BY <1>2, <1>4, <1>6, SaleGains
  <1>8. gain \in Nat
    <2>1. Grain \in Nat \ {0}
      BY PricesAssumption
    <2>2. round_down_amount(base_balance) \in Nat
      BY <1>2, <2>1, DivBounds DEF round_down_amount
    <2> QED
      BY <1>2, <2>2, SoldNat
  <1> HIDE DEF gain
  <1>9. /\ cash > st.cycle_cash_remaining + st.position_qty
        /\ cash >= least * N
    <2>1. least * N \in Int
      BY ParamsAssumption
    <2> QED
      BY <1>2, <1>6, <1>7, <1>8, <2>1
  <1>10. /\ st'.cycle_cash_remaining = cash /\ st'.position_qty = 0 /\ ~st'.ref
         /\ st'.step_filled_usdt = 0 /\ st'.step_target_usdt = compute_tranche(cash)
    BY <1>1 DEF start_cycle
  <1>11. cash \in Nat
    BY <1>2, <1>8
  <1> HIDE DEF cash
  <1>12. WealthOK(least)'
    BY <1>9, <1>10, <1>11 DEF WealthOK
  <1> QED
    BY <1>3, <1>9, <1>10, <1>12 DEF GainInv, SalesOK, SaleTodos

LEMMA NextGains ==
    ASSUME BacktestInv, BarInv, NEW least \in Nat, GainInv(least),
           \A p \in Closes : Covers(least, p), [Next]_vars
    PROVE  /\ GainInv(least)'
           /\ st'.cycle_id # st.cycle_id
                => st'.cycle_cash_remaining > st.cycle_cash_remaining + st.position_qty
  <1>1. CASE Bar
    BY <1>1, BarGains
  <1>2. CASE Decide
    BY <1>2, DecideGains
  <1>3. CASE CancelLimit
    BY <1>3, CancelGains
  <1>4. CASE MarketBuy
    BY <1>4, MarketGains
  <1>5. CASE NothingToBuy
    BY <1>5, NothingGains
  <1>6. CASE place_limit_buy
    BY <1>6, PlaceGains
  <1>7. CASE SellAll
    BY <1>7, SellGains
  <1>8. CASE UNCHANGED vars
    <2>1. UNCHANGED <<st, qty, price, todo>>
      BY <1>8 DEF vars, barVars
    <2> QED
      BY <2>1 DEF GainInv, WealthOK, SalesOK, Profitable
  <1> QED
    BY <1>1, <1>2, <1>3, <1>4, <1>5, <1>6, <1>7, <1>8 DEF Next

LEMMA InitGains ==
    ASSUME NEW least \in Nat, \A seed \in Seeds : Reaches(seed, least), Init
    PROVE  GainInv(least)
  <1>1. /\ free_usdt \in Seeds /\ st = start_cycle(free_usdt, 1) /\ todo = <<>>
    BY DEF Init
  <1>2. free_usdt \in Nat /\ N \in Nat \ {0} /\ MinNotional \in Nat
    BY <1>1, BacktestAssumption, ParamsAssumption
  <1>3. /\ st.cycle_cash_remaining = free_usdt /\ st.position_qty = 0 /\ ~st.ref
        /\ st.step_filled_usdt = 0 /\ st.step_target_usdt = compute_tranche(free_usdt)
    BY <1>1 DEF start_cycle
  <1>4. \/ compute_tranche(free_usdt) < MinNotional
        \/ free_usdt >= least * N
    <2> DEFINE k == compute_tranche(free_usdt)
    <2>1. k \in Nat /\ k * N \in Nat /\ k * N <= free_usdt
      BY <1>2, DivBounds DEF compute_tranche
    <2>2. k < MinNotional \/ k >= least
      BY <1>1 DEF Reaches
    <2> HIDE DEF k
    <2>3. k >= least => least * N <= k * N /\ least * N \in Nat
      BY <1>2, <2>1, TimesMonotone, TimesNat
    <2>4. k < MinNotional \/ free_usdt >= least * N
      BY <1>2, <2>1, <2>2, <2>3
    <2> QED
      BY <2>4 DEF k
  <1> QED
    BY <1>1, <1>2, <1>3, <1>4 DEF GainInv, WealthOK, SalesOK, SaleTodos

\* A take-profit of a backtest is never a loss, whatever the candles: the cash of
\* the next cycle exceeds the cash and the cost of the position of the one before,
\* after the fees of both sides, the slippage and the lots rounded down
\* (should_take_profit, market_sell_all of BacktestExchange, start_cycle).  The
\* margin must be worth that: the take-profit looks at the close without slippage
\* and at a position that is not yet rounded, so on a small position the lot that
\* is left behind can be more than the profit.
THEOREM TakeProfitGains ==
    ASSUME NEW CONSTANT least \in Nat, MaxSteps >= 3,
           \A seed \in Seeds : Reaches(seed, least),
           \A p \in Closes : Covers(least, p)
    PROVE  Spec => CyclesGain
  <1> DEFINE Gains == /\ st'.cycle_id # st.cycle_id
                      => st'.cycle_cash_remaining > st.cycle_cash_remaining + st.position_qty
  <1>1. Init => BacktestInv /\ BarInv /\ GainInv(least)
    BY InitEstablishes, InitLater, InitGains
  <1>2. BacktestInv /\ BarInv /\ GainInv(least) /\ [Next]_vars
          => BacktestInv' /\ BarInv' /\ GainInv(least)'
    BY StepKeeps, NextLater, NextGains
  <1>3. BacktestInv /\ BarInv /\ GainInv(least) /\ [Next]_vars => [Gains]_vars
    BY NextGains
  <1> QED
    BY <1>1, <1>2, <1>3, PTL DEF Spec, CyclesGain
=============================================================================
