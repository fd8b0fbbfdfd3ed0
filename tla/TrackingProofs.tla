--------------------------- MODULE TrackingProofs ---------------------------
(***************************************************************************)
(* Proofs that relate the state to the venue: as long as no order is lost, *)
(* every live order is the one the bot knows, and nothing is traded at     *)
(* market beside a live limit order.                                       *)
(*                                                                         *)
(* The step that makes it inductive: a poll that raises falls back to mem, *)
(* a process that dies to disk, so these copies must know every live order *)
(* too, unless an order was sent since they were written.                  *)
(*                                                                         *)
(* The last part orders the copies by how much they know: the row on disk  *)
(* never knows more than the others, so no save makes it go back.          *)
(***************************************************************************)
EXTENDS BotProofs

\* With the orders os at the venue, every live one is the limit order that s
\* remembers, and filled and unfilled parts add up to no more than what s
\* ordered and the fee on it.
Tracks(s, os) ==
    \A i \in OrderIds : os[i].status = "open" =>
        /\ s.open_limit.id = i
        /\ os[i].left + os[i].filled <= s.open_limit.usdt + Overshoot

Tracked ==
    ~dirty => /\ Tracks(Known, orders)
              /\ ~Booting /\ "mem" \notin unaware => Tracks(mem, orders)
              /\ "disk" \notin unaware => Tracks(disk, orders)

\* Between two polls the working copy is the remembered one.
Rested == pc = "idle" => st = mem

TInv == IInv /\ Rested /\ Tracked

\* From os to ns the venue opened no order, and what is still open adds up to
\* the same.
FewerOpen(os, ns) ==
    \A i \in OrderIds : ns[i].status = "open" =>
        /\ os[i].status = "open"
        /\ ns[i].left + ns[i].filled = os[i].left + os[i].filled

NoneOpen(os) == \A i \in OrderIds : os[i].status # "open"
-----------------------------------------------------------------------------

\* The most that an order costs beyond its amount is a bound on what each costs.
LEMMA OvershootBound ==
    /\ Overshoot \in Nat
    /\ \A e \in Excesses : e <= Overshoot
  <1>1. \E m \in Excesses : \A e \in Excesses : e <= m
    BY ExcessAssumption
  <1>2. Overshoot \in Excesses /\ \A e \in Excesses : e <= Overshoot
    BY <1>1, Zenon DEF Overshoot
  <1>3. Excesses \subseteq Int /\ 0 \in Excesses
    BY ExchangeAssumption DEF Excesses
  <1> QED
    BY <1>2, <1>3

-----------------------------------------------------------------------------
(* Tracking and the venue                                                  *)

LEMMA FewerTracks ==
    ASSUME NEW s, NEW os, NEW ns, Tracks(s, os), FewerOpen(os, ns)
    PROVE  Tracks(s, ns)
  BY DEF Tracks, FewerOpen

\* A state without a limit order tracks nothing, so nothing is open.
LEMMA NothingTracked ==
    ASSUME NEW s, NEW os, s.open_limit = NoLimit, Tracks(s, os)
    PROVE  NoneOpen(os)
  <1>1. NoLimit.id \notin OrderIds
    BY ExchangeAssumption DEF NoLimit
  <1> QED
    BY <1>1 DEF Tracks, NoneOpen

LEMMA NoneTracks ==
    ASSUME NEW s, NEW os, NoneOpen(os)
    PROVE  Tracks(s, os)
  BY DEF Tracks, NoneOpen

LEMMA SameTracks ==
    ASSUME NEW s, NEW t, NEW os, s.open_limit = t.open_limit, Tracks(s, os)
    PROVE  Tracks(t, os)
  BY DEF Tracks

\* An order that is taken off the book is not open any more.
LEMMA ReleaseFewer ==
    ASSUME ExchangeTypeOK, NEW i \in OrderIds, Release(i)
    PROVE  FewerOpen(orders, orders') /\ orders'[i].status # "open"
  <1>1. orders' = [orders EXCEPT ![i].status = "canceled", ![i].left = 0]
    BY DEF Release
  <1>2. orders[i] \in OrderResult /\ orders \in [OrderIds -> OrderResult]
    BY DEF ExchangeTypeOK
  <1>3. orders'[i].status = "canceled"
    BY <1>1, <1>2 DEF OrderResult
  <1>4. \A j \in OrderIds \ {i} : orders'[j] = orders[j]
    BY <1>1, <1>2
  <1> QED
    BY <1>3, <1>4 DEF FewerOpen

LEMMA CancelFewer ==
    ASSUME ExchangeTypeOK, NEW i \in OrderIds, cancel_order(i)
    PROVE  FewerOpen(orders, orders') /\ orders'[i].status # "open"
  <1>1. CASE IsOpen(i)
    BY <1>1, ReleaseFewer DEF cancel_order
  <1>2. CASE ~IsOpen(i)
    BY <1>2 DEF cancel_order, IsOpen, FewerOpen
  <1> QED
    BY <1>1, <1>2

\* Nothing the venue does on its own opens an order.
LEMMA VenueFewer ==
    ASSUME ExchangeTypeOK, ExchangeStep
    PROVE  FewerOpen(orders, orders')
  <1>1. ASSUME NEW i \in OrderIds, NEW d \in FillSizes \cup {orders[i].left},
               LimitFill(i, d)
        PROVE  FewerOpen(orders, orders')
    <2>1. orders[i] \in OrderResult /\ orders \in [OrderIds -> OrderResult]
      BY DEF ExchangeTypeOK
    <2>2. d \in Nat /\ orders[i].left \in Nat /\ orders[i].filled \in Nat
      BY <2>1, ExchangeAssumption DEF OrderResult
    <2>3. /\ orders[i].status = "open"
          /\ orders' = [orders EXCEPT
                ![i] = [status |-> IF d = orders[i].left THEN "closed" ELSE "open",
                        left |-> orders[i].left - d,
                        filled |-> orders[i].filled + d]]
      BY <1>1 DEF LimitFill, IsOpen
    <2>4. orders'[i].left + orders'[i].filled = orders[i].left + orders[i].filled
      BY <2>1, <2>2, <2>3
    <2>5. \A j \in OrderIds \ {i} : orders'[j] = orders[j]
      BY <2>1, <2>3
    <2> QED
      BY <2>3, <2>4, <2>5 DEF FewerOpen
  <1>2. ASSUME NEW i \in OrderIds, ExpireOrder(i)
        PROVE  FewerOpen(orders, orders')
    BY <1>2, ReleaseFewer DEF ExpireOrder
  <1>3. ASSUME NEW f \in FlowSizes, Deposit(f) \/ Withdraw(f)
        PROVE  FewerOpen(orders, orders')
    BY <1>3 DEF Deposit, Withdraw, FewerOpen
  <1> QED
    BY <1>1, <1>2, <1>3 DEF ExchangeStep

-----------------------------------------------------------------------------
(* Folding keeps track, unless it forgets a rest that is still live        *)

\* A fold keeps the id and the amount of the order; it forgets the order only
\* when less than a minimum order of it is left.
LEMMA FoldForgets ==
    ASSUME NEW s, Good(s), s.open_limit # NoLimit, NEW filled \in Nat
    PROVE  LET f == fold_order_progress(s, s.open_limit.id, filled)
           IN  \/ /\ f.open_limit.id = s.open_limit.id
                  /\ f.open_limit.usdt = s.open_limit.usdt
               \/ /\ f.open_limit = NoLimit
                  /\ s.open_limit.usdt - filled < MinNotional
  <1> DEFINE d == filled - s.open_limit.filled_quote_seen
             k == BookFill(s, d)
             b == apply_buy_fill(s, d)
             f == fold_order_progress(s, s.open_limit.id, filled)
  <1>1. CASE d <= 0
    <2>1. f = s
      BY <1>1 DEF fold_order_progress
    <2> QED
      BY <2>1
  <1>2. CASE ~(d <= 0)
    <2>1. /\ s \in State
          /\ s.step_target_usdt = s.open_limit.usdt
          /\ s.step_filled_usdt = s.open_limit.filled_quote_seen
      BY DEF Good, Sound, StateOK, LimitOK
    <2>2. s.open_limit.filled_quote_seen \in Nat /\ s.open_limit.usdt \in Nat
      BY <2>1 DEF State, OpenLimit
    <2>3. f = update_limit_seen(b, filled)
      BY <1>2 DEF fold_order_progress
    <2>4. /\ k.open_limit = s.open_limit
          /\ Remaining(k) = s.open_limit.usdt - filled
      <3>1. /\ k.open_limit = s.open_limit
            /\ k.step_target_usdt = s.step_target_usdt
            /\ k.step_filled_usdt = s.step_filled_usdt + d
        BY <2>1 DEF BookFill, State
      <3> QED
        BY <2>1, <2>2, <3>1 DEF Remaining
    <2>5. k \in State
      <3>1. /\ s.position_qty + d \in Nat
            /\ s.cycle_cash_remaining - d \in Int
            /\ s.step_filled_usdt + d \in Nat
        BY <1>2, <2>1, <2>2 DEF State
      <3> QED
        BY <2>1, <3>1 DEF BookFill, State
    <2>6. CASE Remaining(k) < MinNotional
      <3>1. b = CompleteStep(k)
        BY <2>6 DEF apply_buy_fill
      <3> HIDE DEF k
      <3>2. b.open_limit = NoLimit
        BY <2>5, <3>1 DEF CompleteStep, State
      <3> HIDE DEF b
      <3>3. f.open_limit = NoLimit
        BY <2>3, <3>2 DEF update_limit_seen
      <3> QED
        BY <2>4, <2>6, <3>3
    <2>7. CASE ~(Remaining(k) < MinNotional)
      <3>1. b = k
        BY <2>7 DEF apply_buy_fill
      <3> HIDE DEF k, b, f
      <3>2. f = [b EXCEPT !.open_limit.filled_quote_seen = filled]
        BY <2>3, <2>4, <3>1 DEF update_limit_seen
      <3>3. f.open_limit.id = b.open_limit.id /\ f.open_limit.usdt = b.open_limit.usdt
        BY <2>5, <3>1, <3>2 DEF State, OpenLimit
      <3> QED
        BY <2>4, <3>1, <3>3 DEF f
    <2> QED
      BY <2>6, <2>7
  <1> QED
    BY <1>1, <1>2

LEMMA RefreshTracks ==
    ASSUME ExchangeTypeOK, NEW s, Good(s), Tracks(s, orders), ~RestForgotten(s)
    PROVE  Tracks(refresh_open_limit(s), orders)
  <1> DEFINE r == refresh_open_limit(s)
  <1>1. CASE s.open_limit = NoLimit
    BY <1>1, RefreshGood
  <1>2. CASE s.open_limit # NoLimit
    <2> DEFINE j == s.open_limit.id
               f == fold_order_progress(s, j, orders[j].filled)
    <2>1. j \in OrderIds
      BY <1>2 DEF Good
    <2>2. orders[j].filled \in Nat /\ orders[j].left \in Nat
      BY <2>1 DEF ExchangeTypeOK, OrderResult
    <2>3. s.open_limit.usdt \in Nat /\ MinNotional \in Nat
      BY ParamsAssumption DEF Good, Sound, State, OpenLimit
    <2>4. \/ /\ f.open_limit.id = j
             /\ f.open_limit.usdt = s.open_limit.usdt
          \/ /\ f.open_limit = NoLimit
             /\ s.open_limit.usdt - orders[j].filled < MinNotional
      BY <1>2, <2>2, FoldForgets
    <2> HIDE DEF f
    <2>5. CASE NoneOpen(orders)
      BY <2>5, NoneTracks
    <2>6. CASE ~NoneOpen(orders)
      <3>1. /\ orders[j].status = "open"
            /\ orders[j].left + orders[j].filled <= s.open_limit.usdt + Overshoot
        BY <2>6 DEF Tracks, NoneOpen
      <3>2. r = f
        BY <1>2, <3>1 DEF refresh_open_limit, f
      <3>3. f.open_limit # NoLimit
        <4> SUFFICES ASSUME f.open_limit = NoLimit PROVE FALSE
          OBVIOUS
        <4>1. s.open_limit.usdt - orders[j].filled < MinNotional
          <5>1. NoLimit.usdt = 0
            BY DEF NoLimit
          <5>2. s.open_limit.usdt > 0
            BY <1>2 DEF Good, Sound, StateOK, LimitOK
          <5> QED
            BY <2>4, <5>1, <5>2
        <4>2. orders[j].left < MinNotional + Overshoot
          BY <2>2, <2>3, <3>1, <4>1, OvershootBound
        <4> QED
          BY <1>2, <3>1, <3>2, <4>2 DEF RestForgotten, IsOpen
      <3>4. f.open_limit.id = j /\ f.open_limit.usdt = s.open_limit.usdt
        BY <2>4, <3>3
      <3> QED
        BY <3>1, <3>2, <3>4 DEF Tracks
    <2> QED
      BY <2>5, <2>6
  <1> QED
    BY <1>1, <1>2
-----------------------------------------------------------------------------
(* The steps of Bot keep TInv: the venue, the clock and the poll           *)

\* A step that leaves the stored copies alone keeps them tracking, either
\* because the venue opens no order or because both count as unaware of it.
LEMMA CopiesKept ==
    ASSUME TInv, UNCHANGED <<mem, disk>>, ~dirty,
           \/ unaware' = Copies
           \/ unaware' = unaware /\ FewerOpen(orders, orders')
    PROVE  /\ ~Booting' /\ "mem" \notin unaware' => Tracks(mem', orders')
           /\ "disk" \notin unaware' => Tracks(disk', orders')
  BY FewerTracks DEF TInv, Tracked, Booting, Copies

\* What the steps of a poll or a boot have to show.
LEMMA WorkTracked ==
    ASSUME TInv, UNCHANGED <<mem, disk>>, dirty \in BOOLEAN,
           pc' \notin {"idle", "down"},
           dirty => dirty',
           ~dirty' => Tracks(st', orders'),
           \/ unaware' = Copies
           \/ unaware' = unaware /\ FewerOpen(orders, orders')
    PROVE  Rested' /\ Tracked'
  <1>1. Rested'
    BY DEF Rested
  <1>2. Known' = st'
    BY DEF Known
  <1>3. ~dirty' => ~dirty
    OBVIOUS
  <1>4. ~dirty' => /\ ~Booting' /\ "mem" \notin unaware' => Tracks(mem', orders')
                   /\ "disk" \notin unaware' => Tracks(disk', orders')
    BY <1>3, CopiesKept
  <1> QED
    BY <1>1, <1>2, <1>4 DEF Tracked

\* In particular those that touch neither the venue nor the limit order.
LEMMA SameLimit ==
    ASSUME TInv, UNCHANGED <<mem, disk, orders>>, dirty \in BOOLEAN,
           pc # "down", pc' \notin {"idle", "down"},
           dirty' = dirty,
           st'.open_limit = st.open_limit,
           unaware' \in {unaware, Copies}
    PROVE  Rested' /\ Tracked'
  <1>1. ~dirty' => Tracks(st', orders')
    BY SameTracks DEF TInv, Tracked, Known
  <1>2. FewerOpen(orders, orders')
    BY DEF FewerOpen
  <1> QED
    BY <1>1, <1>2, WorkTracked

LEMMA VenueTracked ==
    ASSUME TInv, VenueStep
    PROVE  Rested' /\ Tracked'
  <1>1. /\ FewerOpen(orders, orders')
        /\ UNCHANGED <<st, pc, unaware, dirty, mem, disk>>
    BY VenueFewer DEF VenueStep, pollVars, historyVars, TInv, IInv
  <1>2. Rested'
    BY <1>1 DEF TInv, Rested
  <1>3. Known' = Known /\ Booting' = Booting
    BY <1>1 DEF Known, Booting
  <1>4. Tracked'
    BY <1>1, <1>3, FewerTracks DEF TInv, Tracked
  <1> QED
    BY <1>2, <1>4

LEMMA TimeTracked ==
    ASSUME TInv, TimePasses
    PROVE  Rested' /\ Tracked'
  <1>1. /\ st' = Aged(st) /\ mem' = Aged(mem) /\ disk' = Aged(disk)
        /\ UNCHANGED <<orders, pc, unaware, dirty>>
    BY DEF TimePasses, pollVars, exchangeVars, historyVars
  <1>2. /\ st'.open_limit = st.open_limit
        /\ mem'.open_limit = mem.open_limit
        /\ disk'.open_limit = disk.open_limit
    BY <1>1, AgedGood DEF TInv, IInv
  <1>3. Booting => Booting'
    BY <1>1, AgedNoState DEF Booting
  <1>4. Rested'
    BY <1>1 DEF TInv, Rested
  <1>5. Known'.open_limit = Known.open_limit
    BY <1>1, <1>2 DEF Known
  <1>6. Tracked'
    BY <1>1, <1>2, <1>3, <1>5, SameTracks DEF TInv, Tracked
  <1> QED
    BY <1>4, <1>6

LEMMA BeginPollTracked ==
    ASSUME TInv, BeginPoll
    PROVE  Rested' /\ Tracked'
  <1>1. /\ pc = "idle" /\ pc' = "topup" /\ st' = refresh_open_limit(st)
        /\ UNCHANGED <<orders, unaware, mem, disk>>
        /\ dirty' = (dirty \/ RestForgotten(st))
    BY DEF BeginPoll, Goto, exchangeVars
  <1>2. dirty \in BOOLEAN /\ ExchangeTypeOK /\ Good(st)
    BY DEF TInv, IInv, ControlTypeOK
  <1>3. ~dirty' => Tracks(st', orders')
    <2> SUFFICES ASSUME ~dirty' PROVE Tracks(st', orders')
      OBVIOUS
    <2>1. ~dirty /\ ~RestForgotten(st)
      BY <1>1
    <2>2. Tracks(st, orders)
      BY <1>1, <2>1 DEF TInv, Tracked, Known
    <2> QED
      BY <1>1, <1>2, <2>1, <2>2, RefreshTracks
  <1>4. FewerOpen(orders, orders')
    BY <1>1 DEF FewerOpen
  <1> QED
    BY <1>1, <1>2, <1>3, <1>4, WorkTracked

\* The steps of check_and_apply_topup, before it cancels or buys anything.
LEMMA TopupTracked ==
    ASSUME TInv, UNCHANGED <<mem, disk>>,
           \/ TopupDisabled(Booting) \/ TopupNothing(Booting)
           \/ TopupCandidate(Booting) \/ TopupYieldsToTakeProfit(Booting)
           \/ TopupConfirmed \/ Resplit(Booting)
    PROVE  Rested' /\ Tracked'
  <1>1. dirty \in BOOLEAN /\ Good(st)
    BY DEF TInv, IInv, ControlTypeOK
  <1>2. Delta \in Int /\ 0 \in Int /\ usdt \in Int
    <2>1. usdt \in Int /\ st.cycle_cash_remaining \in Int
      BY DEF TInv, IInv, ExchangeTypeOK, Good, Sound, State
    <2> QED
      BY <2>1 DEF Delta
  <1> HIDE DEF Delta
  <1>3. ASSUME \/ TopupDisabled(Booting) \/ TopupNothing(Booting)
               \/ TopupCandidate(Booting) \/ TopupYieldsToTakeProfit(Booting)
               \/ TopupConfirmed
        PROVE  Rested' /\ Tracked'
    <2>1. /\ pc = "topup" /\ UNCHANGED <<orders, unaware, dirty>>
          /\ pc' \in {"save", "decide", "resplit", "topup_cancel"}
      BY <1>3
      DEF TopupDisabled, TopupNothing, TopupCandidate, TopupYieldsToTakeProfit,
          TopupConfirmed, Goto, AfterTopup, exchangeVars
    <2>2. \/ st' = st
          \/ st' = [st EXCEPT !.pending_topup_delta = Delta]
          \/ st' = [st EXCEPT !.pending_topup_delta = 0]
      BY <1>3
      DEF TopupDisabled, TopupNothing, TopupCandidate, TopupYieldsToTakeProfit,
          TopupConfirmed
    <2>3. st'.open_limit = st.open_limit
      BY <1>1, <1>2, <2>2, PendingGood
    <2> QED
      BY <1>1, <2>1, <2>3, SameLimit
  <1>4. ASSUME Resplit(Booting) PROVE Rested' /\ Tracked'
    <2> DEFINE split == apply_topup(st, usdt)
               buys == [split EXCEPT !.step_target_usdt = next_usdt(split)]
    <2>1. /\ pc = "resplit" /\ UNCHANGED <<orders, unaware, dirty>>
          /\ st' \in {split} \cup (IF can_buy(split) THEN {buys} ELSE {})
          /\ pc' \in {"deposit_buy", "decide", "save"}
      BY <1>4 DEF Resplit, AfterTopup, exchangeVars
    <2>2. Sound(st) /\ st.open_limit = NoLimit
      BY <2>1 DEF TInv, IInv, PlanOK, Good
    <2>3. /\ split.open_limit = NoLimit
          /\ can_buy(split) => buys.open_limit = NoLimit
      BY <1>2, <2>2, TopupSound
    <2> HIDE DEF split, buys
    <2>4. st'.open_limit = st.open_limit
      BY <2>1, <2>2, <2>3
    <2> QED
      BY <1>1, <2>1, <2>4, SameLimit
  <1> QED
    BY <1>3, <1>4

LEMMA DecideTracked ==
    ASSUME TInv, UNCHANGED <<mem, disk>>, Decide
    PROVE  Rested' /\ Tracked'
  <1>1. /\ pc = "decide" /\ pc' \in {"save", "act"}
        /\ UNCHANGED <<orders, st, unaware, dirty>>
    BY DEF Decide, exchangeVars
  <1>2. dirty \in BOOLEAN
    BY DEF TInv, IInv, ControlTypeOK
  <1> QED
    BY <1>1, <1>2, SameLimit

\* A call returns into the poll, never out of it.
LEMMA ReturnStays ==
    ASSUME TInv, NEW did \in BOOLEAN, NEW booting, Return(did, booting),
           pc \in {"act", "topup_cancel", "deposit_buy", "newcycle"}
    PROVE  pc' \notin {"idle", "down"}
  BY ReturnTo DEF TInv, IInv

\* A cancel leaves nothing open, unless its failure was swallowed.
LEMMA CancelTracked ==
    ASSUME TInv, UNCHANGED <<mem, disk>>, NEW swallowed \in BOOLEAN,
           CancelLimit(Booting, swallowed)
    PROVE  Rested' /\ Tracked'
  <1> DEFINE j == st.open_limit.id
  <1>1. ExchangeTypeOK /\ PlanOK /\ pc \in Pcs /\ Good(st) /\ dirty \in BOOLEAN
    BY DEF TInv, IInv, ControlTypeOK
  <1>2. st.open_limit # NoLimit /\ pc \in {"topup_cancel", "act"}
    BY <1>1, CallSites DEF CancelLimit
  <1>3. /\ IF swallowed THEN UNCHANGED exchangeVars ELSE cancel_order(j)
        /\ dirty' = (dirty \/ (swallowed /\ IsOpen(j)))
        /\ unaware' = unaware
        /\ Return(TRUE, Booting)
    BY DEF CancelLimit, cancel_order_swallowed
  <1>4. pc' \notin {"idle", "down"}
    BY <1>2, <1>3, ReturnStays
  <1>5. j \in OrderIds
    BY <1>1, <1>2 DEF Good
  <1>6. /\ FewerOpen(orders, orders')
        /\ ~(swallowed /\ IsOpen(j)) => orders'[j].status # "open"
    <2>1. CASE swallowed
      BY <1>3, <2>1 DEF exchangeVars, FewerOpen, IsOpen
    <2>2. CASE ~swallowed
      BY <1>1, <1>3, <1>5, <2>2, CancelFewer
    <2> QED
      BY <2>1, <2>2
  <1>7. ~dirty' => Tracks(st', orders')
    <2> SUFFICES ASSUME ~dirty' PROVE Tracks(st', orders')
      OBVIOUS
    <2>1. ~dirty /\ orders'[j].status # "open"
      BY <1>3, <1>6
    <2>2. Tracks(st, orders)
      BY <1>2, <2>1 DEF TInv, Tracked, Known
    <2>3. NoneOpen(orders')
      BY <1>6, <2>1, <2>2 DEF Tracks, FewerOpen, NoneOpen
    <2> QED
      BY <2>3, NoneTracks
  <1> QED
    BY <1>1, <1>3, <1>4, <1>6, <1>7, WorkTracked

\* What is done at market, and what is not done at all, leaves the book alone.
LEMMA MarketTracked ==
    ASSUME TInv, UNCHANGED <<mem, disk>>,
           \/ MarketBuy(Booting) \/ NothingToBuy(Booting) \/ SellAll \/ StartNewCycle
    PROVE  Rested' /\ Tracked'
  <1>1. ExchangeTypeOK /\ PlanOK /\ pc \in Pcs /\ Good(st) /\ dirty \in BOOLEAN
    BY DEF TInv, IInv, ControlTypeOK
  <1>2. ASSUME MarketBuy(Booting) PROVE Rested' /\ Tracked'
    <2>1. /\ st.open_limit = NoLimit /\ pc \in {"deposit_buy", "act"}
          /\ Return(TRUE, Booting) /\ unaware' = Copies /\ dirty' = dirty
      BY <1>1, <1>2, CallSites DEF MarketBuy, SendsOrder
    <2>2. orders' = orders
      BY <1>2 DEF MarketBuy, market_buy_quote
    <2>3. st'.open_limit = st.open_limit
      <3>1. PICK cost \in MarketCosts(AmountToBuy) : st' = apply_buy_fill(st, cost)
        BY <1>2 DEF MarketBuy
      <3> DEFINE k == BookFill(st, cost)
      <3>2. st \in State /\ cost \in Nat
        BY <1>1, <3>1 DEF Good, Sound, MarketCosts, ExchangeTypeOK
      <3>3. k \in State /\ k.open_limit = st.open_limit
        <4>1. /\ st.position_qty + cost \in Nat
              /\ st.cycle_cash_remaining - cost \in Int
              /\ st.step_filled_usdt + cost \in Nat
          BY <3>2 DEF State
        <4> QED
          BY <3>2, <4>1 DEF BookFill, State
      <3>4. st' = k \/ st' = CompleteStep(k)
        BY <3>1 DEF apply_buy_fill
      <3> HIDE DEF k
      <3>5. CompleteStep(k).open_limit = NoLimit
        BY <3>3 DEF CompleteStep, State
      <3> QED
        BY <2>1, <3>3, <3>4, <3>5
    <2>4. pc' \notin {"idle", "down"}
      BY <2>1, ReturnStays
    <2> QED
      BY <1>1, <2>1, <2>2, <2>3, <2>4, SameLimit
  <1>3. ASSUME NothingToBuy(Booting) PROVE Rested' /\ Tracked'
    <2>1. /\ pc \in {"deposit_buy", "act"} /\ Return(FALSE, Booting)
          /\ UNCHANGED <<orders, st, unaware, dirty>>
      BY <1>1, <1>3, CallSites DEF NothingToBuy, exchangeVars
    <2>2. pc' \notin {"idle", "down"}
      BY <2>1, ReturnStays
    <2> QED
      BY <1>1, <2>1, <2>2, SameLimit
  <1>4. ASSUME SellAll PROVE Rested' /\ Tracked'
    <2>1. /\ pc = "act" /\ pc' = "newcycle" /\ unaware' = Copies
          /\ UNCHANGED <<orders, st, dirty>>
      BY <1>1, <1>4, CallSites DEF SellAll, market_sell_all
    <2> QED
      BY <1>1, <2>1, SameLimit
  <1>5. ASSUME StartNewCycle PROVE Rested' /\ Tracked'
    <2>1. /\ pc = "newcycle" /\ Return(TRUE, FALSE)
          /\ unaware' = Copies /\ UNCHANGED <<orders, dirty>>
          /\ st' = start_cycle(free, st.cycle_id + 1)
      BY <1>5 DEF StartNewCycle, SendsOrder, exchangeVars
    <2>2. st.open_limit = NoLimit
      BY <1>1, <2>1 DEF PlanOK
    <2>3. st'.open_limit = NoLimit
      BY <2>1 DEF start_cycle
    <2>4. pc' \notin {"idle", "down"}
      BY <2>1, ReturnStays
    <2> QED
      BY <1>1, <2>1, <2>2, <2>3, <2>4, SameLimit
  <1> QED
    BY <1>2, <1>3, <1>4, <1>5

\* A limit order is placed while none is open, and it is remembered at once.
LEMMA PlaceTracked ==
    ASSUME TInv, UNCHANGED <<mem, disk>>, NEW i \in FreshIds, PlaceLimitBuy(i)
    PROVE  Rested' /\ Tracked'
  <1> DEFINE u == next_usdt(st)
             ol == [id |-> i, usdt |-> u, filled_quote_seen |-> 0]
  <1>1. ExchangeTypeOK /\ PlanOK /\ pc \in Pcs /\ Good(st) /\ dirty \in BOOLEAN
    BY DEF TInv, IInv, ControlTypeOK
  <1>2. pc = "act" /\ ChaseDue(st)
    BY <1>1, CallSites DEF PlaceLimitBuy
  <1>3. /\ st' = on_limit_placed(st, ol)
        /\ Return(TRUE, FALSE) /\ unaware' = Copies /\ dirty' = dirty
    BY DEF PlaceLimitBuy, SendsOrder
  <1>9. PICK fee \in LimitFees : place_limit_buy(i, u, fee)
    BY DEF PlaceLimitBuy
  <1>10. fee \in Nat /\ fee <= Overshoot /\ Overshoot \in Nat
    BY OvershootBound, ExchangeAssumption DEF Excesses
  <1>4. i \in OrderIds /\ i \in Nat
    BY ExchangeAssumption DEF FreshIds
  <1>5. u \in Nat
    BY <1>1, <1>2, <1>4, PlacedSound DEF Good
  <1>6. st'.open_limit.id = i /\ st'.open_limit.usdt = u
    BY <1>1, <1>3 DEF on_limit_placed, Good, Sound, State
  <1> HIDE DEF u
  <1>7. ~dirty' => Tracks(st', orders')
    <2> SUFFICES ASSUME ~dirty' PROVE Tracks(st', orders')
      OBVIOUS
    <2>1. Tracks(st, orders)
      BY <1>2, <1>3 DEF TInv, Tracked, Known
    <2>2. NoneOpen(orders)
      BY <1>2, <2>1, NothingTracked DEF ChaseDue
    <2>3. orders' = [orders EXCEPT
                       ![i] = [status |-> "open", left |-> u + fee, filled |-> 0]]
      BY <1>9 DEF place_limit_buy
    <2>4. \A j \in OrderIds : orders'[j].status = "open" => j = i
      BY <1>1, <2>2, <2>3 DEF NoneOpen, ExchangeTypeOK
    <2>5. orders'[i].left + orders'[i].filled <= u + Overshoot
      BY <1>1, <1>4, <1>5, <1>10, <2>3 DEF ExchangeTypeOK
    <2> QED
      BY <1>6, <2>4, <2>5 DEF Tracks
  <1>8. pc' \notin {"idle", "down"}
    BY <1>2, <1>3, ReturnStays
  <1> QED
    BY <1>1, <1>3, <1>7, <1>8, WorkTracked
-----------------------------------------------------------------------------
(* The steps of Bot keep TInv: saves, failures and boots                   *)

\* A process that dies leaves the row on disk, which tracks what is open unless
\* it is unaware of an order.
LEMMA DiesTracked ==
    ASSUME TInv, Dies,
           ~dirty' => ~dirty /\ "disk" \notin unaware /\ FewerOpen(orders, orders')
    PROVE  Rested' /\ Tracked'
  <1>1. /\ st' = NoState /\ mem' = NoState /\ disk' = disk /\ pc' = "down"
    BY DEF Dies, Leave
  <1>2. Booting' /\ Known' = disk
    BY <1>1 DEF Booting, Known
  <1>3. ~dirty' => Tracks(disk, orders')
    BY FewerTracks DEF TInv, Tracked
  <1> QED
    BY <1>1, <1>2, <1>3 DEF Rested, Tracked

LEMMA RaisesTracked ==
    ASSUME TInv, NEW sent \in BOOLEAN, Raises(sent), dirty \in BOOLEAN,
           ~sent => FewerOpen(orders, orders')
    PROVE  Rested' /\ Tracked'
  <1>1. ASSUME PollRaises, dirty' = (dirty \/ sent \/ "mem" \in unaware)
        PROVE  Rested' /\ Tracked'
    <2>1. /\ ~Booting /\ st' = mem /\ pc' = "idle"
          /\ unaware' = unaware \ {"mem"} /\ mem' = mem /\ disk' = disk
      BY <1>1 DEF PollRaises, Leave
    <2>2. ~dirty' => ~dirty /\ "mem" \notin unaware /\ FewerOpen(orders, orders')
      BY <1>1
    <2>3. ~dirty' => /\ Tracks(mem, orders')
                     /\ "disk" \notin unaware => Tracks(disk, orders')
      BY <2>1, <2>2, FewerTracks DEF TInv, Tracked
    <2>4. Known' = mem
      BY <2>1 DEF Known
    <2> QED
      BY <2>1, <2>3, <2>4 DEF Rested, Tracked
  <1>2. ASSUME Dies, dirty' = (dirty \/ sent \/ "disk" \in unaware)
        PROVE  Rested' /\ Tracked'
    BY <1>2, DiesTracked
  <1> QED
    BY <1>1, <1>2 DEF Raises

LEMMA FailureTracked ==
    ASSUME TInv, FailureStep
    PROVE  Rested' /\ Tracked'
  <1>1. /\ ExchangeTypeOK /\ PlanOK /\ pc \in Pcs /\ Good(st)
        /\ dirty \in BOOLEAN
    BY DEF TInv, IInv, ControlTypeOK
  <1>2. ASSUME CallRaises(FreshIds), Raises(FALSE) PROVE Rested' /\ Tracked'
    <2>1. FewerOpen(orders, orders')
      BY <1>2 DEF CallRaises, exchangeVars, FewerOpen
    <2> QED
      BY <1>1, <1>2, <2>1, RaisesTracked
  <1>3. ASSUME CancelThenRaises, Raises(FALSE) PROVE Rested' /\ Tracked'
    <2>1. st.open_limit # NoLimit
      BY <1>1, <1>3, CallSites DEF CancelThenRaises
    <2>2. FewerOpen(orders, orders')
      BY <1>1, <1>3, <2>1, CancelFewer DEF CancelThenRaises, Good
    <2> QED
      BY <1>1, <1>3, <2>2, RaisesTracked
  <1>4. ASSUME Raises(TRUE) PROVE Rested' /\ Tracked'
    BY <1>1, <1>4, RaisesTracked
  <1> QED
    BY <1>2, <1>3, <1>4 DEF FailureStep

\* What is saved is the working copy, and it becomes the remembered one.
LEMMA SaveTracked ==
    ASSUME TInv, Save
    PROVE  Rested' /\ Tracked'
  <1>1. /\ pc = "save" /\ disk' = st /\ UNCHANGED <<orders, dirty>>
        /\ \/ mem' = NoState /\ pc' = "down"
           \/ st' = st /\ mem' = st /\ pc' = "idle"
    BY DEF Save, Leave, exchangeVars
  <1>2. ~dirty => Tracks(st, orders)
    BY <1>1 DEF TInv, Tracked, Known
  <1> QED
    BY <1>1, <1>2 DEF Rested, Tracked, Known, Booting

LEMMA SaveFailsTracked ==
    ASSUME TInv, SaveFails
    PROVE  Rested' /\ Tracked'
  <1>1. pc = "save" /\ UNCHANGED orders
    BY DEF SaveFails, exchangeVars
  <1>2. CASE Booting
    <2>1. Dies /\ dirty' = (dirty \/ "disk" \in unaware)
      BY <1>2 DEF SaveFails
    <2>2. FewerOpen(orders, orders')
      BY <1>1 DEF FewerOpen
    <2> QED
      BY <2>1, <2>2, DiesTracked
  <1>3. CASE ~Booting
    <2>1. /\ mem' = st /\ st' = st /\ disk' = disk /\ pc' = "idle"
          /\ unaware' = unaware \ {"mem"} /\ dirty' = dirty
      BY <1>3 DEF SaveFails, Leave
    <2>2. ~dirty => /\ Tracks(st, orders)
                    /\ "disk" \notin unaware => Tracks(disk, orders)
      BY <1>1 DEF TInv, Tracked, Known
    <2> QED
      BY <1>1, <2>1, <2>2 DEF Rested, Tracked, Known
  <1> QED
    BY <1>2, <1>3

\* SIGTERM saves mem, which between two polls is the working copy.
LEMMA StopTracked ==
    ASSUME TInv, Stop
    PROVE  Rested' /\ Tracked'
  <1>1. /\ pc = "idle" /\ disk' = mem /\ mem' = NoState /\ pc' = "down"
        /\ UNCHANGED <<orders, dirty>>
    BY DEF Stop, Leave, exchangeVars
  <1>2. ~dirty => Tracks(mem, orders)
    BY <1>1 DEF TInv, Rested, Tracked, Known
  <1> QED
    BY <1>1, <1>2 DEF Rested, Tracked, Known, Booting

LEMMA CrashTracked ==
    ASSUME TInv, Crash
    PROVE  Rested' /\ Tracked'
  <1>1. Dies /\ dirty' = (dirty \/ "disk" \in unaware)
    BY DEF Crash
  <1>2. FewerOpen(orders, orders')
    BY DEF Crash, exchangeVars, FewerOpen
  <1> QED
    BY <1>1, <1>2, DiesTracked

\* A boot starts from the row on disk, which is what is known while it is down.
LEMMA BootTracked ==
    ASSUME TInv, BootStep
    PROVE  Rested' /\ Tracked'
  <1>1. /\ ExchangeTypeOK /\ Good(st) /\ Good(disk) /\ dirty \in BOOLEAN
    BY DEF TInv, IInv, ControlTypeOK
  <1>2. /\ UNCHANGED <<mem, disk, orders, unaware>>
        /\ FewerOpen(orders, orders')
        /\ pc' \notin {"idle", "down"}
    BY DEF BootStep, BootFresh, BootFetchOrder, BootFetchFails, BootCheckBalance,
           Goto, exchangeVars, historyVars, FewerOpen
  <1>3. pc = "down" /\ ~dirty => Tracks(disk, orders)
    BY DEF TInv, Tracked, Known
  <1>4. ASSUME BootFresh PROVE Rested' /\ Tracked'
    <2>1. /\ pc = "down" /\ disk = NoState /\ dirty' = dirty
          /\ st' \in {Halted(start_cycle(free, 1)), start_cycle(free, 1)}
      BY <1>4 DEF BootFresh
    <2>2. disk.open_limit = NoLimit /\ st'.open_limit = NoLimit
      BY <2>1 DEF NoState, Halted, start_cycle
    <2>3. ~dirty' => Tracks(st', orders')
      BY <1>2, <1>3, <2>1, <2>2, SameTracks
    <2> QED
      BY <1>1, <1>2, <2>1, <2>3, WorkTracked
  <1>5. ASSUME BootFetchOrder PROVE Rested' /\ Tracked'
    <2>1. /\ pc = "down" /\ st' = refresh_open_limit(disk)
          /\ dirty' = (dirty \/ RestForgotten(disk))
      BY <1>5 DEF BootFetchOrder
    <2>2. ~dirty' => Tracks(st', orders')
      <3> SUFFICES ASSUME ~dirty' PROVE Tracks(st', orders')
        OBVIOUS
      <3>1. ~dirty /\ ~RestForgotten(disk)
        BY <2>1
      <3> QED
        BY <1>1, <1>2, <1>3, <2>1, <3>1, RefreshTracks
    <2> QED
      BY <1>1, <1>2, <2>1, <2>2, WorkTracked
  <1>6. ASSUME BootFetchFails PROVE Rested' /\ Tracked'
    <2>1. pc = "down" /\ st' = Halted(disk) /\ dirty' = dirty
      BY <1>6 DEF BootFetchFails
    <2>2. ~dirty' => Tracks(st', orders')
      BY <1>1, <1>2, <1>3, <2>1, HaltedGood, SameTracks
    <2> QED
      BY <1>1, <1>2, <2>1, <2>2, WorkTracked
  <1>7. ASSUME BootCheckBalance PROVE Rested' /\ Tracked'
    <2>1. pc = "boot_balance" /\ st' \in {st, Halted(st)} /\ dirty' = dirty
      BY <1>7 DEF BootCheckBalance, historyVars
    <2>2. st'.open_limit = st.open_limit
      BY <1>1, <2>1, HaltedGood
    <2> QED
      BY <1>1, <1>2, <2>1, <2>2, SameLimit
  <1> QED
    BY <1>4, <1>5, <1>6, <1>7 DEF BootStep

-----------------------------------------------------------------------------
(* The theorems                                                            *)

LEMMA InitTracked == Init => TInv
  <1> SUFFICES ASSUME Init PROVE TInv
    OBVIOUS
  <1>1. NoneOpen(orders)
    BY DEF Init, ExchangeInit, NoneOpen
  <1>2. Tracked
    BY <1>1, NoneTracks DEF Tracked
  <1>3. Rested
    BY DEF Init, Rested
  <1> QED
    BY <1>2, <1>3, InitInv DEF TInv

LEMMA NextTracked == TInv /\ [Next]_vars => TInv'
  <1> SUFFICES ASSUME TInv, [Next]_vars PROVE TInv'
    OBVIOUS
  <1>1. IInv'
    BY NextInv DEF TInv
  <1>2. CASE PollStep
    <2>1. UNCHANGED <<mem, disk>>
      BY <1>2 DEF PollStep
    <2>2. ASSUME NEW swallowed \in BOOLEAN, CancelLimit(Booting, swallowed)
          PROVE  Rested' /\ Tracked'
      BY <2>1, <2>2, CancelTracked
    <2>3. ASSUME NEW i \in FreshIds, PlaceLimitBuy(i) PROVE Rested' /\ Tracked'
      BY <2>1, <2>3, PlaceTracked
    <2> QED
      BY <1>1, <1>2, <2>1, <2>2, <2>3, TopupTracked, DecideTracked, MarketTracked
      DEF PollStep, TInv
  <1>3. CASE ToggleKill
    <2>1. UNCHANGED <<orders, st, pc, unaware, dirty, mem, disk>>
      BY <1>3 DEF ToggleKill, pollVars, exchangeVars, historyVars
    <2> QED
      BY <1>1, <2>1 DEF TInv, Rested, Tracked, Known, Booting
  <1>4. CASE UNCHANGED vars
    BY <1>1, <1>4
    DEF vars, exchangeVars, pollVars, historyVars, TInv, Rested, Tracked, Known, Booting
  <1> QED
    BY <1>1, <1>2, <1>3, <1>4, BeginPollTracked, FailureTracked, SaveTracked,
       SaveFailsTracked, StopTracked, CrashTracked, BootTracked, VenueTracked,
       TimeTracked
    DEF Next, TInv

\* Unless an order was lost, no order is ever live that the bot does not know:
\* not after a discarded poll, a failed save or a crash at any moment.
THEOREM TrackedOrders == Spec => []OrdersTracked
  <1>1. TInv => OrdersTracked
    BY DEF TInv, Tracked, Tracks, OrdersTracked, IsOpen
  <1> QED
    BY <1>1, InitTracked, NextTracked, PTL DEF Spec

\* Nothing is bought or sold at market while a limit buy is live: the cancel
\* that goes before has left nothing open.
THEOREM OneSide == Spec => []OneSideOfOco
  <1>1. TInv => OneSideOfOco
    <2> SUFFICES ASSUME TInv, ~dirty, Call \in {"MarketBuy", "SellAll"}
                 PROVE  OpenOrders = {}
      BY DEF OneSideOfOco
    <2>1. PlanOK /\ pc \in Pcs
      BY DEF TInv, IInv, ControlTypeOK
    <2>2. st.open_limit = NoLimit /\ pc # "down"
      BY <2>1, CallSites
    <2>3. Tracks(st, orders)
      BY <2>2 DEF TInv, Tracked, Known
    <2>4. NoneOpen(orders)
      BY <2>2, <2>3, NothingTracked
    <2> QED
      BY <2>4 DEF NoneOpen, OpenOrders, IsOpen
  <1> QED
    BY <1>1, InitTracked, NextTracked, PTL DEF Spec
-----------------------------------------------------------------------------
(* The stored row never goes back                                          *)

\* b knows all that a does: a later cycle, or as large a position in the same.
Later(a, b) == /\ a.cycle_id <= b.cycle_id
               /\ a.cycle_id = b.cycle_id => a.position_qty <= b.position_qty

\* While the process lives the working state knows all that the row does, and
\* so does mem once the first save has set it.
RowInv == pc # "down" => /\ Later(disk, st)
                         /\ pc = "idle" \/ ~Booting => Later(disk, mem)

LEMMA LaterTransitive ==
    ASSUME NEW a \in State, NEW b \in State, NEW c \in State, Later(a, b), Later(b, c)
    PROVE  Later(a, c)
  BY DEF Later, State

-----------------------------------------------------------------------------
(* Every reducer moves on                                                  *)

\* A fill of any size adds to the position.
LEMMA BuyLater ==
    ASSUME NEW s \in State, NEW cost \in Nat
    PROVE  /\ apply_buy_fill(s, cost) \in State
           /\ Later(s, apply_buy_fill(s, cost))
  <1> DEFINE k == BookFill(s, cost)
             b == apply_buy_fill(s, cost)
  <1>1. /\ s.position_qty + cost \in Nat
        /\ s.cycle_cash_remaining - cost \in Int
        /\ s.step_filled_usdt + cost \in Nat
    BY DEF State
  <1>2. /\ k \in State /\ k.cycle_id = s.cycle_id
        /\ k.position_qty = s.position_qty + cost
    BY <1>1 DEF BookFill, State
  <1> HIDE DEF k
  <1>3. /\ CompleteStep(k).cycle_id = k.cycle_id
        /\ CompleteStep(k).position_qty = k.position_qty
    BY <1>2 DEF CompleteStep, State
  <1>4. b = k \/ b = CompleteStep(k)
    BY DEF apply_buy_fill, k
  <1>5. b \in State /\ b.cycle_id = s.cycle_id /\ b.position_qty = s.position_qty + cost
    BY <1>2, <1>3, <1>4, CompleteStepType
  <1> HIDE DEF b
  <1>6. Later(s, b)
    BY <1>5 DEF Later, State
  <1> QED
    BY <1>5, <1>6 DEF b

\* So does the fold of the remembered order, forgotten afterwards or not.
LEMMA FoldLater ==
    ASSUME NEW s \in State, NEW filled \in Nat
    PROVE  LET f == fold_order_progress(s, s.open_limit.id, filled)
           IN  Later(s, f) /\ Later(s, on_limit_canceled(f))
  <1> DEFINE d == filled - s.open_limit.filled_quote_seen
             b == apply_buy_fill(s, d)
             f == fold_order_progress(s, s.open_limit.id, filled)
  <1>1. f \in State /\ Later(s, f)
    <2>1. CASE s.open_limit = NoLimit \/ d <= 0
      <3>1. f = s
        BY <2>1 DEF fold_order_progress
      <3> QED
        BY <3>1 DEF Later, State
    <2>2. CASE s.open_limit # NoLimit /\ ~(d <= 0)
      <3>1. d \in Nat
        BY <2>2 DEF State, OpenLimit
      <3>2. f = update_limit_seen(b, filled)
        BY <2>2 DEF fold_order_progress
      <3>3. b \in State /\ Later(s, b)
        BY <3>1, BuyLater
      <3> HIDE DEF b, f
      <3>4. /\ f \in State /\ f.cycle_id = b.cycle_id
            /\ f.position_qty = b.position_qty
        BY <3>2, <3>3 DEF update_limit_seen, State, OpenLimit
      <3> QED
        BY <3>3, <3>4 DEF Later, f
    <2> QED
      BY <2>1, <2>2
  <1> HIDE DEF f
  <1>2. /\ on_limit_canceled(f).cycle_id = f.cycle_id
        /\ on_limit_canceled(f).position_qty = f.position_qty
    BY <1>1 DEF on_limit_canceled, State
  <1> QED
    BY <1>1, <1>2 DEF Later, f

LEMMA RefreshLater ==
    ASSUME ExchangeTypeOK, NEW s, Good(s)
    PROVE  Later(s, refresh_open_limit(s))
  <1>1. s \in State
    BY DEF Good, Sound
  <1>2. CASE s.open_limit = NoLimit
    BY <1>1, <1>2 DEF refresh_open_limit, Later, State
  <1>3. CASE s.open_limit # NoLimit
    <2>1. orders[s.open_limit.id].filled \in Nat
      BY <1>3 DEF Good, ExchangeTypeOK, OrderResult
    <2> QED
      BY <1>1, <1>3, <2>1, FoldLater DEF refresh_open_limit
  <1> QED
    BY <1>2, <1>3

\* The reducers that trade nothing, and the new cycle.
LEMMA OtherLater ==
    ASSUME NEW s \in State
    PROVE  /\ Later(s, s) /\ Later(s, Halted(s))
           /\ \A d \in Int : Later(s, [s EXCEPT !.pending_topup_delta = d])
           /\ \A o \in OpenLimit : Later(s, on_limit_placed(s, o))
           /\ \A cash : Later(s, start_cycle(cash, s.cycle_id + 1))
           /\ \A cash : LET split == apply_topup(s, cash)
                        IN  /\ Later(s, split)
                            /\ \A u : Later(s, [split EXCEPT !.step_target_usdt = u])
  BY DEF Later, State, Halted, on_limit_placed, start_cycle, apply_topup

\* The passing of a day changes neither the cycle nor the position.
LEMMA AgedLater ==
    ASSUME NEW a \in State, NEW b \in State
    PROVE  Later(Aged(a), Aged(b)) <=> Later(a, b)
  BY DEF Aged, Later, State

-----------------------------------------------------------------------------
(* Every call of a poll moves on                                           *)

LEMMA PollLater ==
    ASSUME IInv, PollStep
    PROVE  pc # "down" /\ Later(st, st')
  <1>1. /\ ExchangeTypeOK /\ PlanOK /\ pc \in Pcs /\ Good(st) /\ st \in State
        /\ usdt \in Int
    BY DEF IInv, ControlTypeOK, Good, Sound, ExchangeTypeOK
  <1>2. Call \in {"CancelLimit", "MarketBuy", "PlaceLimitBuy", "SellAll"} => pc # "down"
    BY <1>1, CallSites
  <1>3. CASE \/ TopupDisabled(Booting) \/ TopupNothing(Booting)
             \/ TopupCandidate(Booting) \/ TopupYieldsToTakeProfit(Booting)
             \/ TopupConfirmed
    <2>1. pc = "topup"
      BY <1>3
      DEF TopupDisabled, TopupNothing, TopupCandidate, TopupYieldsToTakeProfit, TopupConfirmed
    <2>2. Delta \in Int
      BY <1>1 DEF Delta, State
    <2>3. \/ st' = st
          \/ \E d \in Int : st' = [st EXCEPT !.pending_topup_delta = d]
      BY <1>3, <2>2
      DEF TopupDisabled, TopupNothing, TopupCandidate, TopupYieldsToTakeProfit, TopupConfirmed
    <2> QED
      BY <1>1, <2>1, <2>3, OtherLater
  <1>4. CASE Resplit(Booting)
    BY <1>1, <1>4, OtherLater DEF Resplit
  <1>5. CASE Decide
    BY <1>1, <1>5, OtherLater DEF Decide
  <1>6. ASSUME NEW swallowed \in BOOLEAN, CancelLimit(Booting, swallowed)
        PROVE  pc # "down" /\ Later(st, st')
    <2>1. Call = "CancelLimit"
      BY <1>6 DEF CancelLimit
    <2>2. st.open_limit # NoLimit
      BY <1>1, <2>1, CallSites
    <2>3. orders[st.open_limit.id].filled \in Nat
      BY <1>1, <2>2 DEF Good, ExchangeTypeOK, OrderResult
    <2> QED
      BY <1>1, <1>2, <1>6, <2>1, <2>3, FoldLater DEF CancelLimit
  <1>7. CASE MarketBuy(Booting)
    <2>1. PICK cost \in MarketCosts(AmountToBuy) :
            market_buy_quote(cost) /\ st' = apply_buy_fill(st, cost)
      BY <1>7 DEF MarketBuy
    <2>2. cost \in Nat
      BY <1>1, <2>1, MarketBuyType
    <2> QED
      BY <1>1, <1>2, <1>7, <2>1, <2>2, BuyLater DEF MarketBuy
  <1>8. CASE NothingToBuy(Booting)
    BY <1>1, <1>2, <1>8, OtherLater DEF NothingToBuy
  <1>9. ASSUME NEW i \in FreshIds, PlaceLimitBuy(i)
        PROVE  pc # "down" /\ Later(st, st')
    <2> DEFINE o == [id |-> i, usdt |-> next_usdt(st), filled_quote_seen |-> 0]
    <2>1. Call = "PlaceLimitBuy" /\ st' = on_limit_placed(st, o)
      BY <1>9 DEF PlaceLimitBuy
    <2>2. Sound(st) /\ ChaseDue(st) /\ i \in Nat
      BY <1>1, <2>1, CallSites, ExchangeAssumption DEF Good, FreshIds
    <2>3. o \in OpenLimit
      <3>1. next_usdt(st) \in Nat
        BY <2>2, PlacedSound
      <3> QED
        BY <2>2, <3>1 DEF OpenLimit
    <2> QED
      BY <1>1, <1>2, <2>1, <2>3, OtherLater
  <1>10. CASE SellAll
    BY <1>1, <1>2, <1>10, OtherLater DEF SellAll
  <1>11. CASE StartNewCycle
    BY <1>1, <1>11, OtherLater DEF StartNewCycle
  <1> QED
    BY <1>3, <1>4, <1>5, <1>6, <1>7, <1>8, <1>9, <1>10, <1>11 DEF PollStep
-----------------------------------------------------------------------------
(* Every step keeps the order of the copies, and the row moves on          *)

LEMMA RowStep ==
    ASSUME IInv, RowInv, [Next]_vars
    PROVE  RowInv' /\ Later(disk, disk')
  <1>1. /\ Good(st) /\ Good(mem) /\ Good(disk) /\ ExchangeTypeOK
        /\ st \in State /\ mem \in State /\ disk \in State
        /\ pc = "down" => Booting
    BY DEF IInv, HaltOK, Good, Sound
  <1>2. Later(disk, disk) /\ Later(st, st)
    BY <1>1, OtherLater
  <1>3. st' \in State
    BY NextInv DEF IInv, Good, Sound
  \* A poll works on st; mem and the row wait for it.
  <1>4. ASSUME pc # "down", Later(st, st'), UNCHANGED <<mem, disk>>, pc' # "idle"
        PROVE  RowInv' /\ Later(disk, disk')
    <2>1. Later(disk, st')
      BY <1>1, <1>3, <1>4, LaterTransitive DEF RowInv
    <2> QED
      BY <1>2, <1>4, <2>1 DEF RowInv, Booting
  \* What neither touches a copy nor starts or ends a poll.
  <1>5. ASSUME UNCHANGED <<st, mem, disk, pc>> PROVE RowInv' /\ Later(disk, disk')
    BY <1>2, <1>5 DEF RowInv, Booting
  \* The end of the process.
  <1>6. ASSUME pc' = "down", disk' = disk PROVE RowInv' /\ Later(disk, disk')
    BY <1>2, <1>6 DEF RowInv
  <1>7. CASE BeginPoll
    <2>1. pc = "idle" /\ pc' = "topup" /\ st' = refresh_open_limit(st)
          /\ UNCHANGED <<mem, disk>>
      BY <1>7 DEF BeginPoll, Goto
    <2> QED
      BY <1>1, <1>4, <2>1, RefreshLater
  <1>8. CASE PollStep
    <2>1. pc # "down" /\ Later(st, st') /\ UNCHANGED <<mem, disk>>
      BY <1>8, PollLater DEF PollStep
    <2>2. pc' # "idle"
      BY <1>8
      DEF PollStep, TopupDisabled, TopupNothing, TopupCandidate,
          TopupYieldsToTakeProfit, TopupConfirmed, Resplit, Decide, CancelLimit,
          MarketBuy, NothingToBuy, PlaceLimitBuy, SellAll, StartNewCycle, Return,
          AfterTopup, Goto
    <2> QED
      BY <1>4, <2>1, <2>2
  <1>9. ASSUME NEW sent \in BOOLEAN, Raises(sent) PROVE RowInv' /\ Later(disk, disk')
    <2>1. CASE PollRaises
      <3>1. ~Booting /\ st' = mem /\ UNCHANGED <<mem, disk>>
        BY <2>1 DEF PollRaises
      <3>2. Later(disk, mem)
        BY <1>1, <3>1 DEF RowInv
      <3> QED
        BY <1>2, <3>1, <3>2 DEF RowInv
    <2>2. CASE Dies
      BY <1>6, <2>2 DEF Dies, Leave
    <2> QED
      BY <1>9, <2>1, <2>2 DEF Raises
  <1>10. CASE FailureStep
    BY <1>9, <1>10 DEF FailureStep
  <1>11. CASE Save
    <2>1. pc = "save" /\ disk' = st
          /\ \/ pc' = "down"
             \/ st' = st /\ mem' = st
      BY <1>11 DEF Save, Leave
    <2>2. Later(disk, st)
      BY <2>1 DEF RowInv
    <2> QED
      BY <1>2, <2>1, <2>2 DEF RowInv
  <1>12. CASE SaveFails
    <2>1. CASE Booting
      BY <1>6, <1>12, <2>1 DEF SaveFails, Dies, Leave
    <2>2. CASE ~Booting
      <3>1. pc = "save" /\ mem' = st /\ UNCHANGED <<st, disk>>
        BY <1>12, <2>2 DEF SaveFails
      <3> QED
        BY <1>2, <3>1 DEF RowInv
    <2> QED
      BY <2>1, <2>2
  <1>13. CASE Stop
    <2>1. pc = "idle" /\ disk' = mem /\ pc' = "down"
      BY <1>13 DEF Stop, Leave
    <2> QED
      BY <2>1 DEF RowInv
  <1>14. CASE Crash
    BY <1>6, <1>14 DEF Crash, Dies, Leave
  <1>15. CASE BootStep
    <2>1. CASE BootFresh
      <3>1. pc' = "save" /\ UNCHANGED <<mem, disk>> /\ disk = NoState /\ Booting
        BY <1>1, <2>1 DEF BootFresh, Goto
      <3>2. /\ disk.cycle_id = 0 /\ st'.cycle_id = 1
        BY <2>1, <3>1 DEF BootFresh, NoState, start_cycle, Halted
      <3>3. Later(disk, st')
        BY <3>2 DEF Later
      <3> QED
        BY <1>2, <3>1, <3>3 DEF RowInv, Booting
    <2>2. CASE BootFetchOrder \/ BootFetchFails
      <3>1. /\ pc' \in {"boot_balance", "save"} /\ UNCHANGED <<mem, disk>> /\ Booting
            /\ st' \in {refresh_open_limit(disk), Halted(disk)}
        BY <1>1, <2>2 DEF BootFetchOrder, BootFetchFails, Goto
      <3>2. Later(disk, st')
        BY <1>1, <3>1, RefreshLater, OtherLater
      <3> QED
        BY <1>2, <3>1, <3>2 DEF RowInv, Booting
    <2>3. CASE BootCheckBalance
      <3>1. /\ pc = "boot_balance" /\ pc' \in {"topup", "save"}
            /\ UNCHANGED <<mem, disk>> /\ st' \in {st, Halted(st)}
        BY <2>3 DEF BootCheckBalance, Goto
      <3>2. Later(st, st')
        BY <1>1, <3>1, OtherLater
      <3> QED
        BY <1>4, <3>1, <3>2
    <2> QED
      BY <1>15, <2>1, <2>2, <2>3 DEF BootStep
  <1>16. CASE VenueStep \/ ToggleKill
    <2>1. UNCHANGED <<st, mem, disk, pc>>
      BY <1>16 DEF VenueStep, ToggleKill, pollVars
    <2> QED
      BY <1>5, <2>1
  <1>17. CASE TimePasses
    <2>1. /\ st' = Aged(st) /\ mem' = Aged(mem) /\ disk' = Aged(disk) /\ pc' = pc
      BY <1>17 DEF TimePasses, pollVars
    <2>2. Booting => Booting'
      BY <2>1, AgedNoState DEF Booting
    <2>3. RowInv'
      BY <1>1, <2>1, <2>2, AgedLater DEF RowInv
    <2>4. Later(disk, disk')
      BY <1>1, <2>1 DEF Later, Aged, State
    <2> QED
      BY <2>3, <2>4
  <1>18. CASE UNCHANGED vars
    <2>1. UNCHANGED <<st, mem, disk, pc>>
      BY <1>18 DEF vars, pollVars
    <2> QED
      BY <1>5, <2>1
  <1> QED
    BY <1>7, <1>8, <1>10, <1>11, <1>12, <1>13, <1>14, <1>15, <1>16, <1>17, <1>18
    DEF Next

\* Whatever order saves, failed saves, discarded polls, crashes and restarts
\* come in: the stored cycle never falls and the stored position never shrinks
\* within a cycle.
THEOREM StoredRowGrows == Spec => RowNeverGoesBack
  <1> DEFINE A == Later(disk, disk')
  <1>1. Init => RowInv
    BY DEF Init, RowInv
  <1>2. IInv /\ RowInv /\ [Next]_vars => RowInv' /\ A
    BY RowStep
  <1>3. RowNeverGoesBack <=> [][A]_vars
    BY DEF RowNeverGoesBack, Later
  <1> QED
    BY <1>1, <1>2, <1>3, Invariance, PTL DEF Spec
=============================================================================
