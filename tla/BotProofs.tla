----------------------------- MODULE BotProofs -----------------------------
(***************************************************************************)
(* Proofs about Bot, for every value of the constants: the types, the      *)
(* soundness of all three copies of the State under every failure, and     *)
(* that a halted bot stays halted.                                         *)
(*                                                                         *)
(* None of these is inductive by itself.  IInv adds what the poll relies   *)
(* on between two of its calls: which plan is being executed and what the  *)
(* working state looked like when it was made.                             *)
(***************************************************************************)
EXTENDS Bot, StrategyProofs

\* A state of the right type that is sound and remembers only real orders.
Good(s) == Sound(s) /\ (s.open_limit # NoLimit => s.open_limit.id \in OrderIds)

\* The action lists of decide, and what is left of them.
Plans == {<<"MarketBuy">>, <<"SellAll">>, <<"PlaceLimitBuy">>,
          <<"CancelLimit", "MarketBuy">>, <<"CancelLimit", "SellAll">>}

ControlTypeOK ==
    /\ pc \in Pcs
    /\ steps \in 0 .. MaxSteps
    /\ progressed \in BOOLEAN /\ deposit \in BOOLEAN /\ dirty \in BOOLEAN
    /\ unaware \subseteq Copies
    /\ kill \in BOOLEAN

\* An order is canceled only when there is one; a market buy, a sale or a
\* re-split comes after it is gone; and a limit is placed on the state that
\* called for it.
PlanOK ==
    /\ pc # "act" => todo = <<>>
    /\ pc = "act" => todo \in Plans
    /\ todo \in {<<"CancelLimit", "MarketBuy">>, <<"CancelLimit", "SellAll">>}
         => st.open_limit # NoLimit
    /\ todo \in {<<"MarketBuy">>, <<"SellAll">>} => st.open_limit = NoLimit
    /\ todo = <<"PlaceLimitBuy">> => ChaseDue(st)
    /\ pc = "topup_cancel" => st.open_limit # NoLimit
    /\ pc \in {"resplit", "deposit_buy", "newcycle"} => st.open_limit = NoLimit

\* The poll counts its decisions, and begins one only below the maximum.
PaceOK ==
    /\ pc \notin {"decide", "act", "newcycle", "save"} => steps = 0
    /\ pc = "decide" => steps < MaxSteps

\* A halted row without a limit order on disk: the process is down, or on its
\* way through reconcile to saving it again.
HaltedRow == disk.status = "HALTED" /\ disk.open_limit = NoLimit

HaltOK ==
    /\ pc = "down" => Booting
    /\ HaltedRow /\ pc # "down" =>
         /\ Booting
         /\ st.status = "HALTED" /\ st.open_limit = NoLimit
         /\ pc \in {"boot_balance", "topup", "save"}

IInv == /\ ExchangeTypeOK
        /\ ControlTypeOK
        /\ Good(st) /\ Good(mem) /\ Good(disk)
        /\ PlanOK
        /\ PaceOK
        /\ HaltOK

-----------------------------------------------------------------------------
(* The calls to the venue keep its types                                   *)

LEMMA ReleaseType ==
    ASSUME ExchangeTypeOK, NEW i \in OrderIds, Release(i)
    PROVE  orders' \in [OrderIds -> OrderResult] /\ free' \in Nat
  <1>1. orders[i] \in OrderResult
    BY DEF ExchangeTypeOK
  <1>2. [orders[i] EXCEPT !.status = "canceled", !.left = 0] \in OrderResult
    BY <1>1 DEF OrderResult
  <1>3. orders' = [orders EXCEPT ![i] =
                     [orders[i] EXCEPT !.status = "canceled", !.left = 0]]
    BY DEF Release, ExchangeTypeOK
  <1>4. orders[i].left \in Nat
    BY <1>1 DEF OrderResult
  <1> QED
    BY <1>2, <1>3, <1>4 DEF Release, ExchangeTypeOK

LEMMA ExchangeStepType ==
    ASSUME ExchangeTypeOK, ExchangeStep
    PROVE  ExchangeTypeOK'
  <1>1. FillSizes \subseteq Nat /\ FlowSizes \subseteq Nat /\ MaxFlows \in Nat
    BY ExchangeAssumption
  <1>2. ASSUME NEW i \in OrderIds, NEW d \in FillSizes \cup {orders[i].left},
               LimitFill(i, d)
        PROVE  ExchangeTypeOK'
    <2>1. orders[i] \in OrderResult /\ d \in Nat /\ d <= orders[i].left
      BY <1>1, <1>2 DEF LimitFill, ExchangeTypeOK, OrderResult
    <2>2. [status |-> IF d = orders[i].left THEN "closed" ELSE "open",
           left |-> orders[i].left - d, filled |-> orders[i].filled + d] \in OrderResult
      BY <2>1 DEF OrderResult
    <2>3. orders' \in [OrderIds -> OrderResult]
      BY <1>2, <2>2 DEF LimitFill, ExchangeTypeOK
    <2> QED
      BY <1>2, <2>1, <2>3 DEF LimitFill, ExchangeTypeOK
  <1>3. ASSUME NEW i \in OrderIds, ExpireOrder(i) PROVE ExchangeTypeOK'
    BY <1>3, ReleaseType DEF ExpireOrder, ExchangeTypeOK
  <1>4. ASSUME NEW f \in FlowSizes, Deposit(f) \/ Withdraw(f) PROVE ExchangeTypeOK'
    BY <1>1, <1>4 DEF Deposit, Withdraw, ExchangeTypeOK
  <1> QED
    BY <1>2, <1>3, <1>4 DEF ExchangeStep

LEMMA CancelOrderType ==
    ASSUME ExchangeTypeOK, NEW i \in OrderIds, cancel_order(i)
    PROVE  ExchangeTypeOK'
  BY ReleaseType DEF cancel_order, ExchangeTypeOK

LEMMA PlaceLimitType ==
    ASSUME ExchangeTypeOK, NEW i \in OrderIds, NEW amount \in Nat, NEW fee \in Nat,
           place_limit_buy(i, amount, fee)
    PROVE  ExchangeTypeOK'
  BY DEF place_limit_buy, ExchangeTypeOK, OrderResult

\* A market buy costs something, and no more than the free balance.
LEMMA MarketBuyType ==
    ASSUME ExchangeTypeOK, NEW amount, NEW cost \in MarketCosts(amount),
           market_buy_quote(cost)
    PROVE  ExchangeTypeOK' /\ cost \in Nat \ {0}
  <1>1. cost \in 1 .. free /\ free \in Nat
    BY DEF MarketCosts, ExchangeTypeOK
  <1> QED
    BY <1>1 DEF market_buy_quote, ExchangeTypeOK

LEMMA SellType ==
    ASSUME ExchangeTypeOK, market_sell_all
    PROVE  ExchangeTypeOK'
  BY ExchangeAssumption DEF market_sell_all, SaleProceeds, ExchangeTypeOK

-----------------------------------------------------------------------------
(* What a poll does to a good state                                        *)

LEMMA StartCycleGood ==
    ASSUME NEW cash \in Nat, NEW c \in Nat
    PROVE  Good(start_cycle(cash, c))
  <1>1. start_cycle(cash, c).open_limit = NoLimit
    BY DEF start_cycle
  <1> QED
    BY <1>1, StartCycleSound DEF Good

LEMMA NoStateGood == Good(NoState)
  BY StartCycleGood DEF NoState

\* Folding the remembered order, and then forgetting it or not.
LEMMA FoldGood ==
    ASSUME NEW s, Good(s), NEW filled \in Nat
    PROVE  LET f == fold_order_progress(s, s.open_limit.id, filled)
           IN  Good(f) /\ Good(on_limit_canceled(f))
               /\ on_limit_canceled(f).open_limit = NoLimit
  <1> DEFINE f == fold_order_progress(s, s.open_limit.id, filled)
  <1>1. Sound(s)
    BY DEF Good
  <1>2. Sound(f)
    BY <1>1, FoldSound
  <1>3. f.open_limit = NoLimit \/ f.open_limit.id = s.open_limit.id
    BY <1>1, FoldKeepsId
  <1>4. s.open_limit = NoLimit => f.open_limit = NoLimit
    BY DEF fold_order_progress
  <1> HIDE DEF f
  <1>5. Sound(on_limit_canceled(f)) /\ on_limit_canceled(f).open_limit = NoLimit
    BY <1>2, CanceledSound
  <1> QED
    BY <1>2, <1>3, <1>4, <1>5 DEF Good, f

LEMMA RefreshGood ==
    ASSUME ExchangeTypeOK, NEW s, Good(s)
    PROVE  /\ Good(refresh_open_limit(s))
           /\ s.open_limit = NoLimit => refresh_open_limit(s) = s
  <1>1. CASE s.open_limit = NoLimit
    BY <1>1 DEF refresh_open_limit
  <1>2. CASE s.open_limit # NoLimit
    <2>1. orders[s.open_limit.id].filled \in Nat
      BY <1>2 DEF Good, ExchangeTypeOK, OrderResult
    <2>2. LET f == fold_order_progress(s, s.open_limit.id,
                                       orders[s.open_limit.id].filled)
          IN  Good(f) /\ Good(on_limit_canceled(f))
      BY <2>1, FoldGood
    <2> QED
      BY <1>2, <2>2 DEF refresh_open_limit
  <1> QED
    BY <1>1, <1>2

\* pending_topup_delta is in no part of the soundness of a state.
LEMMA PendingGood ==
    ASSUME NEW s, Good(s), NEW d \in Int
    PROVE  LET p == [s EXCEPT !.pending_topup_delta = d]
           IN  Good(p) /\ p.open_limit = s.open_limit
  <1> DEFINE p == [s EXCEPT !.pending_topup_delta = d]
  <1>1. s \in State /\ StateOK(s)
    BY DEF Good, Sound
  <1>2. p \in State
    BY <1>1 DEF State
  <1>3. /\ p.open_limit = s.open_limit
        /\ p.step_target_usdt = s.step_target_usdt
        /\ p.step_filled_usdt = s.step_filled_usdt
        /\ p.cycle_cash_remaining = s.cycle_cash_remaining
        /\ p.tranches_used = s.tranches_used
        /\ p.ref = s.ref
        /\ p.last_fill_time = s.last_fill_time
        /\ p.status = s.status
    BY <1>1 DEF State
  <1> HIDE DEF p
  <1>4. StateOK(p)
    BY <1>1, <1>3
    DEF StateOK, StepOK, FundedOK, TimerOK, LimitOK, ExhaustedOK, Remaining
  <1> QED
    BY <1>2, <1>3, <1>4 DEF Good, Sound, p

\* Neither a halt nor the passing of a day touches the step or the limit.
LEMMA HaltedGood ==
    ASSUME NEW s, Good(s)
    PROVE  /\ Good(Halted(s))
           /\ Halted(s).status = "HALTED" /\ Halted(s).open_limit = s.open_limit
  <1> DEFINE h == Halted(s)
  <1>1. s \in State /\ StateOK(s)
    BY DEF Good, Sound
  <1>2. h \in State
    BY <1>1 DEF Halted, State, Status
  <1>3. /\ h.open_limit = s.open_limit
        /\ h.step_target_usdt = s.step_target_usdt
        /\ h.step_filled_usdt = s.step_filled_usdt
        /\ h.cycle_cash_remaining = s.cycle_cash_remaining
        /\ h.tranches_used = s.tranches_used
        /\ h.ref = s.ref
        /\ h.last_fill_time = s.last_fill_time
        /\ h.status = "HALTED"
    BY <1>1 DEF Halted, State
  <1> HIDE DEF h
  <1>4. StateOK(h)
    BY <1>1, <1>3
    DEF StateOK, StepOK, FundedOK, TimerOK, LimitOK, ExhaustedOK, Remaining
  <1> QED
    BY <1>2, <1>3, <1>4 DEF Good, Sound, h

LEMMA AgedGood ==
    ASSUME NEW s, Good(s)
    PROVE  /\ Good(Aged(s))
           /\ Aged(s).status = s.status /\ Aged(s).open_limit = s.open_limit
  <1> DEFINE a == Aged(s)
             t == IF s.last_fill_time = "recent" THEN "elapsed" ELSE s.last_fill_time
  <1>1. s \in State /\ StateOK(s)
    BY DEF Good, Sound
  <1>2. t \in Timer /\ (t = "none" <=> s.last_fill_time = "none")
    BY <1>1 DEF State, Timer
  <1>3. a = [s EXCEPT !.last_fill_time = t]
    BY DEF Aged
  <1> HIDE DEF a, t
  <1>4. a \in State
    BY <1>1, <1>2, <1>3 DEF State
  <1>5. /\ a.open_limit = s.open_limit
        /\ a.step_target_usdt = s.step_target_usdt
        /\ a.step_filled_usdt = s.step_filled_usdt
        /\ a.cycle_cash_remaining = s.cycle_cash_remaining
        /\ a.tranches_used = s.tranches_used
        /\ a.ref = s.ref
        /\ a.last_fill_time = t
        /\ a.status = s.status
    BY <1>1, <1>2, <1>3 DEF State
  <1>6. StateOK(a)
    BY <1>1, <1>2, <1>5
    DEF StateOK, StepOK, FundedOK, TimerOK, LimitOK, ExhaustedOK, Remaining
  <1> QED
    BY <1>4, <1>5, <1>6 DEF Good, Sound, a

LEMMA AgedNoState == Aged(NoState) = NoState
  BY DEF Aged, NoState, start_cycle

-----------------------------------------------------------------------------
(* The plan of a decision, and what it leaves to be done                   *)

\* A decision is a plan that fits the state it was made on.
LEMMA DecidePlan ==
    ASSUME NEW s, ~s.ref => s.open_limit = NoLimit, NEW tp, decide(s, tp) # <<>>
    PROVE  LET plan == decide(s, tp)
           IN  /\ plan \in Plans
               /\ plan \in {<<"CancelLimit", "MarketBuy">>, <<"CancelLimit", "SellAll">>}
                    => s.open_limit # NoLimit
               /\ plan \in {<<"MarketBuy">>, <<"SellAll">>} => s.open_limit = NoLimit
               /\ plan = <<"PlaceLimitBuy">> => ChaseDue(s)
  <1>1. \/ decide(s, tp) = <<"MarketBuy">> /\ s.open_limit = NoLimit
        \/ decide(s, tp) = <<"SellAll">> /\ s.open_limit = NoLimit
        \/ /\ decide(s, tp) \in {<<"CancelLimit", "MarketBuy">>, <<"CancelLimit", "SellAll">>}
           /\ s.open_limit # NoLimit
        \/ decide(s, tp) = <<"PlaceLimitBuy">> /\ ChaseDue(s)
    BY DEF decide, Bootstrapping
  <1> QED
    BY <1>1 DEF Plans

\* Where each call of the executor is made from.
LEMMA CallSites ==
    ASSUME PlanOK, pc \in Pcs
    PROVE  /\ Call = "CancelLimit" =>
                /\ st.open_limit # NoLimit
                /\ \/ pc = "topup_cancel"
                   \/ pc = "act" /\ Tail(todo) \in {<<"MarketBuy">>, <<"SellAll">>}
           /\ Call = "MarketBuy" =>
                /\ st.open_limit = NoLimit
                /\ pc = "deposit_buy" \/ (pc = "act" /\ Tail(todo) = <<>>)
           /\ Call = "PlaceLimitBuy" => pc = "act" /\ Tail(todo) = <<>> /\ ChaseDue(st)
           /\ Call = "SellAll" =>
                pc = "act" /\ Tail(todo) = <<>> /\ st.open_limit = NoLimit
  <1>1. CASE pc = "act"
    <2>1. Call = Head(todo)
      BY <1>1 DEF Call
    <2>2. todo \in Plans
      BY <1>1 DEF PlanOK
    <2>3. CASE todo = <<"MarketBuy">>
      BY <1>1, <2>1, <2>3 DEF PlanOK
    <2>4. CASE todo = <<"SellAll">>
      BY <1>1, <2>1, <2>4 DEF PlanOK
    <2>5. CASE todo = <<"PlaceLimitBuy">>
      BY <1>1, <2>1, <2>5 DEF PlanOK
    <2>6. CASE todo = <<"CancelLimit", "MarketBuy">>
      BY <1>1, <2>1, <2>6 DEF PlanOK
    <2>7. CASE todo = <<"CancelLimit", "SellAll">>
      BY <1>1, <2>1, <2>7 DEF PlanOK
    <2> QED
      BY <2>2, <2>3, <2>4, <2>5, <2>6, <2>7 DEF Plans
  <1>2. CASE pc = "topup_cancel"
    BY <1>2 DEF Call, PlanOK
  <1>3. CASE pc = "deposit_buy"
    BY <1>3 DEF Call, PlanOK
  <1>4. CASE pc \notin {"act", "topup_cancel", "deposit_buy"}
    <2>1. Call = pc
      BY <1>4 DEF Call
    <2> QED
      BY <1>4, <2>1 DEF Pcs
  <1> QED
    BY <1>1, <1>2, <1>3, <1>4

\* A returning call leaves the rest of the plan, or a poll between two
\* decisions, or the end of the poll.
LEMMA ReturnTo ==
    ASSUME ControlTypeOK, PlanOK, PaceOK, NEW did \in BOOLEAN, NEW booting,
           Return(did, booting),
           pc \in {"act", "topup_cancel", "deposit_buy", "newcycle"}
    PROVE  /\ pc' \in Pcs /\ progressed' \in BOOLEAN
           /\ steps' = steps /\ deposit' = deposit
           /\ \/ pc = "topup_cancel" /\ pc' = "resplit" /\ todo' = todo /\ todo = <<>>
              \/ pc = "act" /\ pc' = "act" /\ todo' = Tail(todo) /\ todo' # <<>>
              \/ /\ pc' \in {"decide", "save"} /\ todo' = <<>>
                 /\ pc' = "decide" => steps' < MaxSteps
                 /\ pc = "act" => Tail(todo) = <<>>
  <1>1. progressed \in BOOLEAN /\ MaxSteps \in Nat \ {0} /\ steps \in Nat
    BY ExecutorAssumption DEF ControlTypeOK
  <1>2. CASE pc = "topup_cancel"
    BY <1>2 DEF Return, PlanOK, Pcs, ControlTypeOK
  <1>3. CASE pc = "deposit_buy"
    BY <1>1, <1>3 DEF Return, PlanOK, PaceOK, AfterTopup, Pcs, ControlTypeOK
  <1>4. CASE pc = "act"
    BY <1>1, <1>4 DEF Return, Pcs
  <1>5. CASE pc = "newcycle"
    BY <1>1, <1>5 DEF Return, Pcs, PlanOK
  <1> QED
    BY <1>2, <1>3, <1>4, <1>5

LEMMA EmptyPlan == <<>> \notin Plans
  <1>1. ASSUME NEW a, NEW b PROVE <<>> # <<a>> /\ <<>> # <<a, b>>
    <2>1. Len(<<>>) = 0 /\ Len(<<a>>) = 1 /\ Len(<<a, b>>) = 2
      OBVIOUS
    <2> QED
      BY <2>1
  <1> QED
    BY <1>1, Zenon DEF Plans

\* Outside "act" a plan is in order as soon as the limit order fits the label.
LEMMA NoPlan ==
    ASSUME todo' = <<>>, pc' # "act",
           pc' = "topup_cancel" => st'.open_limit # NoLimit,
           pc' \in {"resplit", "deposit_buy", "newcycle"} => st'.open_limit = NoLimit
    PROVE  PlanOK'
  <1>1. todo' \notin Plans
    BY EmptyPlan
  <1> QED
    BY <1>1 DEF PlanOK, Plans

\* So the decision step enters the plan that it has just made.
LEMMA DecidesPlan ==
    ASSUME Decide, ~st.ref => st.open_limit = NoLimit
    PROVE  PlanOK' /\ pc' \in {"save", "act"}
  <1>1. PICK tp \in PriceReads :
          /\ todo' = decide(st, tp)
          /\ pc' = IF decide(st, tp) = <<>> THEN "save" ELSE "act"
    BY DEF Decide
  <1>2. st' = st
    BY DEF Decide
  <1>3. CASE decide(st, tp) = <<>>
    BY <1>1, <1>3, NoPlan
  <1>4. CASE decide(st, tp) # <<>>
    <2>1. /\ todo' \in Plans
          /\ todo' \in {<<"CancelLimit", "MarketBuy">>, <<"CancelLimit", "SellAll">>}
               => st.open_limit # NoLimit
          /\ todo' \in {<<"MarketBuy">>, <<"SellAll">>} => st.open_limit = NoLimit
          /\ todo' = <<"PlaceLimitBuy">> => ChaseDue(st)
      BY <1>1, <1>4, DecidePlan
    <2> QED
      BY <1>1, <1>2, <1>4, <2>1 DEF PlanOK
  <1> QED
    BY <1>3, <1>4

\* A call that returns from a plan leaves a plan: after a cancel the state has no
\* limit order, after anything else there is nothing left to do.
LEMMA ReturnPlan ==
    ASSUME PlanOK, NEW did, NEW booting, Return(did, booting),
           pc \in {"act", "topup_cancel", "deposit_buy", "newcycle"},
           pc = "act" => \/ Tail(todo) = <<>>
                         \/ /\ Tail(todo) \in {<<"MarketBuy">>, <<"SellAll">>}
                            /\ st'.open_limit = NoLimit,
           pc = "topup_cancel" => st'.open_limit = NoLimit
    PROVE  /\ PlanOK'
           /\ pc' \in {"act", "resplit", "decide", "save"}
           /\ pc' = "resplit" <=> pc = "topup_cancel"
  <1>1. \/ pc = "topup_cancel" /\ pc' = "resplit" /\ todo' = <<>>
        \/ pc = "act" /\ pc' = "act" /\ todo' = Tail(todo) /\ todo' # <<>>
        \/ pc # "topup_cancel" /\ pc' \in {"decide", "save"} /\ todo' = <<>>
    BY DEF Return, PlanOK, AfterTopup
  <1>2. CASE pc' # "act"
    BY <1>1, <1>2, NoPlan
  <1>3. CASE pc' = "act"
    <2>1. todo' \in {<<"MarketBuy">>, <<"SellAll">>} /\ st'.open_limit = NoLimit
      BY <1>1, <1>3
    <2>2. /\ todo' \in Plans
          /\ todo' \notin {<<"CancelLimit", "MarketBuy">>, <<"CancelLimit", "SellAll">>}
          /\ todo' # <<"PlaceLimitBuy">>
      BY <2>1 DEF Plans
    <2>3. PlanOK'
      BY <1>3, <2>1, <2>2 DEF PlanOK
    <2> QED
      BY <1>1, <1>3, <2>3
  <1> QED
    BY <1>1, <1>2, <1>3

\* A process that leaves its poll, or ends, has nothing left to do.
LEMMA LeaveControl ==
    ASSUME NEW label \in {"idle", "down"}, Leave(label)
    PROVE  /\ pc' = label /\ pc' \in Pcs
           /\ steps' \in 0 .. MaxSteps
           /\ progressed' \in BOOLEAN /\ deposit' \in BOOLEAN
           /\ PlanOK' /\ PaceOK'
  <1>1. MaxSteps \in Nat
    BY ExecutorAssumption
  <1>2. /\ pc' = label /\ todo' = <<>> /\ steps' = 0
        /\ progressed' = FALSE /\ deposit' = FALSE
    BY DEF Leave
  <1>3. PlanOK'
    BY <1>2, NoPlan
  <1>4. PaceOK'
    BY <1>2 DEF PaceOK
  <1>5. pc' \in Pcs /\ steps' \in 0 .. MaxSteps
    BY <1>1, <1>2 DEF Pcs
  <1> QED
    BY <1>2, <1>3, <1>4, <1>5, Zenon

\* A poll step whose state is not on its way to a halted save leaves HaltOK.
LEMMA HaltStays ==
    ASSUME HaltOK, UNCHANGED <<mem, disk>>, pc # "down", pc' # "down",
           st.status # "HALTED" \/ pc \notin {"boot_balance", "topup", "save"}
    PROVE  HaltOK'
  BY DEF HaltOK, HaltedRow, Booting

-----------------------------------------------------------------------------
(* The steps of Bot keep IInv: the venue, the clock and the operator       *)

LEMMA InitInv == Init => IInv
  <1> SUFFICES ASSUME Init PROVE IInv
    OBVIOUS
  <1>1. ExchangeTypeOK
    BY ExchangeAssumption DEF Init, ExchangeInit, ExchangeTypeOK, OrderResult
  <1>2. ControlTypeOK
    <2>1. pc \in Pcs /\ steps \in 0 .. MaxSteps
      BY ExecutorAssumption DEF Init, Pcs
    <2>2. /\ progressed \in BOOLEAN /\ deposit \in BOOLEAN /\ dirty \in BOOLEAN
          /\ unaware \subseteq Copies /\ kill \in BOOLEAN
      BY Zenon DEF Init
    <2> QED
      BY <2>1, <2>2 DEF ControlTypeOK
  <1>3. Good(st) /\ Good(mem) /\ Good(disk)
    BY NoStateGood DEF Init
  <1>4. PlanOK
    BY EmptyPlan DEF Init, PlanOK, Plans
  <1>5. PaceOK /\ HaltOK
    BY DEF Init, PaceOK, HaltOK, Booting
  <1> QED
    BY <1>1, <1>2, <1>3, <1>4, <1>5 DEF IInv

LEMMA VenueStepInv ==
    ASSUME IInv, VenueStep
    PROVE  IInv'
  <1>1. ExchangeTypeOK'
    BY ExchangeStepType DEF IInv, VenueStep
  <1>2. UNCHANGED <<st, pc, todo, steps, progressed, deposit, unaware, dirty,
                    mem, disk, kill>>
    BY DEF VenueStep, pollVars, historyVars
  <1>3. ControlTypeOK' /\ PaceOK'
    BY <1>2 DEF IInv, ControlTypeOK, PaceOK
  <1>4. Good(st') /\ Good(mem') /\ Good(disk')
    BY <1>2 DEF IInv
  <1>5. PlanOK'
    BY <1>2 DEF IInv, PlanOK
  <1>6. HaltOK'
    BY <1>2 DEF IInv, HaltOK, HaltedRow, Booting
  <1> QED
    BY <1>1, <1>3, <1>4, <1>5, <1>6 DEF IInv

LEMMA TimePassesInv ==
    ASSUME IInv, TimePasses
    PROVE  IInv'
  <1>1. /\ pc \in {"idle", "down"}
        /\ st' = Aged(st) /\ mem' = Aged(mem) /\ disk' = Aged(disk)
        /\ UNCHANGED <<orders, usdt, free, base, flows, moved, pc, todo, steps, progressed,
                       deposit, unaware, dirty, kill>>
    BY DEF TimePasses, pollVars, exchangeVars, historyVars
  <1>2. ExchangeTypeOK' /\ ControlTypeOK' /\ PaceOK'
    BY <1>1 DEF IInv, ExchangeTypeOK, ControlTypeOK, PaceOK
  <1>3. Good(st') /\ Good(mem') /\ Good(disk')
    BY <1>1, AgedGood DEF IInv
  <1>4. PlanOK'
    <2>1. todo = <<>>
      BY <1>1 DEF IInv, PlanOK
    <2> QED
      BY <1>1, <2>1, NoPlan
  <1>5. HaltOK'
    <2>1. disk'.status = disk.status /\ disk'.open_limit = disk.open_limit
      BY <1>1, AgedGood DEF IInv
    <2>2. Booting => Booting'
      BY <1>1, AgedNoState DEF Booting
    <2> QED
      BY <1>1, <2>1, <2>2 DEF IInv, HaltOK, HaltedRow
  <1> QED
    BY <1>2, <1>3, <1>4, <1>5 DEF IInv

LEMMA ToggleKillInv ==
    ASSUME IInv, ToggleKill
    PROVE  IInv'
  <1>1. /\ UNCHANGED <<orders, usdt, free, base, flows, moved, st, pc, todo, steps,
                       progressed, deposit, unaware, dirty, mem, disk>>
        /\ kill \in BOOLEAN => kill' \in BOOLEAN
    BY DEF ToggleKill, pollVars, exchangeVars, historyVars
  <1>2. ExchangeTypeOK' /\ ControlTypeOK' /\ PaceOK'
    BY <1>1 DEF IInv, ExchangeTypeOK, ControlTypeOK, PaceOK
  <1>3. PlanOK'
    BY <1>1 DEF IInv, PlanOK
  <1>4. HaltOK'
    BY <1>1 DEF IInv, HaltOK, HaltedRow, Booting
  <1> QED
    BY <1>1, <1>2, <1>3, <1>4 DEF IInv

-----------------------------------------------------------------------------
(* The main loop                                                           *)

LEMMA BeginPollInv ==
    ASSUME IInv, BeginPoll
    PROVE  IInv'
  <1>1. /\ pc = "idle" /\ pc' = "topup" /\ st' = refresh_open_limit(st)
        /\ UNCHANGED <<orders, usdt, free, base, flows, moved, todo, steps, progressed,
                       deposit, unaware, mem, disk, kill>>
        /\ dirty' = (dirty \/ RestForgotten(st))
    BY DEF BeginPoll, Goto, exchangeVars
  <1>2. ExchangeTypeOK' /\ PaceOK'
    BY <1>1 DEF IInv, ExchangeTypeOK, PaceOK
  <1>3. ControlTypeOK'
    <2>1. dirty' \in BOOLEAN
      BY <1>1 DEF IInv, ControlTypeOK, RestForgotten
    <2> QED
      BY <1>1, <2>1 DEF IInv, ControlTypeOK, Pcs
  <1>4. Good(st') /\ Good(mem') /\ Good(disk')
    BY <1>1, RefreshGood DEF IInv
  <1>5. PlanOK'
    <2>1. todo = <<>>
      BY <1>1 DEF IInv, PlanOK
    <2> QED
      BY <1>1, <2>1, NoPlan
  <1>6. HaltOK'
    BY <1>1, HaltStays DEF IInv
  <1> QED
    BY <1>2, <1>3, <1>4, <1>5, <1>6 DEF IInv

\* A process that dies leaves the row on disk, and nothing else.
LEMMA DiesInv ==
    ASSUME IInv, ExchangeTypeOK', Dies, dirty' \in BOOLEAN
    PROVE  IInv'
  <1>1. /\ st' = NoState /\ mem' = NoState /\ disk' = disk /\ kill' = kill
        /\ Leave("down") /\ unaware' = {}
    BY DEF Dies
  <1>2. /\ pc' = "down" /\ pc' \in Pcs /\ steps' \in 0 .. MaxSteps
        /\ progressed' \in BOOLEAN /\ deposit' \in BOOLEAN
        /\ PlanOK' /\ PaceOK'
    BY <1>1, LeaveControl
  <1>3. ControlTypeOK'
    BY <1>1, <1>2 DEF IInv, ControlTypeOK
  <1>4. Good(st') /\ Good(mem') /\ Good(disk')
    BY <1>1, NoStateGood DEF IInv
  <1>5. HaltOK'
    BY <1>1, <1>2 DEF HaltOK, Booting
  <1> QED
    BY <1>2, <1>3, <1>4, <1>5 DEF IInv

\* A poll that raises goes back to mem; a boot that raises ends the process.
LEMMA RaisesInv ==
    ASSUME IInv, ExchangeTypeOK', NEW sent \in BOOLEAN, Raises(sent)
    PROVE  IInv'
  <1>1. dirty \in BOOLEAN
    BY DEF IInv, ControlTypeOK
  <1>2. ASSUME PollRaises, dirty' = (dirty \/ sent \/ "mem" \in unaware)
        PROVE  IInv'
    <2>1. /\ ~Booting /\ st' = mem /\ Leave("idle")
          /\ unaware' = unaware \ {"mem"}
          /\ mem' = mem /\ disk' = disk /\ kill' = kill
      BY <1>2 DEF PollRaises
    <2>2. /\ pc' = "idle" /\ pc' \in Pcs /\ steps' \in 0 .. MaxSteps
          /\ progressed' \in BOOLEAN /\ deposit' \in BOOLEAN
          /\ PlanOK' /\ PaceOK'
      BY <2>1, LeaveControl
    <2>3. dirty' \in BOOLEAN /\ unaware' \subseteq Copies
      BY <1>1, <1>2, <2>1 DEF IInv, ControlTypeOK
    <2>4. ControlTypeOK'
      BY <2>1, <2>2, <2>3 DEF IInv, ControlTypeOK
    <2>5. Good(st') /\ Good(mem') /\ Good(disk')
      BY <2>1 DEF IInv
    <2>6. HaltOK'
      <3>1. ~HaltedRow
        BY <2>1 DEF IInv, HaltOK
      <3> QED
        BY <2>1, <2>2, <3>1 DEF HaltOK, HaltedRow
    <2> QED
      BY <2>2, <2>4, <2>5, <2>6 DEF IInv
  <1>3. ASSUME Dies, dirty' = (dirty \/ sent \/ "disk" \in unaware)
        PROVE  IInv'
    BY <1>1, <1>3, DiesInv
  <1> QED
    BY <1>2, <1>3 DEF Raises

LEMMA SaveInv ==
    ASSUME IInv, Save
    PROVE  IInv'
  <1>1. /\ disk' = st /\ unaware' = {} /\ dirty' = dirty /\ kill' = kill
        /\ UNCHANGED <<orders, usdt, free, base, flows, moved>>
        /\ \/ st' = NoState /\ mem' = NoState /\ Leave("down")
           \/ st.status # "HALTED" /\ st' = st /\ mem' = st /\ Leave("idle")
    BY DEF Save, exchangeVars
  <1>2. /\ pc' \in Pcs /\ steps' \in 0 .. MaxSteps
        /\ progressed' \in BOOLEAN /\ deposit' \in BOOLEAN
        /\ PlanOK' /\ PaceOK'
    BY <1>1, LeaveControl
  <1>3. ExchangeTypeOK'
    BY <1>1 DEF IInv, ExchangeTypeOK
  <1>4. ControlTypeOK'
    BY <1>1, <1>2 DEF IInv, ControlTypeOK
  <1>5. Good(st') /\ Good(mem') /\ Good(disk')
    BY <1>1, NoStateGood DEF IInv
  <1>6. HaltOK'
    BY <1>1, LeaveControl DEF HaltOK, HaltedRow, Booting
  <1> QED
    BY <1>2, <1>3, <1>4, <1>5, <1>6 DEF IInv

LEMMA SaveFailsInv ==
    ASSUME IInv, SaveFails
    PROVE  IInv'
  <1>1. UNCHANGED <<orders, usdt, free, base, flows, moved>>
    BY DEF SaveFails, exchangeVars
  <1>2. ExchangeTypeOK'
    BY <1>1 DEF IInv, ExchangeTypeOK
  <1>3. CASE Booting
    <2>1. Dies /\ dirty' \in BOOLEAN
      BY <1>3 DEF SaveFails, IInv, ControlTypeOK
    <2> QED
      BY <1>2, <2>1, DiesInv
  <1>4. CASE ~Booting
    <2>1. /\ mem' = st /\ st' = st /\ Leave("idle")
          /\ unaware' = unaware \ {"mem"}
          /\ disk' = disk /\ kill' = kill /\ dirty' = dirty
      BY <1>4 DEF SaveFails
    <2>2. /\ pc' = "idle" /\ pc' \in Pcs /\ steps' \in 0 .. MaxSteps
          /\ progressed' \in BOOLEAN /\ deposit' \in BOOLEAN
          /\ PlanOK' /\ PaceOK'
      BY <2>1, LeaveControl
    <2>3. ControlTypeOK'
      BY <2>1, <2>2 DEF IInv, ControlTypeOK
    <2>4. Good(st') /\ Good(mem') /\ Good(disk')
      BY <2>1 DEF IInv
    <2>5. HaltOK'
      BY <1>4, <2>1, <2>2 DEF IInv, HaltOK, HaltedRow
    <2> QED
      BY <1>2, <2>2, <2>3, <2>4, <2>5 DEF IInv
  <1> QED
    BY <1>3, <1>4

LEMMA StopInv ==
    ASSUME IInv, Stop
    PROVE  IInv'
  <1>1. /\ disk' = mem /\ st' = NoState /\ mem' = NoState /\ Leave("down")
        /\ unaware' = {} /\ dirty' = dirty /\ kill' = kill
        /\ UNCHANGED <<orders, usdt, free, base, flows, moved>>
    BY DEF Stop, exchangeVars
  <1>2. /\ pc' = "down" /\ pc' \in Pcs /\ steps' \in 0 .. MaxSteps
        /\ progressed' \in BOOLEAN /\ deposit' \in BOOLEAN
        /\ PlanOK' /\ PaceOK'
    BY <1>1, LeaveControl
  <1>3. ExchangeTypeOK'
    BY <1>1 DEF IInv, ExchangeTypeOK
  <1>4. ControlTypeOK'
    BY <1>1, <1>2 DEF IInv, ControlTypeOK
  <1>5. Good(st') /\ Good(mem') /\ Good(disk')
    BY <1>1, NoStateGood DEF IInv
  <1>6. HaltOK'
    BY <1>1, <1>2 DEF HaltOK, Booting
  <1> QED
    BY <1>2, <1>3, <1>4, <1>5, <1>6 DEF IInv

LEMMA CrashInv ==
    ASSUME IInv, Crash
    PROVE  IInv'
  <1>1. Dies /\ dirty' \in BOOLEAN
    BY DEF Crash, IInv, ControlTypeOK
  <1>2. ExchangeTypeOK'
    BY DEF Crash, IInv, ExchangeTypeOK, exchangeVars
  <1> QED
    BY <1>1, <1>2, DiesInv

\* A call that raises leaves the venue in a state of the right type, whether or
\* not it reached it.
LEMMA FailureStepInv ==
    ASSUME IInv, FailureStep
    PROVE  IInv'
  <1>1. ExchangeTypeOK /\ PlanOK /\ pc \in Pcs /\ Good(st)
    BY DEF IInv, ControlTypeOK
  <1>2. ASSUME CallRaises(FreshIds), Raises(FALSE) PROVE IInv'
    <2>1. ExchangeTypeOK'
      BY <1>1, <1>2 DEF CallRaises, exchangeVars, ExchangeTypeOK
    <2> QED
      BY <1>2, <2>1, RaisesInv
  <1>3. ASSUME CancelThenRaises, Raises(FALSE) PROVE IInv'
    <2>1. st.open_limit # NoLimit
      BY <1>1, <1>3, CallSites DEF CancelThenRaises
    <2>2. ExchangeTypeOK'
      BY <1>1, <1>3, <2>1, CancelOrderType DEF CancelThenRaises, Good
    <2> QED
      BY <1>3, <2>2, RaisesInv
  <1>4. ASSUME OrderLost(FreshIds), Raises(TRUE) PROVE IInv'
    <2>1. ASSUME NEW cost \in MarketCosts(AmountToBuy), market_buy_quote(cost)
          PROVE  ExchangeTypeOK'
      BY <1>1, <2>1, MarketBuyType
    <2>2. ASSUME Call = "PlaceLimitBuy", NEW i \in FreshIds, NEW fee \in LimitFees,
                 place_limit_buy(i, next_usdt(st), fee)
          PROVE  ExchangeTypeOK'
      <3>1. ChaseDue(st)
        BY <1>1, <2>2, CallSites
      <3>2. i \in OrderIds /\ fee \in Nat
        BY ExchangeAssumption DEF FreshIds
      <3>3. next_usdt(st) \in Nat
        BY <1>1, <3>1, PlacedSound DEF Good
      <3> QED
        BY <1>1, <2>2, <3>2, <3>3, PlaceLimitType
    <2>3. ASSUME market_sell_all PROVE ExchangeTypeOK'
      BY <1>1, <2>3, SellType
    <2>4. ExchangeTypeOK'
      BY <1>4, <2>1, <2>2, <2>3 DEF OrderLost
    <2> QED
      BY <1>4, <2>4, RaisesInv
  <1> QED
    BY <1>2, <1>3, <1>4 DEF FailureStep

-----------------------------------------------------------------------------
(* Boot                                                                    *)

\* What the steps of a boot have in common: only st, pc and dirty change.
LEMMA BootInv ==
    ASSUME IInv, Good(st'), pc \in {"down", "boot_balance"},
           pc' \in {"boot_balance", "topup", "save"},
           UNCHANGED <<orders, usdt, free, base, flows, moved, todo, steps, progressed,
                       deposit, unaware, mem, disk, kill>>,
           dirty' \in BOOLEAN,
           HaltedRow => st'.status = "HALTED" /\ st'.open_limit = NoLimit
    PROVE  IInv'
  <1>1. ExchangeTypeOK' /\ PaceOK'
    BY DEF IInv, ExchangeTypeOK, PaceOK
  <1>2. ControlTypeOK'
    BY DEF IInv, ControlTypeOK, Pcs
  <1>3. Good(st') /\ Good(mem') /\ Good(disk')
    BY DEF IInv
  <1>4. PlanOK'
    <2>1. todo = <<>>
      BY DEF IInv, PlanOK
    <2> QED
      BY <2>1, NoPlan
  <1>5. HaltOK'
    BY DEF IInv, HaltOK, HaltedRow, Booting
  <1> QED
    BY <1>1, <1>2, <1>3, <1>4, <1>5 DEF IInv

LEMMA BootStepInv ==
    ASSUME IInv, BootStep
    PROVE  IInv'
  <1>1. dirty \in BOOLEAN /\ ExchangeTypeOK /\ Good(st) /\ Good(disk)
    BY DEF IInv, ControlTypeOK
  <1>2. ASSUME BootFresh PROVE IInv'
    <2>1. /\ pc = "down" /\ pc' = "save" /\ dirty' = dirty
          /\ st' \in {Halted(start_cycle(free, 1)), start_cycle(free, 1)}
          /\ UNCHANGED <<orders, usdt, free, base, flows, moved, todo, steps, progressed,
                         deposit, unaware, mem, disk, kill>>
          /\ disk = NoState
      BY <1>2 DEF BootFresh, Goto, exchangeVars
    <2>2. Good(start_cycle(free, 1))
      BY <1>1, StartCycleGood DEF ExchangeTypeOK
    <2>3. Good(st')
      BY <2>1, <2>2, HaltedGood
    <2>4. ~HaltedRow
      BY <2>1 DEF HaltedRow, NoState, start_cycle
    <2> QED
      BY <1>1, <2>1, <2>3, <2>4, BootInv
  <1>3. ASSUME BootFetchOrder PROVE IInv'
    <2>1. /\ pc = "down" /\ pc' = "boot_balance" /\ st' = refresh_open_limit(disk)
          /\ UNCHANGED <<orders, usdt, free, base, flows, moved, todo, steps, progressed,
                         deposit, unaware, mem, disk, kill>>
          /\ dirty' = (dirty \/ RestForgotten(disk))
      BY <1>3 DEF BootFetchOrder, Goto, exchangeVars
    <2>2. dirty' \in BOOLEAN
      BY <1>1, <2>1 DEF RestForgotten
    <2>3. Good(st') /\ (disk.open_limit = NoLimit => st' = disk)
      BY <1>1, <2>1, RefreshGood
    <2> QED
      BY <2>1, <2>2, <2>3, BootInv DEF HaltedRow
  <1>4. ASSUME BootFetchFails PROVE IInv'
    <2>1. /\ pc = "down" /\ pc' = "save" /\ st' = Halted(disk) /\ dirty' = dirty
          /\ UNCHANGED <<orders, usdt, free, base, flows, moved, todo, steps, progressed,
                         deposit, unaware, mem, disk, kill>>
          /\ disk.open_limit # NoLimit
      BY <1>4 DEF BootFetchFails, Goto, exchangeVars
    <2>2. Good(st')
      BY <1>1, <2>1, HaltedGood
    <2> QED
      BY <1>1, <2>1, <2>2, BootInv DEF HaltedRow
  <1>5. ASSUME BootCheckBalance PROVE IInv'
    <2>1. /\ pc = "boot_balance" /\ pc' \in {"topup", "save"}
          /\ st' \in {st, Halted(st)} /\ dirty' = dirty
          /\ UNCHANGED <<orders, usdt, free, base, flows, moved, todo, steps, progressed,
                         deposit, unaware, mem, disk, kill>>
      BY <1>5 DEF BootCheckBalance, Goto, exchangeVars, historyVars
    <2>2. Good(st')
      BY <1>1, <2>1, HaltedGood
    <2>3. HaltedRow => st.status = "HALTED" /\ st.open_limit = NoLimit
      BY <2>1 DEF IInv, HaltOK
    <2>4. HaltedRow => st'.status = "HALTED" /\ st'.open_limit = NoLimit
      BY <1>1, <2>1, <2>3, HaltedGood
    <2> QED
      BY <1>1, <2>1, <2>2, <2>4, BootInv
  <1> QED
    BY <1>2, <1>3, <1>4, <1>5 DEF BootStep

-----------------------------------------------------------------------------
(* The poll                                                                *)

\* What the steps of a poll have in common: they leave the stored copies alone.
LEMMA PollInv ==
    ASSUME IInv, UNCHANGED <<mem, disk, kill>>,
           ExchangeTypeOK', ControlTypeOK', Good(st'), PlanOK', PaceOK', HaltOK'
    PROVE  IInv'
  BY DEF IInv

\* The early returns of check_and_apply_topup, and its confirmation.
LEMMA TopupInv ==
    ASSUME IInv, UNCHANGED <<mem, disk, kill>>,
           pc = "topup", UNCHANGED exchangeVars, UNCHANGED <<todo, steps, progressed>>,
           UNCHANGED <<unaware, dirty>>, deposit' \in BOOLEAN,
           \/ st' = st \/ \E d \in Int : st' = [st EXCEPT !.pending_topup_delta = d],
           \/ st.status = "HALTED" /\ st' = st /\ pc' = AfterTopup(Booting)
           \/ st.status # "HALTED" /\ pc' = AfterTopup(Booting)
           \/ /\ st.status # "HALTED"
              /\ pc' = IF st.open_limit = NoLimit THEN "resplit" ELSE "topup_cancel"
    PROVE  IInv'
  <1>1. todo' = <<>> /\ steps' = 0
    BY DEF IInv, PlanOK, PaceOK
  <1>2. Good(st') /\ st'.open_limit = st.open_limit
    BY PendingGood DEF IInv
  <1>3. pc' \in {"decide", "save", "resplit", "topup_cancel"}
    BY DEF AfterTopup
  <1>4. ExchangeTypeOK'
    BY DEF IInv, ExchangeTypeOK, exchangeVars
  <1>5. ControlTypeOK'
    BY <1>3 DEF IInv, ControlTypeOK, Pcs
  <1>6. PlanOK'
    <2>1. /\ pc' = "topup_cancel" => st.open_limit # NoLimit
          /\ pc' = "resplit" => st.open_limit = NoLimit
      BY DEF AfterTopup
    <2> QED
      BY <1>1, <1>2, <1>3, <2>1, NoPlan
  <1>7. PaceOK'
    BY <1>1, <1>3, ExecutorAssumption DEF PaceOK
  <1>8. HaltOK'
    <2>1. CASE st.status # "HALTED"
      BY <1>3, <2>1, HaltStays DEF IInv
    <2>2. CASE st.status = "HALTED"
      <3>1. st' = st /\ pc' = AfterTopup(Booting)
        BY <2>2
      <3>2. Booting => pc' = "save"
        BY <3>1 DEF AfterTopup
      <3> QED
        BY <1>3, <3>1, <3>2 DEF IInv, HaltOK, HaltedRow, Booting
    <2> QED
      BY <2>1, <2>2
  <1> QED
    BY <1>2, <1>4, <1>5, <1>6, <1>7, <1>8, PollInv

LEMMA TopupStepsInv ==
    ASSUME IInv, UNCHANGED <<mem, disk, kill>>,
           \/ TopupDisabled(Booting) \/ TopupNothing(Booting)
           \/ TopupCandidate(Booting) \/ TopupYieldsToTakeProfit(Booting)
           \/ TopupConfirmed
    PROVE  IInv'
  <1>1. Delta \in Int /\ 0 \in Int /\ deposit \in BOOLEAN
    <2>1. usdt \in Int /\ st \in State /\ deposit \in BOOLEAN
      BY DEF IInv, ExchangeTypeOK, ControlTypeOK, Good, Sound
    <2>2. st.cycle_cash_remaining \in Int
      BY <2>1 DEF State
    <2> QED
      BY <2>1, <2>2 DEF Delta
  <1> HIDE DEF Delta
  <1>2. ASSUME TopupDisabled(Booting) PROVE IInv'
    BY <1>1, <1>2, TopupInv DEF TopupDisabled, Goto
  <1>3. ASSUME TopupNothing(Booting) PROVE IInv'
    BY <1>1, <1>3, TopupInv DEF TopupNothing, Goto
  <1>4. ASSUME TopupCandidate(Booting) PROVE IInv'
    BY <1>1, <1>4, TopupInv DEF TopupCandidate, Goto
  <1>5. ASSUME TopupYieldsToTakeProfit(Booting) PROVE IInv'
    BY <1>1, <1>5, TopupInv DEF TopupYieldsToTakeProfit, Goto
  <1>6. ASSUME TopupConfirmed PROVE IInv'
    BY <1>1, <1>6, TopupInv DEF TopupConfirmed
  <1> QED
    BY <1>2, <1>3, <1>4, <1>5, <1>6

\* A re-split never meets a limit order: topup_cancel came before it.
LEMMA ResplitInv ==
    ASSUME IInv, UNCHANGED <<mem, disk, kill>>, Resplit(Booting)
    PROVE  IInv'
  <1> DEFINE split == apply_topup(st, usdt)
             buys == [split EXCEPT !.step_target_usdt = next_usdt(split)]
  <1>1. /\ pc = "resplit" /\ deposit' = FALSE
        /\ UNCHANGED <<orders, usdt, free, base, flows, moved, todo, steps, progressed,
                       unaware, dirty>>
        /\ st' \in {split} \cup (IF can_buy(split) THEN {buys} ELSE {})
        /\ pc' \in {"deposit_buy", "decide", "save"}
    BY DEF Resplit, AfterTopup, exchangeVars
  <1>2. Sound(st) /\ st.open_limit = NoLimit /\ usdt \in Int
    BY <1>1 DEF IInv, PlanOK, Good, ExchangeTypeOK
  <1>3. /\ Sound(split) /\ split.open_limit = NoLimit
        /\ can_buy(split) => Sound(buys) /\ buys.open_limit = NoLimit
    BY <1>2, TopupSound
  <1> HIDE DEF split, buys
  <1>4. Good(st') /\ st'.open_limit = NoLimit
    BY <1>1, <1>3 DEF Good
  <1>5. ExchangeTypeOK' /\ ControlTypeOK'
    BY <1>1 DEF IInv, ExchangeTypeOK, ControlTypeOK, Pcs
  <1>6. todo' = <<>> /\ steps' = 0
    BY <1>1 DEF IInv, PlanOK, PaceOK
  <1>7. PlanOK'
    BY <1>1, <1>4, <1>6, NoPlan
  <1>8. PaceOK'
    BY <1>1, <1>6, ExecutorAssumption DEF PaceOK
  <1>9. HaltOK'
    BY <1>1, HaltStays DEF IInv
  <1> QED
    BY <1>4, <1>5, <1>7, <1>8, <1>9, PollInv

LEMMA DecideInv ==
    ASSUME IInv, UNCHANGED <<mem, disk, kill>>, Decide
    PROVE  IInv'
  <1>1. PICK tp \in PriceReads :
          /\ todo' = decide(st, tp)
          /\ pc' = IF decide(st, tp) = <<>> THEN "save" ELSE "act"
    BY DEF Decide
  <1>2. /\ pc = "decide" /\ steps' = steps + 1 /\ progressed' = FALSE
        /\ UNCHANGED <<orders, usdt, free, base, flows, moved, st, deposit, unaware, dirty>>
    BY DEF Decide, exchangeVars
  <1>3. ExchangeTypeOK' /\ Good(st')
    BY <1>2 DEF IInv, ExchangeTypeOK
  <1>4. steps' \in 0 .. MaxSteps
    BY <1>2, ExecutorAssumption DEF IInv, ControlTypeOK, PaceOK
  <1>5. pc' \in {"save", "act"}
    BY <1>1
  <1>6. ControlTypeOK'
    BY <1>2, <1>4, <1>5 DEF IInv, ControlTypeOK, Pcs
  <1>7. PaceOK'
    BY <1>5 DEF PaceOK
  <1>8. PlanOK'
    <2>1. ~st.ref => st.open_limit = NoLimit
      BY DEF IInv, Good, Sound, StateOK, LimitOK
    <2> QED
      BY <2>1, DecidesPlan
  <1>9. HaltOK'
    BY <1>2, <1>5, HaltStays DEF IInv
  <1> QED
    BY <1>3, <1>6, <1>7, <1>8, <1>9, PollInv

\* The calls that return, given what they did to the venue and to the state.
LEMMA CallInv ==
    ASSUME IInv, UNCHANGED <<mem, disk, kill>>, ExchangeTypeOK', Good(st'),
           NEW did \in BOOLEAN, NEW booting, Return(did, booting),
           pc \in {"act", "topup_cancel", "deposit_buy", "newcycle"},
           dirty' \in BOOLEAN, unaware' \subseteq Copies,
           pc \in {"act", "topup_cancel"} =>
             Tail(todo) = <<>> \/ st'.open_limit = NoLimit,
           pc = "act" => Tail(todo) \in {<<>>, <<"MarketBuy">>, <<"SellAll">>},
           pc = "topup_cancel" => st'.open_limit = NoLimit
    PROVE  IInv'
  <1>1. ControlTypeOK /\ PlanOK /\ PaceOK /\ HaltOK
    BY DEF IInv
  <1>2. /\ pc' \in Pcs /\ progressed' \in BOOLEAN
        /\ steps' = steps /\ deposit' = deposit
        /\ \/ pc = "topup_cancel" /\ pc' = "resplit" /\ todo' = todo /\ todo = <<>>
           \/ pc = "act" /\ pc' = "act" /\ todo' = Tail(todo) /\ todo' # <<>>
           \/ /\ pc' \in {"decide", "save"} /\ todo' = <<>>
              /\ pc' = "decide" => steps' < MaxSteps
              /\ pc = "act" => Tail(todo) = <<>>
    BY <1>1, ReturnTo
  <1>3. ControlTypeOK'
    BY <1>1, <1>2 DEF ControlTypeOK
  <1>4. PaceOK'
    BY <1>1, <1>2 DEF PaceOK
  <1>5. PlanOK'
    BY <1>1, ReturnPlan
  <1>6. HaltOK'
    BY <1>1, <1>2, HaltStays
  <1> QED
    BY <1>3, <1>4, <1>5, <1>6, PollInv

LEMMA CancelLimitInv ==
    ASSUME IInv, UNCHANGED <<mem, disk, kill>>, NEW swallowed \in BOOLEAN,
           CancelLimit(Booting, swallowed)
    PROVE  IInv'
  <1>1. ExchangeTypeOK /\ PlanOK /\ pc \in Pcs /\ Good(st)
    BY DEF IInv, ControlTypeOK
  <1>2. /\ st.open_limit # NoLimit
        /\ \/ pc = "topup_cancel"
           \/ pc = "act" /\ Tail(todo) \in {<<"MarketBuy">>, <<"SellAll">>}
    BY <1>1, CallSites DEF CancelLimit
  <1>3. ExchangeTypeOK'
    <2>1. CASE swallowed
      BY <1>1, <2>1
      DEF CancelLimit, cancel_order_swallowed, exchangeVars, ExchangeTypeOK
    <2>2. CASE ~swallowed
      BY <1>1, <1>2, <2>2, CancelOrderType DEF CancelLimit, Good
    <2> QED
      BY <2>1, <2>2
  <1>4. Good(st') /\ st'.open_limit = NoLimit
    <2>1. orders[st.open_limit.id].filled \in Nat
      BY <1>1, <1>2 DEF Good, ExchangeTypeOK, OrderResult
    <2> QED
      BY <1>1, <2>1, FoldGood DEF CancelLimit
  <1>5. dirty' \in BOOLEAN /\ unaware' \subseteq Copies /\ Return(TRUE, Booting)
    BY DEF CancelLimit, IInv, ControlTypeOK
  <1> QED
    BY <1>2, <1>3, <1>4, <1>5, CallInv

\* A market buy is sent with no limit order remembered and at least a minimum
\* order left of the step.
LEMMA MarketBuyInv ==
    ASSUME IInv, UNCHANGED <<mem, disk, kill>>, MarketBuy(Booting)
    PROVE  IInv'
  <1>1. ExchangeTypeOK /\ PlanOK /\ pc \in Pcs /\ Good(st)
    BY DEF IInv, ControlTypeOK
  <1>2. /\ st.open_limit = NoLimit
        /\ pc = "deposit_buy" \/ (pc = "act" /\ Tail(todo) = <<>>)
    BY <1>1, CallSites DEF MarketBuy
  <1>3. PICK cost \in MarketCosts(AmountToBuy) :
          market_buy_quote(cost) /\ st' = apply_buy_fill(st, cost)
    BY DEF MarketBuy
  <1>4. ExchangeTypeOK' /\ cost \in Nat \ {0}
    BY <1>1, <1>3, MarketBuyType
  <1>5. /\ st \in State
        /\ StepOK(st) /\ FundedOK(st) /\ TimerOK(st) /\ ExhaustedOK(st)
    BY <1>1 DEF Good, Sound, StateOK
  <1>6. st.step_target_usdt > 0
    <2>1. Remaining(st) >= MinNotional
      BY DEF MarketBuy, AmountToBuy
    <2>2. st.step_target_usdt \in Nat /\ st.step_filled_usdt \in Nat
      BY <1>5 DEF State
    <2> QED
      BY <2>1, <2>2, ParamsAssumption DEF Remaining
  <1>7. /\ st' \in State
        /\ StepOK(st') /\ FundedOK(st') /\ TimerOK(st') /\ ExhaustedOK(st')
        /\ st'.open_limit = NoLimit \/ st'.open_limit = st.open_limit
    BY <1>3, <1>4, <1>5, <1>6, BuyFillSound
  <1>8. st'.open_limit = NoLimit
    BY <1>2, <1>7
  <1>9. Good(st')
    BY <1>7, <1>8 DEF Good, Sound, StateOK, LimitOK
  <1>10. dirty' \in BOOLEAN /\ unaware' \subseteq Copies /\ Return(TRUE, Booting)
    BY DEF MarketBuy, SendsOrder, IInv, ControlTypeOK
  <1> QED
    BY <1>2, <1>4, <1>8, <1>9, <1>10, CallInv

LEMMA NothingToBuyInv ==
    ASSUME IInv, UNCHANGED <<mem, disk, kill>>, NothingToBuy(Booting)
    PROVE  IInv'
  <1>1. PlanOK /\ pc \in Pcs
    BY DEF IInv, ControlTypeOK
  <1>2. /\ st.open_limit = NoLimit
        /\ pc = "deposit_buy" \/ (pc = "act" /\ Tail(todo) = <<>>)
    BY <1>1, CallSites DEF NothingToBuy
  <1>3. ExchangeTypeOK' /\ st' = st
    BY DEF NothingToBuy, exchangeVars, IInv, ExchangeTypeOK
  <1>4. Good(st')
    BY <1>3 DEF IInv
  <1>5. dirty' \in BOOLEAN /\ unaware' \subseteq Copies /\ Return(FALSE, Booting)
    BY DEF NothingToBuy, IInv, ControlTypeOK
  <1> QED
    BY <1>2, <1>3, <1>4, <1>5, CallInv

LEMMA PlaceLimitBuyInv ==
    ASSUME IInv, UNCHANGED <<mem, disk, kill>>, NEW i \in FreshIds, PlaceLimitBuy(i)
    PROVE  IInv'
  <1>1. ExchangeTypeOK /\ PlanOK /\ pc \in Pcs /\ Good(st)
    BY DEF IInv, ControlTypeOK
  <1>2. pc = "act" /\ Tail(todo) = <<>> /\ ChaseDue(st)
    BY <1>1, CallSites DEF PlaceLimitBuy
  <1>3. i \in OrderIds /\ i \in Nat
    BY ExchangeAssumption DEF FreshIds
  <1> DEFINE ol == [id |-> i, usdt |-> next_usdt(st), filled_quote_seen |-> 0]
  <1>4. next_usdt(st) \in Nat /\ Sound(on_limit_placed(st, ol))
    BY <1>1, <1>2, <1>3, PlacedSound DEF Good
  <1>5. st' = on_limit_placed(st, ol)
    BY DEF PlaceLimitBuy
  <1>6. st'.open_limit = ol
    BY <1>1, <1>5 DEF on_limit_placed, Good, Sound, State
  <1>7. ol.id = i
    OBVIOUS
  <1> HIDE DEF ol
  <1>8. Good(st')
    BY <1>3, <1>4, <1>5, <1>6, <1>7 DEF Good
  <1>9. ExchangeTypeOK'
    <2>1. PICK fee \in LimitFees : place_limit_buy(i, next_usdt(st), fee)
      BY DEF PlaceLimitBuy
    <2>2. fee \in Nat
      BY ExchangeAssumption
    <2> QED
      BY <1>1, <1>3, <1>4, <2>1, <2>2, PlaceLimitType
  <1>10. dirty' \in BOOLEAN /\ unaware' \subseteq Copies /\ Return(TRUE, FALSE)
    BY DEF PlaceLimitBuy, SendsOrder, IInv, ControlTypeOK
  <1> QED
    BY <1>2, <1>8, <1>9, <1>10, CallInv

LEMMA SellAllInv ==
    ASSUME IInv, UNCHANGED <<mem, disk, kill>>, SellAll
    PROVE  IInv'
  <1>1. ExchangeTypeOK /\ PlanOK /\ pc \in Pcs
    BY DEF IInv, ControlTypeOK
  <1>2. pc = "act" /\ Tail(todo) = <<>> /\ st.open_limit = NoLimit
    BY <1>1, CallSites DEF SellAll
  <1>3. /\ todo' = <<>> /\ pc' = "newcycle" /\ unaware' = Copies
        /\ UNCHANGED <<st, steps, progressed, deposit, dirty>>
    BY <1>2 DEF SellAll
  <1>4. ExchangeTypeOK'
    BY <1>1, SellType DEF SellAll
  <1>5. ControlTypeOK'
    BY <1>3 DEF IInv, ControlTypeOK, Pcs
  <1>6. Good(st')
    BY <1>3 DEF IInv
  <1>7. PlanOK'
    BY <1>2, <1>3, NoPlan
  <1>8. PaceOK'
    BY <1>3 DEF PaceOK
  <1>9. HaltOK'
    BY <1>2, <1>3, HaltStays DEF IInv
  <1> QED
    BY <1>4, <1>5, <1>6, <1>7, <1>8, <1>9, PollInv

LEMMA StartNewCycleInv ==
    ASSUME IInv, UNCHANGED <<mem, disk, kill>>, StartNewCycle
    PROVE  IInv'
  <1>1. pc = "newcycle" /\ Return(TRUE, FALSE) /\ st' = start_cycle(free, st.cycle_id + 1)
    BY DEF StartNewCycle
  <1>2. ExchangeTypeOK'
    BY DEF StartNewCycle, exchangeVars, IInv, ExchangeTypeOK
  <1>3. free \in Nat /\ st.cycle_id + 1 \in Nat
    BY DEF IInv, ExchangeTypeOK, Good, Sound, State
  <1>4. Good(st')
    BY <1>1, <1>3, StartCycleGood
  <1>5. dirty' \in BOOLEAN /\ unaware' \subseteq Copies
    BY DEF StartNewCycle, SendsOrder, IInv, ControlTypeOK
  <1> QED
    BY <1>1, <1>2, <1>4, <1>5, CallInv

-----------------------------------------------------------------------------
(* The theorems                                                            *)

LEMMA NextInv == IInv /\ [Next]_vars => IInv'
  <1> SUFFICES ASSUME IInv, [Next]_vars PROVE IInv'
    OBVIOUS
  <1>1. CASE BeginPoll
    BY <1>1, BeginPollInv
  <1>2. CASE PollStep
    <2>1. UNCHANGED <<mem, disk, kill>>
      BY <1>2 DEF PollStep
    <2>2. ASSUME NEW swallowed \in BOOLEAN, CancelLimit(Booting, swallowed) PROVE IInv'
      BY <2>1, <2>2, CancelLimitInv
    <2>3. ASSUME NEW i \in FreshIds, PlaceLimitBuy(i) PROVE IInv'
      BY <2>1, <2>3, PlaceLimitBuyInv
    <2>4. CASE \/ TopupDisabled(Booting) \/ TopupNothing(Booting)
               \/ TopupCandidate(Booting) \/ TopupYieldsToTakeProfit(Booting)
               \/ TopupConfirmed
      BY <2>1, <2>4, TopupStepsInv
    <2> QED
      BY <1>2, <2>1, <2>2, <2>3, <2>4, ResplitInv, DecideInv, MarketBuyInv,
         NothingToBuyInv, SellAllInv, StartNewCycleInv
      DEF PollStep
  <1>3. CASE FailureStep
    BY <1>3, FailureStepInv
  <1>4. CASE Save
    BY <1>4, SaveInv
  <1>5. CASE SaveFails
    BY <1>5, SaveFailsInv
  <1>6. CASE Stop
    BY <1>6, StopInv
  <1>7. CASE Crash
    BY <1>7, CrashInv
  <1>8. CASE BootStep
    BY <1>8, BootStepInv
  <1>9. CASE VenueStep
    BY <1>9, VenueStepInv
  <1>10. CASE TimePasses
    BY <1>10, TimePassesInv
  <1>11. CASE ToggleKill
    BY <1>11, ToggleKillInv
  <1>12. CASE UNCHANGED vars
    BY <1>12
    DEF vars, exchangeVars, pollVars, historyVars, IInv, ExchangeTypeOK, ControlTypeOK, PlanOK,
        PaceOK, HaltOK, HaltedRow, Booting
  <1> QED
    BY <1>1, <1>2, <1>3, <1>4, <1>5, <1>6, <1>7, <1>8, <1>9, <1>10, <1>11, <1>12
    DEF Next

\* The inductive invariant holds in every reachable state.
THEOREM Invariance == Spec => []IInv
  BY InitInv, NextInv, PTL DEF Spec

HistoryTypeOK == absorbed \in [{"st"} \cup Copies -> Int]

\* What a step does to the history of the transfers.
LEMMA HistoryStep ==
    ASSUME [Next]_vars
    PROVE  \/ UNCHANGED absorbed
           \/ TakeCash
           \/ \E from \in {"st"} \cup Copies, to \in SUBSET ({"st"} \cup Copies) :
                 Carry(from, to)
  <1>1. CASE BeginPoll \/ VenueStep \/ TimePasses \/ ToggleKill
    BY <1>1 DEF BeginPoll, VenueStep, TimePasses, ToggleKill, historyVars
  <1>2. CASE PollStep
    BY <1>2 DEF PollStep
  <1>3. CASE FailureStep \/ Crash \/ SaveFails
    BY <1>3 DEF FailureStep, Raises, PollRaises, Crash, SaveFails, Dies, Copies
  <1>4. CASE Save \/ Stop
    BY <1>4 DEF Save, Stop, Copies
  <1>5. CASE BootStep
    BY <1>5
    DEF BootStep, BootFresh, BootFetchOrder, BootFetchFails, BootCheckBalance,
        historyVars, Copies
  <1>6. CASE UNCHANGED vars
    BY <1>6 DEF vars, historyVars
  <1> QED
    BY <1>1, <1>2, <1>3, <1>4, <1>5, <1>6 DEF Next

LEMMA HistoryKept ==
    ASSUME IInv, HistoryTypeOK, [Next]_vars
    PROVE  HistoryTypeOK'
  <1>1. moved \in Int
    BY DEF IInv, ExchangeTypeOK
  <1>2. CASE TakeCash
    BY <1>1, <1>2 DEF TakeCash, HistoryTypeOK
  <1>3. ASSUME NEW from \in {"st"} \cup Copies, NEW to, Carry(from, to)
        PROVE  HistoryTypeOK'
    BY <1>3 DEF Carry, HistoryTypeOK
  <1>4. CASE UNCHANGED absorbed
    BY <1>4 DEF HistoryTypeOK
  <1> QED
    BY <1>2, <1>3, <1>4, HistoryStep

LEMMA HistoryInvariance == Spec => []HistoryTypeOK
  <1>1. Init => HistoryTypeOK
    BY DEF Init, HistoryTypeOK
  <1> QED
    BY <1>1, HistoryKept, Invariance, PTL DEF Spec

\* Whatever fails, every variable keeps its type: among others the free balance
\* and the base balance stay non-negative, no step or fill is negative, and a
\* poll never takes more than MaxSteps decisions.
THEOREM TypeCorrectness == Spec => []TypeOK
  <1>1. IInv /\ HistoryTypeOK => TypeOK
    <2> SUFFICES ASSUME IInv, HistoryTypeOK PROVE TypeOK
      OBVIOUS
    <2>1. todo \in Seq(Actions)
      <3>1. "MarketBuy" \in Actions /\ "SellAll" \in Actions
            /\ "PlaceLimitBuy" \in Actions /\ "CancelLimit" \in Actions
        BY DEF Actions
      <3>2. <<>> \in Seq(Actions)
        OBVIOUS
      <3>3. \A p \in Plans : p \in Seq(Actions)
        <4>1. ASSUME NEW a \in Actions, NEW b \in Actions
              PROVE  <<a>> \in Seq(Actions) /\ <<a, b>> \in Seq(Actions)
          OBVIOUS
        <4> QED
          BY <3>1, <4>1, Zenon DEF Plans
      <3>4. todo = <<>> \/ todo \in Plans
        BY DEF IInv, PlanOK
      <3> QED
        BY <3>2, <3>3, <3>4
    <2>2. st \in State /\ mem \in State /\ disk \in State
      BY DEF IInv, Good, Sound
    <2> QED
      BY <2>1, <2>2 DEF IInv, ControlTypeOK, HistoryTypeOK, TypeOK, ExecutorTypeOK
  <1> QED
    BY <1>1, Invariance, HistoryInvariance, PTL

\* In the working, the remembered and the stored copy alike a step in progress
\* can be completed, whatever calls failed, orders were lost or processes died.
THEOREM SoundSteps == Spec => []StepsAreSound
  <1>1. IInv => StepsAreSound
    BY DEF IInv, Good, Sound, StateOK, StepsAreSound
  <1> QED
    BY <1>1, Invariance, PTL

\* Likewise a remembered limit order is the step in progress, seen as far as the
\* step is filled, and a state that buys no more remembers none.
THEOREM LimitSteps == Spec => []LimitsAreSteps
  <1>1. IInv => LimitsAreSteps
    BY DEF IInv, Good, Sound, StateOK, LimitsAreSteps
  <1> QED
    BY <1>1, Invariance, PTL

\* A halted row without a limit order is replaced only by another one.
THEOREM HaltStands == Spec => HaltIsKept
  <1> DEFINE A == HaltedRow => disk'.status = "HALTED" /\ disk'.open_limit = NoLimit
  <1>1. IInv /\ [Next]_vars => A
    <2> SUFFICES ASSUME IInv, [Next]_vars, HaltedRow
                 PROVE  disk'.status = "HALTED" /\ disk'.open_limit = NoLimit
      OBVIOUS
    <2>1. CASE disk' = disk
      BY <2>1 DEF HaltedRow
    <2>2. CASE Save
      <3>1. disk' = st /\ pc # "down"
        BY <2>2 DEF Save
      <3> QED
        BY <3>1 DEF IInv, HaltOK
    <2>3. CASE Stop
      <3>1. pc = "idle"
        BY <2>3 DEF Stop
      <3> QED
        BY <3>1 DEF IInv, HaltOK
    <2>4. CASE TimePasses
      BY <2>4, AgedGood DEF TimePasses, IInv, HaltedRow
    <2>5. CASE BeginPoll \/ PollStep \/ BootStep \/ VenueStep \/ ToggleKill
      <3>1. disk' = disk
        BY <2>5
        DEF BeginPoll, PollStep, BootStep, BootFresh, BootFetchOrder, BootFetchFails,
            BootCheckBalance, VenueStep, ToggleKill
      <3> QED
        BY <2>1, <3>1
    <2>6. CASE FailureStep \/ SaveFails \/ Crash
      <3>1. disk' = disk
        BY <2>6 DEF FailureStep, Raises, PollRaises, Dies, SaveFails, Crash
      <3> QED
        BY <2>1, <3>1
    <2>7. CASE UNCHANGED vars
      BY <2>1, <2>7 DEF vars
    <2> QED
      BY <2>2, <2>3, <2>4, <2>5, <2>6, <2>7 DEF Next
  <1>2. HaltIsKept <=> [][A]_vars
    BY DEF HaltIsKept, HaltedRow
  <1> QED
    BY <1>1, <1>2, Invariance, PTL DEF Spec
=============================================================================
