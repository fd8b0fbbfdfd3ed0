---------------------------- MODULE DryRunProofs ----------------------------
(***************************************************************************)
(* Proofs about DryRun, for every value of the constants: the virtual      *)
(* account agrees with the state, the orders that the process remembers    *)
(* exist, their numbers are fresh, and nothing the bot does is taken for a *)
(* transfer.                                                               *)
(*                                                                         *)
(* The paper exchange checks no funds: once a trade was forgotten the      *)
(* account may be overdrawn and a State may hold negative money, so the    *)
(* types and IInv of Bot do not carry over.  PaperInv is about what does:  *)
(* that a paper order is filled whole or not at all.                       *)
(***************************************************************************)
EXTENDS DryRun, BotProofs

-----------------------------------------------------------------------------
(* The invariant                                                           *)

PaperState == [status : Status, cycle_id : Nat, tranche_usdt : Int,
               tranches_used : Nat, cycle_cash_remaining : Int, ref : BOOLEAN,
               last_fill_time : Timer, position_qty : Int,
               step_target_usdt : Int, step_filled_usdt : Int,
               open_limit : OpenLimit, pending_topup_delta : Int]

\* A remembered limit is the whole of a step of which nothing has been seen.
PaperLimit(s) ==
    s.open_limit # NoLimit =>
        /\ s.ref
        /\ s.open_limit.id \in OrderIds /\ s.open_limit.usdt >= MinNotional
        /\ s.open_limit.filled_quote_seen = 0
        /\ s.step_target_usdt = s.open_limit.usdt /\ s.step_filled_usdt = 0

Paper(s) == s \in PaperState /\ PaperLimit(s)

\* The order that s remembers, in the book os of the paper exchange, is the one
\* that s placed, filled whole or not at all.
Answered(s, os) ==
    s.open_limit # NoLimit =>
        LET o == os[s.open_limit.id]
        IN  /\ o.filled = IF o.status = "closed" THEN s.open_limit.usdt ELSE 0
            /\ o.status = "open" => o.left = s.open_limit.usdt

InBook(s) == s.open_limit # NoLimit => s.open_limit.id \in book

\* The account, b and u, is that of s but for a fill that s has not folded.
Agrees(s, os, b, u) == /\ b = s.position_qty + Unseen(s, os)
                       /\ u = s.cycle_cash_remaining - Unseen(s, os)

PaperTypeOK ==
    /\ orders \in [OrderIds -> OrderResult]
    /\ usdt \in Int /\ free = usdt /\ base \in Int
    /\ seq \in Nat /\ book \subseteq OrderIds /\ IdsAreFresh
    /\ pc \in Pcs
    /\ Paper(st) /\ Paper(mem) /\ Paper(disk)

\* What a restart of the process would lose: the orders of its own copies.
MemoryOK == \A s \in {st, mem} : InBook(s) /\ Answered(s, orders)

\* What a label says about the state: above all, a poll that knows every trade
\* has nothing to explain.
LabelOK ==
    /\ pc = "down" => Booting
    /\ pc = "idle" => st = mem
    /\ pc = "newcycle" => base = 0
    /\ pc = "boot_balance" => ~dirty
    /\ pc \in {"boot_balance", "topup"} => Unseen(st, orders) = 0
    /\ ~dirty => pc \notin {"topup_cancel", "resplit", "deposit_buy"}

\* Both copies of a process agree with the account, and main's copy as long as
\* the running poll has sent no order.
AccountOK ==
    /\ Up /\ ~dirty /\ pc # "newcycle" => Agrees(st, orders, base, usdt)
    /\ ~dirty /\ ~Booting /\ "mem" \notin unaware => Agrees(mem, orders, base, usdt)

PaperInv == PaperTypeOK /\ PlanOK /\ MemoryOK /\ LabelOK /\ AccountOK

-----------------------------------------------------------------------------
(* States                                                                  *)

LEMMA StartCyclePaper ==
    ASSUME NEW cash \in Int, NEW c \in Nat
    PROVE  /\ Paper(start_cycle(cash, c))
           /\ start_cycle(cash, c).open_limit = NoLimit
           /\ start_cycle(cash, c).position_qty = 0
           /\ start_cycle(cash, c).cycle_cash_remaining = cash
  <1>1. compute_tranche(cash) \in Int
    BY ParamsAssumption DEF compute_tranche
  <1> QED
    BY <1>1 DEF start_cycle, Paper, PaperLimit, PaperState, Status, Timer, OpenLimit,
                NoLimit

LEMMA NoStatePaper == Paper(NoState) /\ NoState.open_limit = NoLimit
  BY StartCyclePaper DEF NoState

\* An id of a remembered order is none of NoLimit.
LEMMA RealId ==
    ASSUME NEW s, Paper(s), s.open_limit # NoLimit
    PROVE  s.open_limit.id \in OrderIds /\ s.open_limit.id # 0
  BY ExchangeAssumption DEF Paper, PaperLimit

LEMMA UnseenIs ==
    ASSUME NEW s, Paper(s), NEW os \in [OrderIds -> OrderResult]
    PROVE  /\ Unseen(s, os) \in Int
           /\ s.open_limit # NoLimit => Unseen(s, os) = os[s.open_limit.id].filled
           /\ s.open_limit = NoLimit => Unseen(s, os) = 0
  <1>1. CASE s.open_limit = NoLimit
    BY <1>1 DEF Unseen
  <1>2. CASE s.open_limit # NoLimit
    <2>1. os[s.open_limit.id].filled \in Nat /\ s.open_limit.filled_quote_seen = 0
      BY <1>2 DEF Paper, PaperLimit, OrderResult
    <2> QED
      BY <1>2, <2>1 DEF Unseen
  <1> QED
    BY <1>1, <1>2

\* A change that touches neither the step nor the money.
LEMMA SameMoneyPaper ==
    ASSUME NEW s, Paper(s), NEW p,
           \/ \E d \in Int : p = [s EXCEPT !.pending_topup_delta = d]
           \/ p = Halted(s)
           \/ p = Aged(s)
    PROVE  /\ Paper(p) /\ p.open_limit = s.open_limit
           /\ p.position_qty = s.position_qty
           /\ p.cycle_cash_remaining = s.cycle_cash_remaining
  <1>1. s \in PaperState
    BY DEF Paper
  <1>2. /\ p \in PaperState
        /\ p.open_limit = s.open_limit /\ p.ref = s.ref
        /\ p.position_qty = s.position_qty
        /\ p.cycle_cash_remaining = s.cycle_cash_remaining
        /\ p.step_target_usdt = s.step_target_usdt
        /\ p.step_filled_usdt = s.step_filled_usdt
    <2>1. CASE \E d \in Int : p = [s EXCEPT !.pending_topup_delta = d]
      BY <1>1, <2>1 DEF PaperState
    <2>2. CASE p = Halted(s)
      BY <1>1, <2>2 DEF PaperState, Halted, Status
    <2>3. CASE p = Aged(s)
      <3> DEFINE t == IF s.last_fill_time = "recent" THEN "elapsed" ELSE s.last_fill_time
      <3>1. t \in Timer /\ p = [s EXCEPT !.last_fill_time = t]
        BY <1>1, <2>3 DEF Aged, PaperState, Timer
      <3> HIDE DEF t
      <3> QED
        BY <1>1, <3>1 DEF PaperState
    <2> QED
      BY <2>1, <2>2, <2>3
  <1> QED
    BY <1>2 DEF Paper, PaperLimit

\* Booking a fill of any size moves as much money from the cash to the position.
LEMMA BuyPaper ==
    ASSUME NEW s \in PaperState, NEW cost \in Int
    PROVE  LET f == apply_buy_fill(s, cost)
           IN  /\ f \in PaperState
               /\ f.open_limit = NoLimit \/ f.open_limit = s.open_limit
               /\ s.step_target_usdt - (s.step_filled_usdt + cost) < MinNotional
                    => f.open_limit = NoLimit
               /\ f.position_qty = s.position_qty + cost
               /\ f.cycle_cash_remaining = s.cycle_cash_remaining - cost
  <1> DEFINE b == BookFill(s, cost)
             c == CompleteStep(b)
             f == apply_buy_fill(s, cost)
  <1>1. /\ s.position_qty + cost \in Int
        /\ s.cycle_cash_remaining - cost \in Int
        /\ s.step_filled_usdt + cost \in Int
    BY DEF PaperState
  <1>2. b \in PaperState
    BY <1>1 DEF BookFill, PaperState
  <1>3. /\ b.open_limit = s.open_limit
        /\ b.position_qty = s.position_qty + cost
        /\ b.cycle_cash_remaining = s.cycle_cash_remaining - cost
        /\ b.step_target_usdt = s.step_target_usdt
        /\ b.step_filled_usdt = s.step_filled_usdt + cost
    BY DEF BookFill, PaperState
  <1>4. f = IF Remaining(b) < MinNotional THEN c ELSE b
    BY DEF apply_buy_fill
  <1> HIDE DEF b
  <1>5. c \in PaperState
    <2>1. ASSUME NEW v \in Status, NEW u \in Nat, NEW t \in Timer, NEW o \in OpenLimit
          PROVE  [b EXCEPT !.ref = TRUE, !.last_fill_time = t, !.tranches_used = u,
                           !.step_target_usdt = 0, !.step_filled_usdt = 0,
                           !.open_limit = o, !.status = v] \in PaperState
      <3>1. 0 \in Int
        OBVIOUS
      <3> QED
        BY <1>2, <3>1 DEF PaperState
    <2>2. b.tranches_used + 1 \in Nat
      BY <1>2 DEF PaperState
    <2>3. NoLimit \in OpenLimit /\ "recent" \in Timer
          /\ "CASH_EXHAUSTED" \in Status /\ "RUNNING" \in Status
      BY DEF NoLimit, OpenLimit, Timer, Status
    <2> QED
      BY <2>1, <2>2, <2>3 DEF CompleteStep
  <1>6. /\ c.open_limit = NoLimit
        /\ c.position_qty = b.position_qty
        /\ c.cycle_cash_remaining = b.cycle_cash_remaining
    BY <1>2 DEF CompleteStep, PaperState
  <1> HIDE DEF c, f
  <1>7. Remaining(b) = s.step_target_usdt - (s.step_filled_usdt + cost)
    BY <1>3 DEF Remaining
  <1> QED
    BY <1>2, <1>3, <1>4, <1>5, <1>6, <1>7 DEF f

LEMMA CanceledPaper ==
    ASSUME NEW s \in PaperState
    PROVE  LET c == on_limit_canceled(s)
           IN  /\ Paper(c) /\ c.open_limit = NoLimit
               /\ c.position_qty = s.position_qty
               /\ c.cycle_cash_remaining = s.cycle_cash_remaining
  <1> DEFINE c == on_limit_canceled(s)
  <1>1. NoLimit \in OpenLimit
    BY DEF NoLimit, OpenLimit
  <1>2. /\ c \in PaperState /\ c.open_limit = NoLimit
        /\ c.position_qty = s.position_qty
        /\ c.cycle_cash_remaining = s.cycle_cash_remaining
    BY <1>1 DEF on_limit_canceled, PaperState
  <1> HIDE DEF c
  <1> QED
    BY <1>2 DEF Paper, PaperLimit, c

\* A paper order that is filled completes the step it stands for; one that is not
\* leaves the state alone.
LEMMA FoldPaper ==
    ASSUME NEW s, Paper(s), s.open_limit # NoLimit,
           NEW filled \in {0, s.open_limit.usdt}
    PROVE  LET f == fold_order_progress(s, s.open_limit.id, filled)
           IN  /\ Paper(f) /\ f \in PaperState
               /\ filled = 0 => f = s
               /\ filled # 0 => f.open_limit = NoLimit
               /\ f.position_qty = s.position_qty + filled
               /\ f.cycle_cash_remaining = s.cycle_cash_remaining - filled
  <1> DEFINE f == fold_order_progress(s, s.open_limit.id, filled)
             b == apply_buy_fill(s, filled)
  <1>1. /\ s \in PaperState /\ s.open_limit.usdt \in Nat
        /\ s.position_qty \in Int /\ s.cycle_cash_remaining \in Int
    BY DEF Paper, PaperState, OpenLimit
  <1>2. /\ s.open_limit.filled_quote_seen = 0
        /\ s.step_target_usdt = s.open_limit.usdt /\ s.step_filled_usdt = 0
    BY DEF Paper, PaperLimit
  <1>3. MinNotional \in Nat \ {0}
    BY ParamsAssumption
  <1>4. CASE filled = 0
    <2>1. f = s
      BY <1>2, <1>4 DEF fold_order_progress
    <2> QED
      BY <1>1, <1>4, <2>1
  <1>5. CASE filled # 0
    <2>1. filled = s.open_limit.usdt /\ filled \in Int /\ filled > 0
      BY <1>1, <1>5
    <2>2. s.step_target_usdt - (s.step_filled_usdt + filled) < MinNotional
      BY <1>2, <1>3, <2>1
    <2>3. /\ b \in PaperState /\ b.open_limit = NoLimit
          /\ b.position_qty = s.position_qty + filled
          /\ b.cycle_cash_remaining = s.cycle_cash_remaining - filled
      BY <1>1, <2>1, <2>2, BuyPaper
    <2>4. f = update_limit_seen(b, filled)
      BY <1>2, <2>1 DEF fold_order_progress
    <2> HIDE DEF b, f
    <2>5. f = b
      BY <2>3, <2>4 DEF update_limit_seen
    <2> QED
      BY <1>5, <2>3, <2>5 DEF Paper, PaperLimit, f
  <1> QED
    BY <1>4, <1>5

\* What the order that s remembers has filled.
LEMMA AnsweredFilled ==
    ASSUME NEW s, Paper(s), s.open_limit # NoLimit, NEW os, Answered(s, os)
    PROVE  os[s.open_limit.id].filled \in {0, s.open_limit.usdt}
  BY DEF Answered

\* refresh_open_limit books the fill and forgets an order that has ended.
LEMMA RefreshedPaper ==
    ASSUME NEW s, Paper(s), s.open_limit # NoLimit,
           NEW os \in [OrderIds -> OrderResult], Answered(s, os)
    PROVE  LET o == os[s.open_limit.id]
               r == Refreshed(s, o)
           IN  /\ Paper(r)
               /\ r.open_limit = NoLimit \/ (r = s /\ o.filled = 0)
               /\ Unseen(r, os) = 0
               /\ r.position_qty = s.position_qty + o.filled
               /\ r.cycle_cash_remaining = s.cycle_cash_remaining - o.filled
  <1> DEFINE o == os[s.open_limit.id]
             f == fold_order_progress(s, s.open_limit.id, o.filled)
             r == Refreshed(s, o)
  <1>1. o \in OrderResult /\ o.filled \in {0, s.open_limit.usdt}
    BY AnsweredFilled DEF Paper, PaperLimit
  <1>2. /\ Paper(f) /\ f \in PaperState
        /\ o.filled = 0 => f = s
        /\ o.filled # 0 => f.open_limit = NoLimit
        /\ f.position_qty = s.position_qty + o.filled
        /\ f.cycle_cash_remaining = s.cycle_cash_remaining - o.filled
    BY <1>1, FoldPaper
  <1>3. r = IF o.status = "canceled" THEN on_limit_canceled(f) ELSE f
    BY DEF Refreshed
  <1> HIDE DEF f, r
  <1>4. /\ Paper(r)
        /\ r.open_limit = NoLimit \/ (r = s /\ o.filled = 0)
        /\ r.position_qty = s.position_qty + o.filled
        /\ r.cycle_cash_remaining = s.cycle_cash_remaining - o.filled
    <2>1. CASE o.status = "canceled"
      BY <1>2, <1>3, <2>1, CanceledPaper
    <2>2. CASE o.status # "canceled"
      BY <1>2, <1>3, <2>2
    <2> QED
      BY <2>1, <2>2
  <1>5. Unseen(r, os) = 0
    BY <1>4, UnseenIs
  <1> QED
    BY <1>4, <1>5 DEF r

\* execute_action books the fill and forgets the order in any case.
LEMMA CanceledFoldPaper ==
    ASSUME NEW s, Paper(s), s.open_limit # NoLimit, NEW os, Answered(s, os)
    PROVE  LET o == os[s.open_limit.id]
               c == on_limit_canceled(fold_order_progress(s, s.open_limit.id, o.filled))
           IN  /\ Paper(c) /\ c.open_limit = NoLimit
               /\ c.position_qty = s.position_qty + o.filled
               /\ c.cycle_cash_remaining = s.cycle_cash_remaining - o.filled
  <1> DEFINE o == os[s.open_limit.id]
             f == fold_order_progress(s, s.open_limit.id, o.filled)
  <1>1. o.filled \in {0, s.open_limit.usdt}
    BY AnsweredFilled
  <1>2. /\ f \in PaperState
        /\ f.position_qty = s.position_qty + o.filled
        /\ f.cycle_cash_remaining = s.cycle_cash_remaining - o.filled
    BY <1>1, FoldPaper
  <1> HIDE DEF f
  <1>3. /\ Paper(on_limit_canceled(f)) /\ on_limit_canceled(f).open_limit = NoLimit
        /\ on_limit_canceled(f).position_qty = f.position_qty
        /\ on_limit_canceled(f).cycle_cash_remaining = f.cycle_cash_remaining
    BY <1>2, CanceledPaper
  <1> QED
    BY <1>2, <1>3 DEF f

\* A chase is remembered as an order of which nothing is filled.
LEMMA PlacedPaper ==
    ASSUME NEW s, Paper(s), ChaseDue(s), NEW i \in OrderIds
    PROVE  LET p == on_limit_placed(s, [id |-> i, usdt |-> next_usdt(s),
                                        filled_quote_seen |-> 0])
           IN  /\ Paper(p) /\ p.open_limit.id = i /\ p.open_limit # NoLimit
               /\ p.open_limit.usdt = next_usdt(s) /\ next_usdt(s) \in Nat
               /\ p.position_qty = s.position_qty
               /\ p.cycle_cash_remaining = s.cycle_cash_remaining
  <1> DEFINE ol == [id |-> i, usdt |-> next_usdt(s), filled_quote_seen |-> 0]
             p == on_limit_placed(s, ol)
  <1>1. s \in PaperState /\ s.ref /\ next_usdt(s) >= MinNotional
    BY DEF Paper, ChaseDue, can_buy
  <1>2. next_usdt(s) \in Nat /\ i \in Nat /\ i # 0
    <2>1. s.tranche_usdt \in Int /\ s.cycle_cash_remaining \in Int
      BY <1>1 DEF PaperState
    <2> QED
      BY <1>1, <2>1, ParamsAssumption, ExchangeAssumption DEF next_usdt, Smaller
  <1>3. ol \in OpenLimit /\ ol # NoLimit
    BY <1>2 DEF OpenLimit, NoLimit
  <1>4. ol.id = i /\ ol.usdt = next_usdt(s) /\ ol.filled_quote_seen = 0
    OBVIOUS
  <1> HIDE DEF ol
  <1>5. ol.usdt \in Int /\ 0 \in Int
    BY <1>2, <1>4
  <1>6. /\ p \in PaperState /\ p.open_limit = ol /\ p.ref
        /\ p.position_qty = s.position_qty
        /\ p.cycle_cash_remaining = s.cycle_cash_remaining
        /\ p.step_target_usdt = ol.usdt /\ p.step_filled_usdt = 0
    BY <1>1, <1>3, <1>5 DEF on_limit_placed, PaperState
  <1> HIDE DEF p
  <1> QED
    BY <1>1, <1>2, <1>3, <1>4, <1>6 DEF Paper, PaperLimit, p, ol

\* A re-split, with or without the step of the immediate buy, has no limit order.
LEMMA SplitPaper ==
    ASSUME NEW s, Paper(s), s.open_limit = NoLimit, NEW cash \in Int
    PROVE  LET split == apply_topup(s, cash)
           IN  /\ Paper(split) /\ split.open_limit = NoLimit
               /\ Paper([split EXCEPT !.step_target_usdt = next_usdt(split)])
               /\ [split EXCEPT !.step_target_usdt = next_usdt(split)].open_limit
                    = NoLimit
  <1> DEFINE split == apply_topup(s, cash)
             bought == [split EXCEPT !.step_target_usdt = next_usdt(split)]
  <1>1. s \in PaperState
    BY DEF Paper
  <1>2. compute_tranche(cash) \in Int
    BY ParamsAssumption DEF compute_tranche
  <1>3. ASSUME NEW v \in Status, NEW tranche \in Int
        PROVE  [s EXCEPT !.status = v, !.tranche_usdt = tranche, !.tranches_used = 0,
                         !.cycle_cash_remaining = cash, !.step_target_usdt = 0,
                         !.step_filled_usdt = 0, !.pending_topup_delta = 0]
                 \in PaperState
    <2>1. 0 \in Int
      OBVIOUS
    <2> QED
      BY <1>1, <2>1 DEF PaperState
  <1>4. "CASH_EXHAUSTED" \in Status /\ "RUNNING" \in Status
    BY DEF Status
  <1>5. split \in PaperState
    BY <1>2, <1>3, <1>4 DEF apply_topup
  <1>6. split.open_limit = NoLimit
    BY <1>1 DEF apply_topup, PaperState
  <1> HIDE DEF split
  <1>7. next_usdt(split) \in Int
    BY <1>5 DEF next_usdt, Smaller, PaperState
  <1>8. bought \in PaperState /\ bought.open_limit = NoLimit
    BY <1>5, <1>6, <1>7 DEF PaperState
  <1> HIDE DEF bought
  <1> QED
    BY <1>5, <1>6, <1>8 DEF Paper, PaperLimit, split, bought

-----------------------------------------------------------------------------
(* The orders of the paper exchange                                        *)

\* Asking for an order, or canceling it, moves the money of the whole order or
\* none, and touches no other order.
LEMMA AskedOrder ==
    ASSUME orders \in [OrderIds -> OrderResult], usdt \in Int, base \in Int,
           NEW i \in OrderIds, IsOpen(i) => orders[i].filled = 0, NEW touched \in BOOLEAN,
           fetch_order(i, touched) \/ paper_cancel_order(i, touched)
    PROVE  LET o == orders[i]
               paid == IF Fills(o, touched) THEN o.left ELSE 0
           IN  /\ orders' \in [OrderIds -> OrderResult]
               /\ \A j \in OrderIds : j # i => orders'[j] = orders[j]
               /\ paid \in Nat
               /\ usdt' = usdt - paid /\ free' = usdt' /\ base' = base + paid
               /\ usdt' \in Int /\ base' \in Int
               /\ orders'[i].filled = o.filled + paid
               /\ orders'[i].filled = Asked(o, touched).filled
               /\ Fills(o, touched) => o.status = "open" /\ orders'[i].status = "closed"
               /\ ~Fills(o, touched) =>
                    /\ orders'[i].filled = o.filled
                    /\ orders'[i].status \in {"open", "closed"} =>
                         orders'[i].status = o.status /\ orders'[i].left = o.left
                    /\ orders'[i].status = "canceled" => o.status # "closed"
               /\ fetch_order(i, touched) => orders'[i] = Asked(o, touched)
  <1> DEFINE o == orders[i]
             a == Asked(o, touched)
             c == [a EXCEPT !.status = IF a.status = "open" THEN "canceled" ELSE a.status]
             paid == IF Fills(o, touched) THEN o.left ELSE 0
  <1>1. /\ o \in OrderResult /\ o.left \in Nat /\ o.filled \in Nat
        /\ o.status \in {"open", "closed", "canceled"}
    BY DEF OrderResult
  <1>2. Fills(o, touched) => o.status = "open" /\ o.filled = 0
    BY DEF Fills, IsOpen
  <1>3. paid \in Nat /\ paid = Paid(o, touched)
    BY <1>1, <1>2 DEF Paid, Amount
  <1>4. /\ a \in OrderResult /\ a.filled = o.filled + paid
        /\ Fills(o, touched) => a.status = "closed"
        /\ ~Fills(o, touched) => a = o
    <2>1. CASE Fills(o, touched)
      BY <1>1, <1>2, <2>1 DEF Asked, Amount, OrderResult
    <2>2. CASE ~Fills(o, touched)
      BY <1>1, <2>2 DEF Asked
    <2> QED
      BY <2>1, <2>2
  <1> HIDE DEF a
  <1>5. /\ c \in OrderResult /\ c.filled = a.filled /\ c.left = a.left
        /\ a.status = "open" => c.status = "canceled"
        /\ a.status # "open" => c.status = a.status
    BY <1>4 DEF OrderResult
  <1> HIDE DEF c
  <1>6. /\ orders' = [orders EXCEPT ![i] = orders'[i]]
        /\ orders'[i] = a \/ orders'[i] = c
        /\ fetch_order(i, touched) => orders'[i] = a
    BY DEF fetch_order, paper_cancel_order, a, c
  <1>7. usdt' = usdt - paid /\ free' = usdt' /\ base' = base + paid
    BY <1>3 DEF fetch_order, paper_cancel_order, Balances
  <1>8. /\ orders'[i] \in OrderResult /\ orders'[i].filled = a.filled
        /\ Fills(o, touched) => orders'[i].status = "closed"
    BY <1>4, <1>5, <1>6
  <1>9. /\ orders' \in [OrderIds -> OrderResult]
        /\ \A j \in OrderIds : j # i => orders'[j] = orders[j]
    BY <1>6, <1>8
  <1>10. ~Fills(o, touched) =>
            /\ orders'[i].filled = o.filled
            /\ orders'[i].status \in {"open", "closed"} =>
                 orders'[i].status = o.status /\ orders'[i].left = o.left
            /\ orders'[i].status = "canceled" => o.status # "closed"
    BY <1>1, <1>4, <1>5, <1>6
  <1> HIDE DEF paid
  <1>11. usdt' \in Int /\ base' \in Int
    BY <1>3, <1>7
  <1> QED
    BY <1>2, <1>3, <1>4, <1>6, <1>7, <1>8, <1>9, <1>10, <1>11 DEF a, paid

\* Whoever remembers the order still gets the right answer, and agrees with the
\* account if he agreed before; so does everybody when nothing filled.
LEMMA AskedAgrees ==
    ASSUME orders \in [OrderIds -> OrderResult], usdt \in Int, base \in Int,
           NEW i \in OrderIds, IsOpen(i) => orders[i].filled = 0, NEW touched \in BOOLEAN,
           fetch_order(i, touched) \/ paper_cancel_order(i, touched),
           NEW s, Paper(s), Answered(s, orders)
    PROVE  /\ Answered(s, orders')
           /\ s.open_limit.id = i \/ ~Fills(orders[i], touched) =>
                (Agrees(s, orders, base, usdt) => Agrees(s, orders', base', usdt'))
  <1> DEFINE o == orders[i]
             q == orders'[i]
             paid == IF Fills(o, touched) THEN o.left ELSE 0
  <1>1. /\ orders' \in [OrderIds -> OrderResult]
        /\ \A j \in OrderIds : j # i => orders'[j] = orders[j]
        /\ paid \in Nat /\ usdt' = usdt - paid /\ base' = base + paid
        /\ q.filled = o.filled + paid
        /\ Fills(o, touched) => o.status = "open" /\ q.status = "closed"
        /\ ~Fills(o, touched) =>
             /\ q.filled = o.filled
             /\ q.status \in {"open", "closed"} => q.status = o.status /\ q.left = o.left
             /\ q.status = "canceled" => o.status # "closed"
    BY AskedOrder
  <1>2. /\ o.filled \in Nat /\ q.filled \in Nat
        /\ q.status \in {"open", "closed", "canceled"}
    BY <1>1 DEF OrderResult
  <1>3. ~Fills(o, touched) => paid = 0
    OBVIOUS
  <1>4. Fills(o, touched) => paid = o.left /\ o.filled = 0
    BY <1>1 DEF IsOpen
  <1>5. s.position_qty \in Int /\ s.cycle_cash_remaining \in Int
    BY DEF Paper, PaperState
  <1>6. Unseen(s, orders) \in Int /\ Unseen(s, orders') \in Int
    BY <1>1, UnseenIs
  <1> HIDE DEF paid, q
  <1>7. CASE s.open_limit = NoLimit
    <2>1. s.open_limit.id # i
      BY <1>7, ExchangeAssumption DEF NoLimit
    <2>2. Unseen(s, orders) = Unseen(s, orders')
      BY <1>7 DEF Unseen
    <2> QED
      BY <1>1, <1>3, <1>5, <1>7, <2>1, <2>2 DEF Answered, Agrees
  <1>8. CASE s.open_limit # NoLimit /\ s.open_limit.id # i
    <2>1. orders'[s.open_limit.id] = orders[s.open_limit.id]
      BY <1>1, <1>8, RealId
    <2>2. Unseen(s, orders) = Unseen(s, orders')
      BY <2>1 DEF Unseen
    <2> QED
      BY <1>1, <1>3, <1>5, <1>8, <2>1, <2>2 DEF Answered, Agrees
  <1>9. CASE s.open_limit # NoLimit /\ s.open_limit.id = i
    <2>1. Answered(s, orders')
      <3>1. CASE Fills(o, touched)
        BY <1>1, <1>2, <1>4, <1>9, <3>1 DEF Answered, q
      <3>2. CASE ~Fills(o, touched)
        BY <1>1, <1>2, <1>9, <3>2 DEF Answered, q
      <3> QED
        BY <3>1, <3>2
    <2>2. Unseen(s, orders) = o.filled /\ Unseen(s, orders') = q.filled
      BY <1>1, <1>9, UnseenIs DEF q
    <2>3. Agrees(s, orders, base, usdt) => Agrees(s, orders', base', usdt')
      BY <1>1, <1>2, <1>5, <2>2 DEF Agrees
    <2> QED
      BY <2>1, <2>3
  <1> QED
    BY <1>7, <1>8, <1>9

-----------------------------------------------------------------------------
(* What the steps have in common                                           *)

\* A step inside a poll, between its first read and its end.
LEMMA PollPaper ==
    ASSUME PaperInv, Up, mem' = mem, disk' = disk,
           orders' \in [OrderIds -> OrderResult],
           usdt' \in Int, free' = usdt', base' \in Int,
           seq' \in Nat, book' \subseteq OrderIds, \A i \in book' : i <= seq',
           book \subseteq book',
           Paper(st'), st'.open_limit # NoLimit => st'.open_limit.id \in book',
           Answered(st', orders'), Answered(mem, orders'),
           pc' \in {"topup_cancel", "resplit", "deposit_buy", "decide", "act",
                    "newcycle", "save"},
           PlanOK',
           pc' = "newcycle" => base' = 0,
           dirty' = dirty,
           ~dirty => /\ pc' \notin {"topup_cancel", "resplit", "deposit_buy"}
                     /\ pc' # "newcycle" => Agrees(st', orders', base', usdt')
                     /\ ~Booting /\ "mem" \notin unaware'
                          => Agrees(mem, orders', base', usdt')
    PROVE  PaperInv'
  <1>1. PaperTypeOK'
    BY DEF PaperInv, PaperTypeOK, IdsAreFresh, Pcs
  <1>2. MemoryOK'
    BY DEF PaperInv, MemoryOK, InBook
  <1>3. LabelOK'
    BY DEF PaperInv, LabelOK
  <1>4. AccountOK'
    BY DEF PaperInv, AccountOK, Up, Booting
  <1> QED
    BY <1>1, <1>2, <1>3, <1>4 DEF PaperInv

\* Such a step that makes no call, or one that only reads.
LEMMA QuietPaper ==
    ASSUME PaperInv, Up, pc # "newcycle",
           UNCHANGED <<exchangeVars, paperVars, mem, disk, unaware, dirty>>,
           Paper(st'), st'.open_limit = st.open_limit,
           dirty \/ (/\ st'.position_qty = st.position_qty
                     /\ st'.cycle_cash_remaining = st.cycle_cash_remaining),
           pc' \in {"topup_cancel", "resplit", "deposit_buy", "decide", "act", "save"},
           PlanOK',
           ~dirty => pc' \notin {"topup_cancel", "resplit", "deposit_buy"}
    PROVE  PaperInv'
  <1>1. /\ UNCHANGED <<orders, usdt, free, base, book, seq, mem, disk, unaware, dirty>>
        /\ PaperTypeOK /\ IdsAreFresh /\ MemoryOK /\ AccountOK
    BY DEF exchangeVars, paperVars, PaperInv, PaperTypeOK
  <1>2. Answered(st', orders) /\ Unseen(st', orders) = Unseen(st, orders)
    BY <1>1 DEF MemoryOK, Answered, Unseen
  <1>3. ~dirty => Agrees(st', orders, base, usdt)
    BY <1>1, <1>2 DEF AccountOK, Agrees
  <1> QED
    BY <1>1, <1>2, <1>3, PollPaper
    DEF PaperTypeOK, MemoryOK, AccountOK, InBook, IdsAreFresh

\* The loop goes on with a copy that agrees with the account.
LEMMA IdlePaper ==
    ASSUME PaperInv, Up, UNCHANGED <<exchangeVars, paperVars>>, Leave("idle"),
           st' = mem', Paper(mem'), Paper(disk'),
           InBook(mem'), Answered(mem', orders),
           ~dirty' => Agrees(mem', orders, base, usdt)
    PROVE  PaperInv'
  <1>1. /\ UNCHANGED <<orders, usdt, free, base, book, seq>>
        /\ PaperTypeOK /\ IdsAreFresh
    BY DEF exchangeVars, paperVars, PaperInv, PaperTypeOK
  <1>2. pc' = "idle" /\ pc' \in Pcs /\ PlanOK'
    BY LeaveControl
  <1>3. PaperTypeOK'
    BY <1>1, <1>2 DEF PaperTypeOK, IdsAreFresh, Up
  <1>4. MemoryOK'
    BY <1>1 DEF MemoryOK, InBook
  <1>5. LabelOK'
    BY <1>2 DEF LabelOK
  <1>6. AccountOK'
    BY <1>1 DEF AccountOK
  <1> QED
    BY <1>2, <1>3, <1>4, <1>5, <1>6 DEF PaperInv

\* The process ends and leaves a row.
LEMMA DownPaper ==
    ASSUME PaperInv, UNCHANGED <<exchangeVars, paperVars>>, Leave("down"),
           st' = NoState, mem' = NoState, Paper(disk')
    PROVE  PaperInv'
  <1>1. /\ UNCHANGED <<orders, usdt, free, base, book, seq>>
        /\ PaperTypeOK
    BY DEF exchangeVars, paperVars, PaperInv, PaperTypeOK
  <1>2. pc' = "down" /\ pc' \in Pcs /\ PlanOK'
    BY LeaveControl
  <1>3. PaperTypeOK'
    BY <1>1, <1>2, NoStatePaper DEF PaperTypeOK, IdsAreFresh, Up
  <1>4. MemoryOK'
    BY NoStatePaper DEF MemoryOK, InBook, Answered
  <1>5. LabelOK' /\ AccountOK'
    BY <1>2 DEF LabelOK, AccountOK, Up, Booting
  <1> QED
    BY <1>2, <1>3, <1>4, <1>5 DEF PaperInv

\* A boot rebuilds the exchange from the row on disk.
LEMMA BootPaper ==
    ASSUME PaperInv, pc = "down", mem' = mem, disk' = disk,
           orders' \in [OrderIds -> OrderResult],
           usdt' \in Int, free' = usdt', base' \in Int,
           seq' \in Nat, book' \subseteq OrderIds, \A i \in book' : i <= seq',
           Paper(st'), st'.open_limit # NoLimit => st'.open_limit.id \in book',
           Answered(st', orders'), Agrees(st', orders', base', usdt'),
           pc' = "boot_balance" => ~dirty' /\ Unseen(st', orders') = 0,
           pc' \in {"boot_balance", "save"}, todo' = todo
    PROVE  PaperInv'
  <1>1. mem = NoState /\ mem.open_limit = NoLimit /\ Booting
    BY NoStatePaper DEF PaperInv, LabelOK, Booting
  <1>2. PaperTypeOK'
    BY DEF PaperInv, PaperTypeOK, IdsAreFresh, Pcs
  <1>3. MemoryOK'
    BY <1>1 DEF MemoryOK, InBook, Answered
  <1>4. PlanOK'
    <2>1. todo = <<>>
      BY DEF PaperInv, PlanOK
    <2> QED
      BY <2>1, NoPlan
  <1>5. LabelOK'
    BY DEF LabelOK
  <1>6. AccountOK'
    BY <1>1 DEF AccountOK, Booting
  <1> QED
    BY <1>2, <1>3, <1>4, <1>5, <1>6 DEF PaperInv

-----------------------------------------------------------------------------
(* A poll begins                                                           *)

\* What a step may rely on.
LEMMA PaperFacts ==
    ASSUME PaperInv
    PROVE  /\ PaperTypeOK /\ PlanOK /\ MemoryOK /\ LabelOK /\ AccountOK
           /\ IdsAreFresh /\ pc \in Pcs
           /\ Paper(st) /\ Paper(mem) /\ Paper(disk)
           /\ st \in PaperState
           /\ orders \in [OrderIds -> OrderResult]
           /\ usdt \in Int /\ free = usdt /\ base \in Int
           /\ seq \in Nat /\ book \subseteq OrderIds
           /\ Answered(st, orders) /\ Answered(mem, orders)
           /\ InBook(st) /\ InBook(mem)
  BY DEF PaperInv, PaperTypeOK, MemoryOK, Paper

\* The order that the working state remembers, before it is asked for.
LEMMA OpenIsEmpty ==
    ASSUME PaperInv, st.open_limit # NoLimit
    PROVE  /\ st.open_limit.id \in OrderIds
           /\ IsOpen(st.open_limit.id) => orders[st.open_limit.id].filled = 0
  BY PaperFacts, RealId DEF Answered, IsOpen

LEMMA BeginPaper ==
    ASSUME PaperInv, NEW touched \in BOOLEAN, DryBeginPoll(touched)
    PROVE  PaperInv'
  <1>1. /\ pc = "idle" /\ pc' = "topup" /\ st = mem
        /\ UNCHANGED <<todo, unaware, dirty, mem, disk, book, seq>>
    BY PaperFacts DEF DryBeginPoll, Goto, paperVars, historyVars, LabelOK
  <1>2. PaperTypeOK /\ PlanOK /\ IdsAreFresh /\ Up
        /\ (~dirty => Agrees(st, orders, base, usdt))
    BY <1>1, PaperFacts DEF AccountOK, Up
  <1>3. PlanOK'
    BY <1>1, <1>2, NoPlan DEF PlanOK
  <1>4. ASSUME orders' \in [OrderIds -> OrderResult],
               usdt' \in Int, free' = usdt', base' \in Int,
               Paper(st'), st'.open_limit = NoLimit \/ st' = st,
               Answered(mem, orders'), Unseen(st', orders') = 0,
               ~dirty => Agrees(mem, orders', base', usdt'),
               ~dirty => Agrees(st', orders', base', usdt')
        PROVE  PaperInv'
    <2>1. PaperTypeOK'
      BY <1>1, <1>2, <1>4 DEF PaperTypeOK, IdsAreFresh, Pcs, Up
    <2>2. MemoryOK'
      BY <1>1, <1>4, PaperFacts DEF MemoryOK, InBook, Answered
    <2>3. LabelOK'
      BY <1>1, <1>4 DEF LabelOK
    <2>4. AccountOK'
      BY <1>1, <1>4 DEF AccountOK
    <2> QED
      BY <1>3, <2>1, <2>2, <2>3, <2>4 DEF PaperInv
  <1>5. CASE st.open_limit = NoLimit
    <2>1. st' = st /\ UNCHANGED <<orders, usdt, free, base>>
      BY <1>5 DEF DryBeginPoll, exchangeVars
    <2>2. Unseen(st', orders') = 0
      BY <1>5, <2>1 DEF Unseen
    <2> QED
      BY <1>1, <1>2, <1>4, <2>1, <2>2, PaperFacts
  <1>6. CASE st.open_limit # NoLimit
    <2> DEFINE id == st.open_limit.id
               r == Refreshed(st, orders'[id])
    <2>1. fetch_order(id, touched) /\ st' = Refreshed(st, Asked(orders[id], touched))
      BY <1>6 DEF DryBeginPoll
    <2>2. id \in OrderIds /\ (IsOpen(id) => orders[id].filled = 0)
      BY <1>6, OpenIsEmpty
    <2>3. /\ orders \in [OrderIds -> OrderResult] /\ usdt \in Int /\ base \in Int
          /\ Paper(st) /\ Answered(st, orders)
      BY PaperFacts
    <2>4. /\ orders' \in [OrderIds -> OrderResult]
          /\ usdt' \in Int /\ free' = usdt' /\ base' \in Int
          /\ orders'[id] = Asked(orders[id], touched)
      BY <2>1, <2>2, <2>3, AskedOrder
    <2>5. /\ Answered(st, orders')
          /\ Agrees(st, orders, base, usdt) => Agrees(st, orders', base', usdt')
      BY <2>1, <2>2, <2>3, AskedAgrees
    <2>6. /\ Paper(r)
          /\ r.open_limit = NoLimit \/ r = st
          /\ Unseen(r, orders') = 0
          /\ r.position_qty = st.position_qty + orders'[id].filled
          /\ r.cycle_cash_remaining = st.cycle_cash_remaining - orders'[id].filled
      BY <1>6, <2>3, <2>4, <2>5, RefreshedPaper
    <2>7. Unseen(st, orders') = orders'[id].filled
      BY <1>6, <2>3, <2>4, UnseenIs
    <2>8. st' = r
      BY <2>1, <2>4
    <2> HIDE DEF r, id
    <2>9. Agrees(st, orders', base', usdt') => Agrees(r, orders', base', usdt')
      <3>1. /\ st.position_qty + orders'[id].filled \in Int
            /\ st.cycle_cash_remaining - orders'[id].filled \in Int
        BY <2>2, <2>3, <2>4 DEF Paper, PaperState, OrderResult
      <3> QED
        BY <2>6, <2>7, <3>1 DEF Agrees
    <2> QED
      BY <1>1, <1>2, <1>4, <2>4, <2>5, <2>6, <2>8, <2>9
  <1> QED
    BY <1>5, <1>6

-----------------------------------------------------------------------------
(* check_and_apply_topup                                                   *)

\* A poll that knows every trade sees no change of the balance.
LEMMA NothingChanged ==
    ASSUME PaperInv, pc = "topup", ~dirty
    PROVE  Distance(Delta, 0) <= Threshold
  <1>1. usdt = st.cycle_cash_remaining - 0 /\ usdt \in Int
        /\ st.cycle_cash_remaining \in Int
    BY PaperFacts DEF AccountOK, LabelOK, Agrees, Up, PaperState
  <1>2. Delta = 0
    BY <1>1 DEF Delta
  <1>3. Threshold >= 0
    BY ParamsAssumption DEF Threshold, Larger
  <1> QED
    BY <1>2, <1>3 DEF Distance, Larger

LEMMA TopupPaper ==
    ASSUME PaperInv, UNCHANGED <<mem, disk, paperVars>>,
           \/ TopupDisabled(Booting) \/ TopupNothing(Booting)
           \/ TopupCandidate(Booting) \/ TopupYieldsToTakeProfit(Booting)
           \/ TopupConfirmed
    PROVE  PaperInv'
  <1>1. /\ pc = "topup" /\ Up /\ todo' = todo /\ todo = <<>>
        /\ UNCHANGED <<exchangeVars, paperVars, mem, disk, unaware, dirty>>
    BY PaperFacts DEF TopupDisabled, TopupNothing, TopupCandidate,
       TopupYieldsToTakeProfit, TopupConfirmed, Goto, PlanOK, Up
  <1>2. Delta \in Int /\ 0 \in Int
    BY PaperFacts DEF Delta, PaperState
  <1>3. /\ Paper(st') /\ st'.open_limit = st.open_limit
        /\ st'.position_qty = st.position_qty
        /\ st'.cycle_cash_remaining = st.cycle_cash_remaining
    <2>1. CASE st' = st
      BY <2>1, PaperFacts
    <2>2. CASE \E d \in Int : st' = [st EXCEPT !.pending_topup_delta = d]
      BY <2>2, PaperFacts, SameMoneyPaper
    <2> QED
      BY <1>2, <2>1, <2>2 DEF TopupDisabled, TopupNothing, TopupCandidate,
         TopupYieldsToTakeProfit, TopupConfirmed
  <1>4. CASE TopupConfirmed
    <2>1. dirty
      <3>1. Distance(Delta, 0) > Threshold
        BY <1>4 DEF TopupConfirmed
      <3>2. Distance(Delta, 0) \in Int /\ Threshold \in Int
        BY <1>2, ParamsAssumption DEF Distance, Threshold, Larger
      <3>3. ~(Distance(Delta, 0) <= Threshold)
        BY <3>1, <3>2
      <3> QED
        BY <1>1, <3>3, NothingChanged
    <2>2. /\ pc' \in {"topup_cancel", "resplit"}
          /\ pc' = "resplit" => st.open_limit = NoLimit
          /\ pc' = "topup_cancel" => st.open_limit # NoLimit
      BY <1>4 DEF TopupConfirmed
    <2>3. PlanOK'
      BY <1>1, <1>3, <2>2, NoPlan
    <2> QED
      BY <1>1, <1>3, <2>1, <2>2, <2>3, QuietPaper
  <1>5. CASE ~TopupConfirmed
    <2>1. pc' \in {"decide", "save"}
      BY <1>5 DEF TopupDisabled, TopupNothing, TopupCandidate,
         TopupYieldsToTakeProfit, Goto, AfterTopup
    <2>2. PlanOK'
      BY <1>1, <2>1, NoPlan
    <2> QED
      BY <1>1, <1>3, <2>1, <2>2, QuietPaper
  <1> QED
    BY <1>4, <1>5

\* A re-split is never done by a poll that knows every trade.
LEMMA ResplitPaper ==
    ASSUME PaperInv, UNCHANGED <<mem, disk, paperVars>>, Resplit(Booting)
    PROVE  PaperInv'
  <1>1. /\ pc = "resplit" /\ Up /\ dirty /\ st.open_limit = NoLimit
        /\ todo' = todo /\ todo = <<>>
        /\ UNCHANGED <<exchangeVars, paperVars, mem, disk, unaware, dirty>>
    BY PaperFacts DEF Resplit, PlanOK, LabelOK, Up
  <1> DEFINE split == apply_topup(st, usdt)
  <1>2. /\ Paper(split) /\ split.open_limit = NoLimit
        /\ Paper([split EXCEPT !.step_target_usdt = next_usdt(split)])
        /\ [split EXCEPT !.step_target_usdt = next_usdt(split)].open_limit = NoLimit
    BY <1>1, PaperFacts, SplitPaper
  <1>3. st' \in {split, [split EXCEPT !.step_target_usdt = next_usdt(split)]}
    BY DEF Resplit
  <1> HIDE DEF split
  <1>4. Paper(st') /\ st'.open_limit = NoLimit
    BY <1>2, <1>3
  <1>5. pc' \in {"deposit_buy", "decide", "save"}
    BY DEF Resplit, AfterTopup
  <1>6. PlanOK'
    BY <1>1, <1>4, <1>5, NoPlan
  <1> QED
    BY <1>1, <1>4, <1>5, <1>6, QuietPaper

-----------------------------------------------------------------------------
(* The decision and its calls                                              *)

LEMMA DecidePaper ==
    ASSUME PaperInv, UNCHANGED <<mem, disk, paperVars>>, Decide
    PROVE  PaperInv'
  <1>1. /\ pc = "decide" /\ Up /\ st' = st
        /\ UNCHANGED <<exchangeVars, paperVars, mem, disk, unaware, dirty>>
    BY DEF Decide, Up
  <1>2. ~st.ref => st.open_limit = NoLimit
    BY PaperFacts DEF Paper, PaperLimit
  <1>3. PlanOK' /\ pc' \in {"save", "act"}
    BY <1>2, DecidesPlan
  <1> QED
    BY <1>1, <1>3, PaperFacts, QuietPaper

LEMMA NothingToBuyPaper ==
    ASSUME PaperInv, UNCHANGED <<mem, disk, paperVars>>, NothingToBuy(Booting)
    PROVE  PaperInv'
  <1>1. /\ pc = "deposit_buy" \/ (pc = "act" /\ Tail(todo) = <<>>)
        /\ Return(FALSE, Booting) /\ st' = st
        /\ UNCHANGED <<exchangeVars, paperVars, mem, disk, unaware, dirty>>
    BY CallSites, PaperFacts DEF NothingToBuy
  <1>2. PlanOK' /\ pc' \in {"act", "decide", "save"}
    BY <1>1, ReturnPlan, PaperFacts
  <1> QED
    BY <1>1, <1>2, PaperFacts, QuietPaper DEF Up

LEMMA CancelPaper ==
    ASSUME PaperInv, UNCHANGED <<mem, disk, paperVars>>,
           NEW touched \in BOOLEAN, DryCancelLimit(touched)
    PROVE  PaperInv'
  <1> DEFINE id == st.open_limit.id
             c == on_limit_canceled(fold_order_progress(st, id, orders'[id].filled))
  <1>1. /\ st.open_limit # NoLimit /\ Up /\ pc # "newcycle"
        /\ \/ pc = "topup_cancel"
           \/ pc = "act" /\ Tail(todo) \in {<<"MarketBuy">>, <<"SellAll">>}
    BY CallSites, PaperFacts DEF DryCancelLimit, Up
  <1>2. /\ paper_cancel_order(id, touched) /\ Return(TRUE, Booting) /\ dirty' = dirty
        /\ st' = on_limit_canceled(
                    fold_order_progress(st, id, Asked(orders[id], touched).filled))
        /\ unaware' = IF Fills(orders[id], touched) /\ mem.open_limit.id # id
                      THEN Copies ELSE unaware
        /\ UNCHANGED <<book, seq, mem, disk>>
    BY DEF DryCancelLimit, paperVars
  <1>3. id \in OrderIds /\ (IsOpen(id) => orders[id].filled = 0)
    BY <1>1, OpenIsEmpty
  <1>4. /\ orders \in [OrderIds -> OrderResult] /\ usdt \in Int /\ base \in Int
        /\ Paper(st) /\ Answered(st, orders) /\ Paper(mem) /\ Answered(mem, orders)
    BY PaperFacts
  <1>5. /\ orders' \in [OrderIds -> OrderResult]
        /\ usdt' \in Int /\ free' = usdt' /\ base' \in Int
        /\ orders'[id].filled = Asked(orders[id], touched).filled
    BY <1>2, <1>3, <1>4, AskedOrder
  <1>6. /\ Answered(st, orders')
        /\ Agrees(st, orders, base, usdt) => Agrees(st, orders', base', usdt')
    BY <1>2, <1>3, <1>4, AskedAgrees
  <1>7. /\ Answered(mem, orders')
        /\ mem.open_limit.id = id \/ ~Fills(orders[id], touched) =>
             (Agrees(mem, orders, base, usdt) => Agrees(mem, orders', base', usdt'))
    BY <1>2, <1>3, <1>4, AskedAgrees
  <1>8. /\ Paper(c) /\ c.open_limit = NoLimit
        /\ c.position_qty = st.position_qty + orders'[id].filled
        /\ c.cycle_cash_remaining = st.cycle_cash_remaining - orders'[id].filled
    BY <1>1, <1>4, <1>6, CanceledFoldPaper
  <1>9. st' = c
    BY <1>2, <1>5
  <1>10. Unseen(st, orders') = orders'[id].filled
    BY <1>1, <1>4, <1>5, UnseenIs
  <1> HIDE DEF c, id
  <1>11. Agrees(st, orders', base', usdt') => Agrees(st', orders', base', usdt')
    <2>1. Unseen(c, orders') = 0
      BY <1>8 DEF Unseen
    <2>2. /\ st.position_qty + orders'[id].filled \in Int
          /\ st.cycle_cash_remaining - orders'[id].filled \in Int
      BY <1>3, <1>4, <1>5 DEF Paper, PaperState, OrderResult
    <2> QED
      BY <1>8, <1>9, <1>10, <2>1, <2>2 DEF Agrees
  <1>12. /\ PlanOK' /\ pc' \in {"act", "resplit", "decide", "save"}
         /\ pc' = "resplit" <=> pc = "topup_cancel"
    BY <1>1, <1>2, <1>8, <1>9, ReturnPlan, PaperFacts
  <1>13. Answered(st', orders')
    BY <1>8, <1>9 DEF Answered
  <1>14. ~dirty => /\ pc # "topup_cancel"
                   /\ Agrees(st', orders', base', usdt')
                   /\ ~Booting /\ "mem" \notin unaware'
                        => Agrees(mem, orders', base', usdt')
    BY <1>1, <1>2, <1>6, <1>7, <1>11, PaperFacts DEF AccountOK, LabelOK, Copies
  <1> QED
    BY <1>1, <1>2, <1>5, <1>7, <1>8, <1>9, <1>12, <1>13, <1>14, PaperFacts, PollPaper
    DEF PaperTypeOK, IdsAreFresh

LEMMA MarketBuyPaper ==
    ASSUME PaperInv, UNCHANGED <<mem, disk, paperVars>>, DryMarketBuy
    PROVE  PaperInv'
  <1> DEFINE f == apply_buy_fill(st, AmountToBuy)
  <1>1. /\ st.open_limit = NoLimit /\ Up /\ pc # "newcycle"
        /\ pc = "deposit_buy" \/ (pc = "act" /\ Tail(todo) = <<>>)
    BY CallSites, PaperFacts DEF DryMarketBuy, Up
  <1>2. /\ usdt' = usdt - AmountToBuy /\ free' = usdt' /\ base' = base + AmountToBuy
        /\ st' = f /\ Return(TRUE, Booting) /\ unaware' = Copies /\ dirty' = dirty
        /\ UNCHANGED <<orders, book, seq, mem, disk>>
    BY DEF DryMarketBuy, Balances, SendsOrder, paperVars
  <1>3. AmountToBuy \in Int
    BY PaperFacts DEF AmountToBuy, Remaining, PaperState
  <1>4. /\ f \in PaperState /\ f.open_limit = NoLimit
        /\ f.position_qty = st.position_qty + AmountToBuy
        /\ f.cycle_cash_remaining = st.cycle_cash_remaining - AmountToBuy
    BY <1>1, <1>3, BuyPaper, PaperFacts
  <1> HIDE DEF f
  <1>5. Paper(st') /\ Answered(st', orders') /\ Unseen(st', orders') = 0
    BY <1>2, <1>4 DEF Paper, PaperLimit, Answered, Unseen
  <1>6. usdt' \in Int /\ base' \in Int
    BY <1>2, <1>3, PaperFacts
  <1>7. ~dirty => Agrees(st', orders', base', usdt')
    <2>1. Unseen(st, orders) = 0
      BY <1>1 DEF Unseen
    <2>2. ~dirty => Agrees(st, orders, base, usdt)
      BY <1>1, PaperFacts DEF AccountOK
    <2>3. st.position_qty \in Int /\ st.cycle_cash_remaining \in Int
      BY PaperFacts DEF PaperState
    <2> QED
      BY <1>2, <1>3, <1>4, <1>5, <2>1, <2>2, <2>3 DEF Agrees
  <1>8. PlanOK' /\ pc' \in {"act", "decide", "save"}
    BY <1>1, <1>2, ReturnPlan, PaperFacts
  <1>9. "mem" \in unaware'
    BY <1>2 DEF Copies
  <1> QED
    BY <1>1, <1>2, <1>4, <1>5, <1>6, <1>7, <1>8, <1>9, PaperFacts, PollPaper
    DEF IdsAreFresh

LEMMA SellPaper ==
    ASSUME PaperInv, UNCHANGED <<mem, disk, paperVars>>, SellAll
    PROVE  PaperInv'
  <1>1. pc = "act" /\ Tail(todo) = <<>> /\ st.open_limit = NoLimit /\ Up
    BY CallSites, PaperFacts DEF SellAll, Up
  <1>2. /\ usdt' = usdt + SaleProceeds /\ free' = free + SaleProceeds /\ base' = 0
        /\ pc' = "newcycle" /\ todo' = <<>> /\ unaware' = Copies /\ dirty' = dirty
        /\ UNCHANGED <<orders, st, book, seq, mem, disk>>
    BY <1>1 DEF SellAll, market_sell_all, paperVars
  <1>3. SaleProceeds \in Int
    BY PaperFacts, ExchangeAssumption DEF SaleProceeds
  <1>4. usdt' \in Int /\ free' = usdt' /\ base' \in Int
    BY <1>2, <1>3, PaperFacts
  <1>5. PlanOK'
    BY <1>1, <1>2, NoPlan
  <1>6. "mem" \in unaware'
    BY <1>2 DEF Copies
  <1> QED
    BY <1>1, <1>2, <1>4, <1>5, <1>6, PaperFacts, PollPaper DEF IdsAreFresh, InBook

LEMMA NewCyclePaper ==
    ASSUME PaperInv, UNCHANGED <<mem, disk, paperVars>>, StartNewCycle
    PROVE  PaperInv'
  <1> DEFINE c == start_cycle(free, st.cycle_id + 1)
  <1>1. /\ pc = "newcycle" /\ Up /\ base = 0 /\ st.open_limit = NoLimit
        /\ Return(TRUE, FALSE) /\ st' = c /\ unaware' = Copies /\ dirty' = dirty
        /\ UNCHANGED <<orders, usdt, free, base, book, seq, mem, disk>>
    BY PaperFacts DEF StartNewCycle, SendsOrder, exchangeVars, paperVars, Up, LabelOK,
       PlanOK
  <1>2. /\ Paper(c) /\ c.open_limit = NoLimit
        /\ c.position_qty = 0 /\ c.cycle_cash_remaining = free
    <2>1. free \in Int /\ st.cycle_id + 1 \in Nat
      BY PaperFacts DEF PaperState
    <2> QED
      BY <2>1, StartCyclePaper
  <1> HIDE DEF c
  <1>3. Answered(st', orders') /\ Unseen(st', orders') = 0
    BY <1>1, <1>2 DEF Answered, Unseen
  <1>4. Agrees(st', orders', base', usdt')
    BY <1>1, <1>2, <1>3, PaperFacts DEF Agrees
  <1>5. PlanOK' /\ pc' \in {"act", "decide", "save"}
    BY <1>1, ReturnPlan, PaperFacts
  <1>6. "mem" \in unaware'
    BY <1>1 DEF Copies
  <1> QED
    BY <1>1, <1>2, <1>3, <1>4, <1>5, <1>6, PaperFacts, PollPaper DEF IdsAreFresh

\* A new order has a number of its own: no copy of the process asks for it.
LEMMA PlacePaper ==
    ASSUME PaperInv, UNCHANGED <<mem, disk, kill>>, DryPlaceLimitBuy
    PROVE  PaperInv'
  <1> DEFINE i == seq + 1
             p == on_limit_placed(st, [id |-> i, usdt |-> next_usdt(st),
                                       filled_quote_seen |-> 0])
  <1>1. /\ pc = "act" /\ Tail(todo) = <<>> /\ ChaseDue(st) /\ Up
        /\ st.open_limit = NoLimit
    BY CallSites, PaperFacts DEF DryPlaceLimitBuy, Up, ChaseDue
  <1>2. /\ i \in OrderIds /\ seq' = i /\ book' = book \cup {i}
        /\ orders' = [orders EXCEPT ![i] = [status |-> "open", left |-> next_usdt(st),
                                            filled |-> 0]]
        /\ st' = p /\ Return(TRUE, FALSE)
        /\ UNCHANGED <<usdt, free, base, unaware, dirty, mem, disk>>
    BY DEF DryPlaceLimitBuy
  <1>3. /\ Paper(p) /\ p.open_limit.id = i /\ p.open_limit # NoLimit
        /\ p.open_limit.usdt = next_usdt(st) /\ next_usdt(st) \in Nat
        /\ p.position_qty = st.position_qty
        /\ p.cycle_cash_remaining = st.cycle_cash_remaining
    BY <1>1, <1>2, PlacedPaper, PaperFacts
  <1> HIDE DEF p
  <1>4. \A j \in book : j <= seq /\ j \in Nat
    BY <1>1, PaperFacts, ExchangeAssumption DEF IdsAreFresh
  <1>5. /\ seq \in Nat /\ i \in Nat /\ i \notin book /\ seq' \in Nat
        /\ book' \subseteq OrderIds /\ \A j \in book' : j <= seq'
    BY <1>2, <1>4, PaperFacts
  <1> HIDE DEF i
  <1>6. /\ orders' \in [OrderIds -> OrderResult]
        /\ orders'[i] = [status |-> "open", left |-> next_usdt(st), filled |-> 0]
        /\ \A j \in OrderIds : j # i => orders'[j] = orders[j]
    BY <1>2, <1>3, PaperFacts DEF OrderResult
  <1>7. Answered(st', orders') /\ Unseen(st', orders') = 0
    <2>1. Answered(st', orders')
      BY <1>2, <1>3, <1>6 DEF Answered
    <2>2. Unseen(st', orders') = orders'[i].filled
      BY <1>2, <1>3, <1>6, UnseenIs
    <2> QED
      BY <1>6, <2>1, <2>2
  <1>8. Answered(mem, orders') /\ Unseen(mem, orders') = Unseen(mem, orders)
    <2>1. CASE mem.open_limit = NoLimit
      BY <2>1 DEF Answered, Unseen
    <2>2. CASE mem.open_limit # NoLimit
      <3>1. mem.open_limit.id \in book /\ mem.open_limit.id \in OrderIds
        BY <2>2, PaperFacts DEF InBook
      <3>2. orders'[mem.open_limit.id] = orders[mem.open_limit.id]
        BY <1>5, <1>6, <3>1
      <3> QED
        BY <3>2, PaperFacts DEF Answered, Unseen
    <2> QED
      BY <2>1, <2>2
  <1>9. ~dirty => /\ Agrees(st', orders', base', usdt')
                  /\ ~Booting /\ "mem" \notin unaware'
                       => Agrees(mem, orders', base', usdt')
    <2>1. Unseen(st, orders) = 0
      BY <1>1 DEF Unseen
    <2> QED
      BY <1>1, <1>2, <1>3, <1>7, <1>8, <2>1, PaperFacts DEF AccountOK, Agrees
  <1>10. PlanOK' /\ pc' \in {"act", "decide", "save"}
    BY <1>1, <1>2, ReturnPlan, PaperFacts
  <1> QED
    BY <1>1, <1>2, <1>3, <1>5, <1>6, <1>7, <1>8, <1>9, <1>10, PaperFacts, PollPaper

-----------------------------------------------------------------------------
(* The loop                                                                *)

\* A poll that raises falls back to main's copy, which knows of every order unless
\* one is forgotten now.
LEMMA RaisesPaper ==
    ASSUME PaperInv, UNCHANGED <<exchangeVars, paperVars>>, pc # "down", Raises(FALSE)
    PROVE  PaperInv'
  <1>1. CASE PollRaises /\ dirty' = (dirty \/ FALSE \/ "mem" \in unaware)
    <2>1. /\ ~Booting /\ st' = mem /\ mem' = mem /\ disk' = disk /\ Leave("idle")
      BY <1>1 DEF PollRaises
    <2>2. ~dirty' => ~dirty /\ "mem" \notin unaware
      BY <1>1
    <2>3. ~dirty' => Agrees(mem', orders, base, usdt)
      BY <2>1, <2>2, PaperFacts DEF AccountOK
    <2> QED
      BY <2>1, <2>3, PaperFacts, IdlePaper DEF Up, InBook
  <1>2. CASE Booting /\ Dies
    BY <1>2, PaperFacts, DownPaper DEF Dies
  <1> QED
    BY <1>1, <1>2 DEF Raises

LEMMA FailurePaper == PaperInv /\ DryFailure => PaperInv'
  <1> SUFFICES ASSUME PaperInv, DryFailure PROVE PaperInv'
    OBVIOUS
  <1>1. pc # "down"
    <2>1. CASE Call \in {"MarketBuy", "SellAll", "CancelLimit"}
      BY <2>1, CallSites, PaperFacts
    <2>2. CASE pc \in {"decide", "topup"}
      BY <2>2
    <2> QED
      BY <2>1, <2>2 DEF DryFailure, DryReadFails
  <1> QED
    BY <1>1, RaisesPaper DEF DryFailure

LEMMA SavePaper ==
    ASSUME PaperInv, UNCHANGED paperVars, Save \/ SaveFails \/ Stop \/ Crash
    PROVE  PaperInv'
  <1>1. UNCHANGED <<exchangeVars, paperVars>> /\ pc # "down"
    BY DEF Save, SaveFails, Stop, Crash
  <1>2. pc = "save" /\ ~dirty => Agrees(st, orders, base, usdt)
    BY PaperFacts DEF AccountOK, Up
  <1>3. CASE Save
    <2>1. CASE st.status = "HALTED"
      BY <1>1, <1>3, <2>1, PaperFacts, DownPaper DEF Save
    <2>2. CASE st.status # "HALTED"
      <3>1. /\ disk' = st /\ st' = st /\ mem' = st /\ Leave("idle") /\ dirty' = dirty
            /\ pc = "save"
        BY <1>3, <2>2 DEF Save
      <3> QED
        BY <1>1, <1>2, <3>1, PaperFacts, IdlePaper DEF Up, InBook
    <2> QED
      BY <2>1, <2>2
  <1>4. CASE SaveFails
    <2>1. CASE Booting
      BY <1>1, <1>4, <2>1, PaperFacts, DownPaper DEF SaveFails, Dies
    <2>2. CASE ~Booting
      <3>1. /\ disk' = disk /\ st' = st /\ mem' = st /\ Leave("idle") /\ dirty' = dirty
            /\ pc = "save"
        BY <1>4, <2>2 DEF SaveFails
      <3> QED
        BY <1>1, <1>2, <3>1, PaperFacts, IdlePaper DEF Up, InBook
    <2> QED
      BY <2>1, <2>2
  <1>5. CASE Stop
    BY <1>1, <1>5, PaperFacts, DownPaper DEF Stop
  <1>6. CASE Crash
    BY <1>1, <1>6, PaperFacts, DownPaper DEF Crash, Dies
  <1> QED
    BY <1>3, <1>4, <1>5, <1>6

-----------------------------------------------------------------------------
(* Boot                                                                    *)

LEMMA FreshPaper ==
    ASSUME PaperInv, DryBootFresh
    PROVE  PaperInv'
  <1> DEFINE c == start_cycle(InitialUsdt, 1)
  <1>1. /\ Paper(c) /\ c.open_limit = NoLimit
        /\ c.position_qty = 0 /\ c.cycle_cash_remaining = InitialUsdt
    BY StartCyclePaper, ExchangeAssumption
  <1>2. st' = c \/ st' = Halted(c)
    BY DEF DryBootFresh
  <1> HIDE DEF c
  <1>3. /\ Paper(st') /\ st'.open_limit = NoLimit
        /\ st'.position_qty = 0 /\ st'.cycle_cash_remaining = InitialUsdt
    BY <1>1, <1>2, SameMoneyPaper
  <1>4. /\ pc = "down" /\ mem' = mem /\ disk' = disk /\ pc' = "save" /\ todo' = todo
        /\ usdt' = InitialUsdt /\ free' = InitialUsdt /\ base' = 0
        /\ orders' = NoOrders /\ book' = {} /\ seq' = 0
    BY DEF DryBootFresh, Balances, Goto
  <1>5. NoOrders \in [OrderIds -> OrderResult] /\ InitialUsdt \in Int
    BY ExchangeAssumption DEF NoOrders, OrderResult
  <1>6. Answered(st', orders') /\ Agrees(st', orders', base', usdt')
    BY <1>3, <1>4, <1>5 DEF Answered, Agrees, Unseen
  <1> QED
    BY <1>3, <1>4, <1>5, <1>6, BootPaper

\* The exchange that resume_from builds is the account of the row on disk, up to
\* what its order fills at the first question.
LEMMA RestoredPaper ==
    ASSUME PaperInv, NEW touched \in BOOLEAN, resume_from(disk, touched)
    PROVE  /\ orders' \in [OrderIds -> OrderResult]
           /\ usdt' \in Int /\ free' = usdt' /\ base' \in Int
           /\ seq' \in Nat /\ book' \subseteq OrderIds /\ \A i \in book' : i <= seq'
           /\ disk.open_limit # NoLimit => disk.open_limit.id \in book'
           /\ Answered(disk, orders') /\ Agrees(disk, orders', base', usdt')
  <1> DEFINE ol == disk.open_limit
             o == [status |-> "open", left |-> ol.usdt - ol.filled_quote_seen,
                   filled |-> ol.filled_quote_seen]
             paid == IF ol = NoLimit THEN 0 ELSE Paid(o, touched)
  <1>1. /\ usdt' = disk.cycle_cash_remaining - paid /\ free' = usdt'
        /\ base' = disk.position_qty + paid
        /\ orders' = [i \in OrderIds |-> IF i \in RestoredIds(ol) THEN Asked(o, touched)
                                        ELSE NoOrders[i]]
        /\ book' = RestoredIds(ol) /\ seq' = ol.id
    BY DEF resume_from, Balances, RestoredCash, RestoredSeq
  <1>2. /\ Paper(disk) /\ ol \in OpenLimit /\ ol.id \in Nat /\ ol.usdt \in Nat
        /\ disk.cycle_cash_remaining \in Int /\ disk.position_qty \in Int
    BY PaperFacts DEF Paper, PaperState, OpenLimit
  <1>3. NoOrders \in [OrderIds -> OrderResult]
    BY DEF NoOrders, OrderResult
  <1>4. CASE ol = NoLimit
    <2>1. /\ orders' = NoOrders /\ book' = {} /\ paid = 0
      BY <1>1, <1>4 DEF RestoredIds, NoOrders
    <2> HIDE DEF paid
    <2>2. Unseen(disk, orders') = 0 /\ Answered(disk, orders')
      BY <1>4 DEF Unseen, Answered
    <2> QED
      BY <1>1, <1>2, <1>3, <1>4, <2>1, <2>2 DEF Agrees
  <1>5. CASE ol # NoLimit
    <2> DEFINE a == Asked(o, touched)
    <2>1. ol.id \in OrderIds /\ ol.filled_quote_seen = 0
      BY <1>2, <1>5 DEF Paper, PaperLimit
    <2>2. o.left = ol.usdt /\ o.filled = 0 /\ o.status = "open"
      BY <1>2, <2>1
    <2>3. paid = Paid(o, touched)
      BY <1>5
    <2> HIDE DEF o, paid
    <2>4. /\ a.filled = paid /\ paid \in Nat
          /\ a.filled = IF a.status = "closed" THEN ol.usdt ELSE 0
          /\ a.status = "open" => a.left = ol.usdt
          /\ a \in OrderResult
      <3>1. CASE touched
        <4>1. Fills(o, touched) /\ Amount(o) = ol.usdt
          BY <1>2, <2>2, <3>1 DEF Fills, Amount
        <4> QED
          BY <1>2, <2>3, <4>1 DEF Asked, Paid, OrderResult
      <3>2. CASE ~touched
        <4>1. a = o /\ paid = 0
          BY <2>3, <3>2 DEF Fills, Asked, Paid
        <4>2. o \in OrderResult
          BY <1>2, <2>2 DEF OrderResult, o
        <4> QED
          BY <2>2, <4>1, <4>2
      <3> QED
        BY <3>1, <3>2
    <2> HIDE DEF a
    <2>5. RestoredIds(ol) = {ol.id}
      BY <1>5 DEF RestoredIds
    <2>6. orders' = [i \in OrderIds |-> IF i \in {ol.id} THEN a ELSE NoOrders[i]]
      BY <1>1, <2>5 DEF a
    <2>7. orders' \in [OrderIds -> OrderResult] /\ orders'[ol.id] = a
      BY <1>3, <2>1, <2>4, <2>6
    <2>8. Answered(disk, orders')
      BY <2>4, <2>7 DEF Answered
    <2>9. Unseen(disk, orders') = paid
      BY <1>2, <1>5, <2>4, <2>7, UnseenIs
    <2> QED
      BY <1>1, <1>2, <2>1, <2>4, <2>5, <2>7, <2>8, <2>9 DEF Agrees
  <1> QED
    BY <1>4, <1>5

LEMMA ResumePaper ==
    ASSUME PaperInv, NEW touched \in BOOLEAN, DryBootResume(touched)
    PROVE  PaperInv'
  <1>1. /\ pc = "down" /\ mem' = mem /\ disk' = disk /\ todo' = todo
        /\ pc' = "boot_balance" /\ dirty' = FALSE
        /\ st' = IF disk.open_limit = NoLimit THEN disk
                 ELSE Refreshed(disk, orders'[disk.open_limit.id])
    BY DEF DryBootResume, Goto
  <1>2. /\ orders' \in [OrderIds -> OrderResult]
        /\ usdt' \in Int /\ free' = usdt' /\ base' \in Int
        /\ seq' \in Nat /\ book' \subseteq OrderIds /\ \A i \in book' : i <= seq'
        /\ disk.open_limit # NoLimit => disk.open_limit.id \in book'
        /\ Answered(disk, orders') /\ Agrees(disk, orders', base', usdt')
    BY RestoredPaper DEF DryBootResume
  <1>3. /\ Paper(st')
        /\ st'.open_limit = NoLimit \/ st' = disk
        /\ Answered(st', orders') /\ Unseen(st', orders') = 0
        /\ Agrees(st', orders', base', usdt')
    <2>1. CASE disk.open_limit = NoLimit
      <3>1. st' = disk
        BY <1>1, <2>1
      <3>2. Unseen(st', orders') = 0
        BY <2>1, <3>1 DEF Unseen
      <3> QED
        BY <1>2, <3>1, <3>2, PaperFacts
    <2>2. CASE disk.open_limit # NoLimit
      <3> DEFINE filled == orders'[disk.open_limit.id].filled
      <3>1. /\ Paper(st')
            /\ st'.open_limit = NoLimit \/ st' = disk
            /\ Unseen(st', orders') = 0
            /\ st'.position_qty = disk.position_qty + filled
            /\ st'.cycle_cash_remaining = disk.cycle_cash_remaining - filled
        BY <1>1, <1>2, <2>2, PaperFacts, RefreshedPaper
      <3>2. Unseen(disk, orders') = filled
        BY <1>2, <2>2, PaperFacts, UnseenIs
      <3>3. Answered(st', orders')
        BY <1>2, <3>1 DEF Answered
      <3> HIDE DEF filled
      <3>4. st'.position_qty \in Int /\ st'.cycle_cash_remaining \in Int
        BY <3>1 DEF Paper, PaperState
      <3>5. Agrees(st', orders', base', usdt')
        BY <1>2, <3>1, <3>2, <3>4 DEF Agrees
      <3> QED
        BY <3>1, <3>3, <3>5
    <2> QED
      BY <2>1, <2>2
  <1> QED
    BY <1>1, <1>2, <1>3, BootPaper

LEMMA FetchFailsPaper ==
    ASSUME PaperInv, DryBootFetchFails
    PROVE  PaperInv'
  <1>1. /\ pc = "down" /\ mem' = mem /\ disk' = disk /\ todo' = todo
        /\ pc' = "save" /\ st' = Halted(disk)
    BY DEF DryBootFetchFails, Goto
  <1>2. /\ orders' \in [OrderIds -> OrderResult]
        /\ usdt' \in Int /\ free' = usdt' /\ base' \in Int
        /\ seq' \in Nat /\ book' \subseteq OrderIds /\ \A i \in book' : i <= seq'
        /\ disk.open_limit # NoLimit => disk.open_limit.id \in book'
        /\ Answered(disk, orders') /\ Agrees(disk, orders', base', usdt')
    BY RestoredPaper DEF DryBootFetchFails
  <1>3. /\ Paper(st') /\ st'.open_limit = disk.open_limit
        /\ st'.position_qty = disk.position_qty
        /\ st'.cycle_cash_remaining = disk.cycle_cash_remaining
    BY <1>1, PaperFacts, SameMoneyPaper
  <1>4. Answered(st', orders') /\ Agrees(st', orders', base', usdt')
    BY <1>2, <1>3 DEF Answered, Agrees, Unseen
  <1> QED
    BY <1>1, <1>2, <1>3, <1>4, BootPaper

\* The balance that reconcile compares is always the position of the row.
LEMMA BalancePaper ==
    ASSUME PaperInv, UNCHANGED paperVars, BootCheckBalance
    PROVE  PaperInv'
  <1>1. /\ pc = "boot_balance" /\ Up /\ ~dirty /\ Unseen(st, orders) = 0
        /\ st.position_qty \in Int
        /\ UNCHANGED <<orders, usdt, free, base, book, seq, unaware, dirty, mem, disk, todo>>
    BY PaperFacts DEF BootCheckBalance, LabelOK, Up, PaperState, exchangeVars, paperVars,
       historyVars, Goto
  <1>2. base = st.position_qty
    BY <1>1, PaperFacts DEF AccountOK, Agrees
  <1>3. st' = st /\ pc' = "topup"
    BY <1>2 DEF BootCheckBalance, Goto
  <1>4. PaperTypeOK'
    BY <1>1, <1>3, PaperFacts DEF PaperTypeOK, IdsAreFresh, Pcs
  <1>5. MemoryOK'
    BY <1>1, <1>3, PaperFacts DEF MemoryOK, InBook
  <1>6. PlanOK'
    <2>1. todo = <<>>
      BY <1>1, PaperFacts DEF PlanOK
    <2> QED
      BY <1>1, <1>3, <2>1, NoPlan
  <1>7. LabelOK'
    BY <1>1, <1>3 DEF LabelOK
  <1>8. AccountOK'
    BY <1>1, <1>3, PaperFacts DEF AccountOK, Up, Booting
  <1> QED
    BY <1>4, <1>5, <1>6, <1>7, <1>8 DEF PaperInv

-----------------------------------------------------------------------------
(* The environment                                                         *)

LEMMA TimePaper ==
    ASSUME PaperInv, UNCHANGED paperVars, TimePasses
    PROVE  PaperInv'
  <1>1. /\ st' = Aged(st) /\ mem' = Aged(mem) /\ disk' = Aged(disk)
        /\ pc \in {"idle", "down"}
        /\ UNCHANGED <<orders, usdt, free, base, book, seq, pc, todo, unaware, dirty>>
    BY DEF TimePasses, exchangeVars, pollVars, paperVars, historyVars
  <1>2. /\ Paper(st') /\ st'.open_limit = st.open_limit
        /\ st'.position_qty = st.position_qty
        /\ st'.cycle_cash_remaining = st.cycle_cash_remaining
    BY <1>1, PaperFacts, SameMoneyPaper
  <1>3. /\ Paper(mem') /\ mem'.open_limit = mem.open_limit
        /\ mem'.position_qty = mem.position_qty
        /\ mem'.cycle_cash_remaining = mem.cycle_cash_remaining
    BY <1>1, PaperFacts, SameMoneyPaper
  <1>4. Paper(disk')
    BY <1>1, PaperFacts, SameMoneyPaper
  <1>5. Booting => Booting'
    BY <1>1, AgedNoState DEF Booting
  <1>6. PaperTypeOK'
    <2>1. IdsAreFresh'
      BY <1>1, PaperFacts DEF IdsAreFresh, Up
    <2> QED
      BY <1>1, <1>2, <1>3, <1>4, <2>1, PaperFacts DEF PaperTypeOK
  <1>7. MemoryOK'
    BY <1>1, <1>2, <1>3, PaperFacts DEF MemoryOK, InBook, Answered
  <1>8. PlanOK'
    <2>1. todo = <<>>
      BY <1>1, PaperFacts DEF PlanOK
    <2> QED
      BY <1>1, <2>1, NoPlan
  <1>9. LabelOK'
    BY <1>1, <1>5, PaperFacts DEF LabelOK
  <1>10. AccountOK'
    BY <1>1, <1>2, <1>3, <1>5, PaperFacts DEF AccountOK, Agrees, Unseen, Up
  <1> QED
    BY <1>6, <1>7, <1>8, <1>9, <1>10 DEF PaperInv

LEMMA SamePaper ==
    ASSUME PaperInv, UNCHANGED <<exchangeVars, paperVars, st, pollVars, unaware, dirty,
                                 mem, disk>>
    PROVE  PaperInv'
  <1>1. UNCHANGED <<orders, usdt, free, base, book, seq, st, pc, todo, unaware, dirty,
                    mem, disk>>
    BY DEF exchangeVars, pollVars, paperVars
  <1> QED
    BY <1>1 DEF PaperInv, PaperTypeOK, IdsAreFresh, PlanOK, MemoryOK, InBook, LabelOK,
       AccountOK, Up, Booting

-----------------------------------------------------------------------------
(* The theorems                                                            *)

LEMMA InitPaper == DryInit => PaperInv
  <1> SUFFICES ASSUME DryInit PROVE PaperInv
    OBVIOUS
  <1>1. /\ pc = "down" /\ todo = <<>>
        /\ st = NoState /\ mem = NoState /\ disk = NoState /\ book = {} /\ seq = 0
        /\ orders \in [OrderIds -> OrderResult]
        /\ usdt \in Int /\ free = usdt /\ base \in Int
    BY ExchangeAssumption DEF DryInit, Init, ExchangeInit, OrderResult
  <1>2. PaperTypeOK
    BY <1>1, NoStatePaper DEF PaperTypeOK, IdsAreFresh, Pcs
  <1>3. MemoryOK
    BY <1>1, NoStatePaper DEF MemoryOK, InBook, Answered
  <1>4. PlanOK
    BY <1>1, EmptyPlan DEF PlanOK, Plans
  <1>5. LabelOK /\ AccountOK
    BY <1>1 DEF LabelOK, AccountOK, Booting, Up
  <1> QED
    BY <1>2, <1>3, <1>4, <1>5 DEF PaperInv

LEMMA NextPaper == PaperInv /\ [DryNext]_dryVars => PaperInv'
  <1> SUFFICES ASSUME PaperInv, [DryNext]_dryVars PROVE PaperInv'
    OBVIOUS
  <1>1. ASSUME NEW touched \in BOOLEAN, DryBeginPoll(touched) PROVE PaperInv'
    BY <1>1, BeginPaper
  <1>2. CASE DryPollStep
    <2>1. UNCHANGED <<mem, disk, paperVars>>
      BY <1>2 DEF DryPollStep
    <2>2. CASE \/ TopupDisabled(Booting) \/ TopupNothing(Booting)
               \/ TopupCandidate(Booting) \/ TopupYieldsToTakeProfit(Booting)
               \/ TopupConfirmed
      BY <2>1, <2>2, TopupPaper
    <2>3. CASE Resplit(Booting)
      BY <2>1, <2>3, ResplitPaper
    <2>4. CASE Decide
      BY <2>1, <2>4, DecidePaper
    <2>5. CASE NothingToBuy(Booting)
      BY <2>1, <2>5, NothingToBuyPaper
    <2>6. ASSUME NEW touched \in BOOLEAN, DryCancelLimit(touched) PROVE PaperInv'
      BY <2>1, <2>6, CancelPaper
    <2>7. CASE DryMarketBuy
      BY <2>1, <2>7, MarketBuyPaper
    <2>8. CASE SellAll
      BY <2>1, <2>8, SellPaper
    <2>9. CASE StartNewCycle
      BY <2>1, <2>9, NewCyclePaper
    <2> QED
      BY <1>2, <2>2, <2>3, <2>4, <2>5, <2>6, <2>7, <2>8, <2>9 DEF DryPollStep
  <1>3. CASE DryPlaceLimitBuy /\ UNCHANGED <<mem, disk, kill>>
    BY <1>3, PlacePaper
  <1>4. CASE DryFailure
    BY <1>4, FailurePaper
  <1>5. CASE DryBoot
    BY <1>5, FreshPaper, ResumePaper, FetchFailsPaper DEF DryBoot
  <1>6. CASE DryMain
    <2>1. UNCHANGED paperVars
      BY <1>6 DEF DryMain
    <2>2. CASE Save \/ SaveFails \/ Stop \/ Crash
      BY <2>1, <2>2, SavePaper
    <2>3. CASE BootCheckBalance
      BY <2>1, <2>3, BalancePaper
    <2>4. CASE TimePasses
      BY <2>1, <2>4, TimePaper
    <2>5. CASE ToggleKill
      BY <2>1, <2>5, SamePaper DEF ToggleKill, historyVars
    <2> QED
      BY <1>6, <2>2, <2>3, <2>4, <2>5 DEF DryMain
  <1>7. CASE UNCHANGED dryVars
    BY <1>7, SamePaper DEF dryVars, vars, historyVars
  <1> QED
    BY <1>1, <1>2, <1>3, <1>4, <1>5, <1>6, <1>7 DEF DryNext

\* PaperInv holds in every reachable state of a dry run: its orders are filled
\* whole or not at all, and the copies of the state account for all of them.
THEOREM PaperInvariance == DrySpec => []PaperInv
  BY InitPaper, NextPaper, PTL DEF DrySpec

\* Unless a trade of the running process was forgotten, position and cash of the
\* working state are the virtual balances, up to a fill not yet folded:
\* fetch_order, cancel_order and resume_from of PaperExchange move money and
\* amounts together, through discarded polls, failed saves, crashes and restarts.
THEOREM PaperAccounts == DrySpec => []PaperBooks
  <1>1. PaperInv => PaperBooks
    <2> SUFFICES ASSUME PaperInv, Up, ~dirty, pc # "newcycle"
                 PROVE  /\ base = st.position_qty + Unfolded
                        /\ usdt = st.cycle_cash_remaining - Unfolded
      BY DEF PaperBooks
    <2>1. Unfolded = Unseen(st, orders)
      BY DEF Unfolded, Known, Up
    <2> QED
      BY <2>1, PaperFacts DEF AccountOK, Agrees
  <1> QED
    BY <1>1, PaperInvariance, PTL

\* fetch_order and cancel_order of PaperExchange never miss an entry of _orders:
\* what the working state or main's copy remembers is there.
THEOREM RememberedOrdersExist == DrySpec => []KnownOrdersExist
  <1>1. PaperInv => KnownOrdersExist
    BY PaperFacts DEF KnownOrdersExist, InBook
  <1> QED
    BY <1>1, PaperInvariance, PTL

\* place_limit_buy of PaperExchange never overwrites an entry of _orders, through
\* restarts that number from the order of the saved state on.
THEOREM NumbersAreFresh == DrySpec => []IdsAreFresh
  <1>1. PaperInv => IdsAreFresh
    BY PaperFacts
  <1> QED
    BY <1>1, PaperInvariance, PTL

\* The balance check of reconcile never halts a dry run, and check_and_apply_topup
\* confirms no transfer, so re-splits nothing, unless a trade was forgotten.
THEOREM NoFalseTransfers == DrySpec => []NothingUnexplained
  <1>1. PaperInv => NothingUnexplained
    <2> SUFFICES ASSUME PaperInv PROVE NothingUnexplained
      OBVIOUS
    <2>1. ASSUME pc = "boot_balance" PROVE base = st.position_qty
      <3>1. ~dirty /\ Unseen(st, orders) = 0 /\ Agrees(st, orders, base, usdt)
        BY <2>1, PaperFacts DEF LabelOK, AccountOK, Up
      <3>2. st.position_qty \in Int
        BY PaperFacts DEF PaperState
      <3> QED
        BY <3>1, <3>2 DEF Agrees
    <2> QED
      BY <2>1, PaperFacts DEF NothingUnexplained, LabelOK
  <1> QED
    BY <1>1, PaperInvariance, PTL
=============================================================================
